# A verification development of pgRouting

pgRouting adds routing to PostgreSQL: a query delivers rows of edges (identifier, source, target,
cost, reverse_cost), a C++ library builds a graph from them, an algorithm searches it, and rows go
back to the database. This directory holds TLA+ models of the algorithms that are pgRouting's own
and of the functions that SQL sees, the TLC configurations that check them on small instances, and
proofs, checked by TLAPS, of the results that matter most. Paths below are relative to `src/` in the
repository.

Contents: 1 the system; 2 what can go wrong; 3 the modules and the code; 4 the runs; 5 bounds;
6 fairness; 7 the proofs; 8 what disagrees with the documentation; 9 assumptions and what is not
modelled; 10 the plan.

## 1. The system and its parts

A call of a SQL function runs like this: the C function (`src/<family>/*.c`) connects to SPI, its
driver (`src/<family>/*_driver.cpp`) runs the queries it was given as texts, builds one graph and one
object of the algorithm, calls it for all the pairs of vertices that were asked, and copies rows into
memory of the caller; the function then hands them out one by one. Everything runs in one thread of
one PostgreSQL backend. There are no messages between processes and nothing is persisted. The hard
behaviour comes from **state that outlives the step it was made for**: one graph and one search
object serve all the pairs, detours and legs of a call, they are cut, restored and cleared in
between, exceptions leave the middle of a loop, worklists and queues hold entries that are stale
by the time they are taken, copies are tried and rolled back, and a query that is run may call such a
function itself, on the same stack of SPI levels.

| Component | Code | State it keeps | Operations | Talks to |
|---|---|---|---|---|
| graph | `include/cpp_common/base_graph.hpp`, `path.hpp` | vertices, edges, `removed_edges` | build from rows, `get_edge`, `disconnect_edge/vertex/out_going_edge`, `restore_graph`, `Path` | shared by all algorithms |
| bidirectional search | `include/cpp_common/bidirectional.hpp`, `include/bdDijkstra/` | two queues, labels, predecessors and marks per side, `v_min_node`, `best_cost` | `pgr_bdDijkstra`, `clear`, `explore_*`, `found`, `complete_path` | graph, by lookups only |
| bidirectional A* | `include/bdAstar/` | the same, with a heuristic | the same with its own `explore_*` | the same |
| contraction | `include/contraction/` | a graph with contracted vertices on vertices and shortcuts, worklists, the deque of methods | dead end, linear, cycles | contraction graph |
| contraction hierarchies | `include/contraction/contractionHierarchies.hpp` | a copy of the graph, two queues of priorities, shortcuts, the order of the vertices | simulated and real contractions, witness searches | contraction graph |
| k shortest paths | `include/yen/ksp.hpp` | current shortest path, result set, heap | `Yen`, `doNextCycle`, `executeYen` | cuts and restores the graph; Dijkstra |
| turn restricted k shortest paths | `include/yen/turnRestrictedPath.hpp` | the same, `m_solutions`, three flags | visitor callbacks, an exception that stops the loop | k shortest paths, by callbacks |
| route through vertices | `include/dijkstra/dijkstraVia.hpp` | the route so far, the cut edge | one leg after the other | cuts and restores the graph; Dijkstra |
| turn restricted search | `src/trsp/`, `src/cpp_common/combinations.cpp` | the edges with labels, predecessors and rules of each end, a queue, the path | Dijkstra, check against the rules, a label search for pairs that broke one; for routes through vertices, taking the route apart and putting it together | two searches in turn, the second over a graph of its own |
| Dijkstra, many pairs | `src/dijkstra/shortestPath_driver.cpp`, `include/dijkstra/dijkstra.hpp`, `include/visitors/` | predecessors, distances, goals still wanted | one search per source, stopped by an exception; searches over the roads turned round; order, limits, details | boost, by a visitor; points on edges |
| driving distance | `include/dijkstra/drivingDist.hpp`, `src/driving_distance/` | predecessors, distances and colours, shared by the roots with equicost | searches that an exception stops, depths, removal of points | boost, by a visitor; points on edges |
| points on edges | `src/withPoints/withPoints.cpp` | points, new edges | check, turn round, break roads, leave points out | driving distance, Dijkstra |
| label correcting searches | `include/bellman_ford/edwardMoore.hpp`, `include/breadthFirstSearch/binaryBreadthFirstSearch.hpp` | labels, edges to the vertices, a deque and its marks | one search per source, edge by edge | graph, by lookups only |
| pick and deliver | `src/pickDeliver/` | vehicles as sequences of stops with times, cargo and violations; used and unused vehicles; the best solution | seven initial solutions, moves and exchanges with roll back | - |
| SQL functions and drivers | `src/*/*.c`, `src/*/*_driver.cpp`, `src/common/` | SPI levels, the memory of the tuples, messages, the row that is next | process, read, report, first call, per call | every algorithm; the database |
| others | A*, TSP, all pairs, flows, components, spanning trees, traversals | none of their own | one call of boost each | boost |

What makes each of them correct:

* *graph*: what is cut comes back, every edge once, with its cost, before anybody else searches.
* *bidirectional search*: the two trees stay trees with exact labels, whatever an earlier query left
  behind; a recorded meeting is never invalidated; the answer is a route of the graph between the
  vertices asked, with the cost it claims; a connected pair gets an answer; every call returns.
* *contraction*: the worklists miss nothing; the assertions never throw in
  the middle; contracted vertices are neither lost nor counted twice; distances between remaining
  vertices do not change.
* *contraction hierarchies*: a simulation leaves nothing behind; a shortcut is never cheaper than a
  route; the vertices that are left keep their distances whatever stale priority chose the next one.
* *k shortest paths*: the j-th result is a j-th cheapest simple route and none is repeated.
* *turn restricted paths*: a path free of restrictions is never passed over for a restricted one.
* *route through vertices*: a leg is missing only if there is none; a U turn is made only when needed;
  with rules every leg survives being taken out, searched again and put back.
* *turn restricted search*: the cost of a path is the cost of its edges and of exactly the rules it
  follows to the end, and no pair falls between the two searches.
* *Dijkstra, many pairs*: answers are shortest paths of the roads as the caller gave them, whichever way
  the search went, and the nearest ones when there is a limit; a missing pair is missing for a reason.
* *driving distance*: exact lists that are trees, nobody listed twice or too near with equicost.
* *points on edges*: a road that is broken costs what it did; points that are left out leave no trace.
* *label correcting searches*: labels are exact when the deque is empty; in the 0-1 search the vertex in
  front is final.
* *pick and deliver*: cached stops are those of the path; no order is lost or held twice, through any number of moves that
  are tried and taken back; what was feasible stays so; the loops end.
* *SQL functions*: each SPI level belongs to the call that opened it, however deep calls nest; messages say
  what happened and show the query it happened to; rows are whole and numbered.

## 2. What can go wrong

The hazards are listed one by one, with their lines and the properties that watch them, in
`PROJECT.json`. They come in seven groups.

1. *State from the query before*: labels, marks and queues of one search object (`bidirectional.hpp:85`),
   the queue of the turn restricted handler (`trspHandler.cpp:133`), the cut graph, distances and colours
   that all roots share (`dijkstra_visitors.hpp:169`).
2. *Stale entries of queues and worklists*: entries pushed again instead of decreased, dead ends and
   linear vertices that stop being so while their neighbours are contracted, priorities, the order of a deque.
3. *One of several steps failing*: no detour, no leg, an exception out of a visitor, a query that fails while a
   driver is connected.
4. *Copies*: vehicles, graphs and orders that are tried, written back or thrown away.
5. *Identifiers that are not unique*: parallel edges, loops, two-way roads that are two edges under
   one identifier, shortcuts that are told from roads by the sign of it.
6. *Zero, ties and the end of the loop*: costs of zero, `K = 0`, the n-th goal, an empty heap, a vertex without edges.
7. *Calls within calls*: SPI levels, memory contexts and messages of several functions at once.

## 3. Modules and code

Layers, from the bottom up (`A <- B`: B extends or instantiates A):

    RoadGraph <- Bidirectional <- BdDijkstra <- MCBdDijkstra, BdDijkstraProofs
                               <- BdAstar    <- MCBdAstar, BdAstarProofs   (BdAstar refines BdDijkstra)
              <- PointsOnEdges <- DrivingDistance <- MCDrivingDistance
                               <- ShortestPath    <- MCManyPairs
              <- LabelCorrecting <- LabelCorrectingProofs, MCManyPairs
              <- RoadGraphProofs <- BdDijkstraProofs, BdAstarProofs, LabelCorrectingProofs
    PathQuery <- BdDijkstra, BdAstar                             (what a caller may expect)
    ContractionGraph <- Contraction <- MCContraction, ContractionProofs
                     <- ContractionHierarchies <- MCContractionHierarchies, ContractionProofs
    BaseGraph <- Yen <- Ksp, TurnRestrictedPath <- MCYen         (Ksp refines KShortestRoutes)
              <- DijkstraVia --+
                   Trsp -------+--- TrspVia <- MCTrspVia
                   +--- MCTrsp
    Vehicle <- PickDeliver <- MCPickDeliver, PickDeliverProofs   (refines OrderAssignment)
    DriverSteps <- Drivers <- SqlFunctions --+
                <- Backend ------------------+--- MCBackend
                      +--- BackendProofs
    Recursion <- RoadGraphProofs, LabelCorrectingProofs, PickDeliverProofs, ContractionProofs

| Module | Models | How state and actions correspond |
|---|---|---|
| `RoadGraph` | the graph as searches see it: arcs as `graph_add_edge` inserts them | operators only: out and in arcs, walks, and two definitions of distance that no algorithm computes (feasible potentials; walks) |
| `Bidirectional` | `Pgr_bidirectional` | one variable per side holding labels, predecessors, marks and the queue as a set of entries; `Ask` is the head of a query with `clear` and `initialize`; the steps of a side, `StepForward` and `StepBackward` in the two modules below, are one iteration of the main loop each, `found` included; `Exhausted` leaves the loop and `Return` builds the path |
| `BdDijkstra` | `Pgr_bdDijkstra` | supplies `explore_forward` and `explore_backward` |
| `BdAstar` | `Pgr_bdAstar` | supplies both explores with the six heuristics over integer positions; the forward side relaxes from a label and the backward side from a key, as in the code |
| `PathQuery` | the caller's view | a query is asked, then answered with a route between its ends or with nothing |
| `ContractionGraph` | `Pgr_contractionGraph` | graph with sets of contracted vertices; parallel edges, shortcuts with fresh negative identifiers. The variables that both functions have (the call, how far it has come, the number of shortcuts, the answer) are declared here |
| `Contraction` | `contract.hpp`, `deadEndContraction.hpp`, `linearContraction.hpp`, the driver | the deque of cycles and methods is turned by one action; filling a worklist is one action; each vertex taken from it is one action which contracts it whole, with the neighbours it puts on the list. The recursion of `one_cycle` over neighbours is a worklist of its own |
| `ContractionHierarchies` | `contractionHierarchies.hpp`, the parts of `contractionGraph.hpp` it uses, the driver | one action for each vertex that is simulated, queued again or contracted; a witness search is an operator with the cap `p_max` |
| `BaseGraph` | `Pgr_base_graph` with its cut and restore, and the one-to-one Dijkstra that algorithms built on it call | `disconnect_*` and `restore_graph` are functions of (graph, removed edges); Dijkstra is *any* cheapest route, for boost decides which |
| `Yen` | the containers and the cycles of `Pgr_ksp` | one action to cut the graph for a detour and one for the search, the visitor and the restore, so that the cut graph is a state of its own; one per `curr_result_path` taken from the heap |
| `Ksp`, `TurnRestrictedPath` | the two classes that use Yen | visitor callbacks, which paths are returned, the exception `found_goals` that leaves a detour before the graph is restored |
| `KShortestRoutes` | the abstract enumeration | gives out the simple routes in order of cost, each once |
| `DijkstraVia` | `pgr_dijkstraVia` with U turns and strict, and the rows of the route | `Depart` cuts the edge the last leg arrived by, `Travel` searches, restores, searches again if nothing was found and appends the leg |
| `Trsp` | `executeTrsp`, `get_combinations`, `TrspHandler` | operators for the edges of the handler and their rules; one action for Dijkstra and the check of the rules, one to start a pair, one per entry taken from the queue, one for arriving, one per way to end |
| `TrspVia` | `trspVia_driver.cpp` | composes `DijkstraVia` and `Trsp`: the legs, then the pairs whose path broke a rule, then `post_process_trspvia` |
| `PointsOnEdges` | `Pg_points_graph` | operators: the check of the points, their sides for a search against the roads, the walk along a road that breaks it, the removal of points from paths and lists |
| `DrivingDistance` | `drivingDist.hpp`, the two drivers, the visitors | one action per vertex that the search examines, with the exception that ends it, one per root that is skipped, started or finished, one for the answer |
| `ShortestPath` | `shortestPath_driver.cpp`, `dijkstra.hpp`, `dijkstra_many_goal_visitor` | `Build` makes the graph of the roads and the parts between points; per source one action to skip or start, one per vertex examined (`FindLastGoal` is the exception), one to read off the paths; `Return` removes, turns back, sorts and cuts |
| `LabelCorrecting` | `edwardMoore.hpp`, `binaryBreadthFirstSearch.hpp`, their drivers | one action per vertex taken from the deque and one per edge out of it; the two algorithms differ in the end of the deque a vertex goes to |
| `Vehicle` | `vehicle.cpp`, `vehicle_node.cpp`, `tw_node.cpp`, `vehicle_pickDeliver.cpp` | a vehicle is a record with its path of evaluated stops; operators for evaluation, insertion, `hillClimb` and `erase` |
| `PickDeliver` | `initial_solution.cpp`, `optimize.cpp`, `fleet.cpp`, `solution.cpp`, `pickDeliver.cpp` | one action for each truck that is fetched, each order tried in it, each pair of vehicles and order tried, each exchange, each new best solution |
| `OrderAssignment` | what the optimiser may do with orders | orders are loaded, moved, exchanged or brought back to an earlier assignment; never copied or dropped |
| `DriverSteps` | the shape of all drivers | what a driver is made of: queries read under a hint, ends without rows, an assertion, an answer |
| `Drivers`, `SqlFunctions` | `src/*/*_driver.cpp`, `src/*/*.c` | the catalogue: for each driver the order it reads in and what it reports, for each function its driver and checks |
| `Backend` | `process`, `time_msg` aside; SPI, `e_report.c`, the set returning protocol | a stack of calls; one action per connection, query that is read, call within a query, report, row, and for the ways to leave |

The data is abstracted: geometry, formatting, logs, cost formatting and the order of rows with
equal keys are left out; the *order of effects* (what is cleared, cut, tested, thrown, restored)
is kept.

## 4. The runs

| Run | What it shows |
|---|---|
| `bd_dijkstra` | any number of one-to-one queries, answered by one object: trees hold, meetings are final, a finished vertex has its exact distance (defined by potentials), connected pairs are answered where costs are positive, an answer is a route (refinement of `PathQuery`), each call returns |
| `bd_astar` | heuristics 0 to 5: the forward side is exact when the estimate is consistent, and with heuristic 0 every step is a step of bidirectional Dijkstra |
| `contraction` | dead end and linear contraction, in any order: assertions hold, nothing is left, contracted vertices are recorded once, distances are kept |
| `contraction_hierarchies` | no shortcut is cheaper than a route; simulations leave the shared copy as it was and no vertex is queued again twice between two contractions; on plain roads the vertices that are left keep their distances |
| `yen` | calls of `pgr_KSP` on one graph and of `pgr_turnRestrictedPath` with all flags: the graph is whole between detours, the exception included; the results of `pgr_KSP` are those of the enumeration of the K shortest routes (refinement of `KShortestRoutes`); a free path that was seen is not dropped for a restricted one |
| `trsp_via` | routes through vertices, with and without rules: every leg that exists is found, with a U turn only where needed; a route that is taken apart for the rules keeps every leg, once, in its place |
| `trsp` | the first path the handler finds is a walk charged by exactly the rules it follows, cheapest when all the rules are single turns; no path that breaks a rule is kept; no pair is lost between the two searches |
| `many_pairs` | Edward-Moore and the 0-1 search: every pair gets its cheapest route, and in the 0-1 search the vertex in front of the deque is final; `pgr_dijkstra`, `pgr_withPoints` and their cost, matrix and near forms: answers are shortest paths of the roads as they were given, in order, the nearest when there is a limit, and what is missing has a reason; costs with a limit come in any order, for they are sorted by totals that nothing has set (section 8) |
| `driving_distance` | lists are complete and trees when a root has the graph to itself; with equicost no node is listed twice or nearer than it is; breaking a road changes no distance; points that are left out leave no trace |
| `pick_deliver` | cached stops, orders and paths of the vehicles agree through moves, exchanges and roll backs; what is returned is feasible; no order is stranded; every step is a reassignment of orders (refinement of `OrderAssignment`); the call returns |
| `sql_functions` | the seventy-four functions, with queries that find rows, nothing, a wrong column or the end of the transaction, and that call functions three deep: SPI levels are those of the connected calls in order, messages are true, rows are whole and numbered, legs that were not found included in the count |
| `bd_dijkstra_shortest` | ends in a violation: the answer of `pgr_bdDijkstra` is not always a shortest path (section 8) |

Each property of each passing run is matched by a mutant of the code's model which breaks it, so
that none of them holds by the shape of the model alone. The mutants are the definitions introduced
by `A slip:`; each stands before the definition it replaces.

`Contraction` states termination, too (`CallReturns`); it holds on the instance of the run when it is given
as a `PROPERTY`, and is not repeated on every run because the worklists that could fail to run dry are
covered by `NothingLeft` and the deadlock check.

## 5. Bounds, and why they are enough

Bounds are values of constants in the `.cfg` and `MC*` modules; the modules themselves have none
(one exception: `MaxRule`, below). Instances are chosen, not only small: each catalogue is built to
contain the shapes the code distinguishes.

| Run | States | Instance |
|---|---|---|
| `bd_dijkstra` | 22 670 | triangles with one-way, two-way and zero-cost roads and 72 networks around a diamond with a chord (two ways round, pairs out of reach, a parallel road that is dearer, equal or cheaper), any sequence of queries. Two disjoint ways are what a meeting has to choose between, and a sequence of two queries is the shortest that shows a forgotten reset. `INF = 12`, for the property quantifies over all potentials up to it |
| `bd_astar` | 51 320 | the corners of a unit square, 32 networks, heuristics 0 to 5, factor 1; roads of cost zero and squared distances make some of the estimates inconsistent |
| `contraction` | 22 911 | 5 vertices; every subset of a catalogue of 7 roads, directed and undirected, forbidden vertices `{}` and `{0, 2}`, four lists of methods, one cycle; besides a loop, and the calls the driver refuses. Five vertices allow a chain of linear vertices that ends in a dead end, and a linear vertex whose two neighbours are linear |
| `contraction_hierarchies` | 29 204 | 5 vertices: every subset of a star with its rim, of one-way roads that never lead back, and odd roads beside them (longer than a detour, dearer one way and parallel, a loop); `Unit = 1` for the rounding of the metric. Contracting the hub of a star is the smallest case in which several shortcuts are needed and a witness of another spares one |
| `yen` | 335 873 | a square with a diagonal, directed with a road of cost zero and undirected, five routes at most between two corners; `K` in 0, 1, 2, 3, with and without the heap, any sequence of pairs on one graph: `K = 3` is the smallest where a detour of a detour matters; restrictions of one to three edges (one way, a way and a turn, every way out, a way and its beginning, none), all flags |
| `trsp_via` | 155 058 | a triangle with a spur, a loop and a parallel road, directed and undirected, and a fifth vertex without roads; all routes through up to 3 vertices and those through 4 that begin at 0: with three legs the edge that is cut for the third comes from a leg that itself avoided a U turn, and a leg in the middle is searched again for a rule |
| `trsp` | 7 599 | 4 vertices with one-way roads, a loop, a spur, parallel roads; eleven sets of rules of one to `MaxRule = 3` edges, one to three pairs, directed and undirected, and three corner cases (a path that breaks two rules, with and without a vertex 0, and a road the handler cannot use). `MaxRule` is a bound the code needs too: for a longer rule `getRestrictionCost` (`trspHandler.cpp:207`) reads beside the two elements of a predecessor, which no model can give a meaning |
| `many_pairs` | 53 299 | 6 vertices. Labels: squares with a diagonal, a loop and a parallel road, networks where one vertex gets cheaper twice, all sets of targets of a source and pairs of a query. Paths: rings with ties, free roads, a one-way road, a parallel one and a loop; one to three sources and goals, sources that are goals, a vertex that is not there; no limit, 1 and 2, global and not; two points on both sides of a road, on one side, on a one-way road and on two roads, for each driving side, both directions of the search, with and without details. The totals that `Path` leaves uninitialised are 0 or 50 too large where they are read (`Leftovers`), more than any path costs, so that every order of the answers comes up |
| `driving_distance` | 91 220 | 7 vertices of which 3 are points, `Whole = 4` parts of a road; every subset of a ring with a one-way road across and a parallel one, free roads with a loop; one to three roots, one that is not there; points inside a road, at its beginning, on its sides, two at one place; two distances, one of which ends a search in the middle of ties |
| `pick_deliver` | 4 821 | six sites on a road and a steep one (not symmetric), three fleets (equal, different, too small), five sets of three or four orders with windows and services, the seven initial solutions, two cycles; six orders of which two at a time suit each vehicle (`Relay`), more orders than vehicles (`Crowd`), and orders that only the phoney vehicle can carry (`TooLarge`), for which calls give up. Three orders on two trucks are the smallest case where a move and an exchange compete; the second cycle starts from a solution the first has changed |
| `sql_functions` | 190 746 | all the functions, depth 3, two functions that queries call, answers of up to two paths, of which either may be missing (a leg of a via function that was not found is an empty path, `dijkstraVia.hpp:114`) |

`INF` stands for `std::numeric_limits<double>::max()`; costs are natural numbers, far below it.
Deadlock is checked in every run. A module whose call ends and is not repeated has an action `Done`, enabled only
then, so that a call that stops anywhere else is still found.

## 6. Fairness

One assumption: *a call that has begun runs to its end*, that is, weak fairness of the disjunction of the
steps of a call. Nobody has to make a call, so asking a query, requesting a contraction or choosing
a route carries no fairness. The code justifies it: a driver is a loop in one thread, and nothing
but a user's interrupt (`CHECK_FOR_INTERRUPTS`, which gives up the whole call) or an exception (which is modelled)
takes it out of the loop. No strong fairness is used, and no fairness is put on one kind of step
over another, so termination (`CallReturns` in `bd_dijkstra` and `pick_deliver`) has to come from the algorithm:
every iteration pops an entry, or an optimiser that moves orders to and fro has to stop because what it
returns to is not better. `Backend` has no fairness: a caller may stop fetching rows at any time (`LIMIT`).

## 7. What is proved

TLAPS checks the following for *every* value of the constants, under the named assumptions of the
modules.

**Bidirectional Dijkstra** (`BdDijkstraProofs`, lemmas on graphs in `RoadGraphProofs`): for every set of
vertices, every graph with natural costs and every sequence of queries,

* `TypeCorrect`;
* `SettledIsExactTheorem`: a finished vertex has its distance, on both sides. Distance
  is defined by potentials: some feasible potential reaches the label, and none exceeds it;
* `TreesHoldTheorem`: the predecessors which `complete_path` follows are trees of finished vertices;
* `MeetingIsFinalTheorem`: a recorded meeting is the sum of two labels that will not change;
* `FoundWhenConnectedTheorem`: two different vertices connected by positive costs get a path, and it is not empty;
* `AnswersAreRoutesTheorem`: the search implements `PathQuery`, step by step: each query gets one answer, which is empty, a route of edges of the graph from
  the source to the target, or one cost that no route goes below.

None of them is inductive. `SearchInv` is: it says of each side, through one operator `SideInv`
applied to the graph and to its reversal, that the root has label 0, that labels of finished vertices are at most
every label in the queue, that every arc out of a finished vertex is relaxed, that every unfinished label
is witnessed by an entry of the queue, and that predecessors are finished and tight. The argument that labels of
finished vertices are final is the usual one of Dijkstra's, but the proof has to be made for a queue with
stale entries, as in the code, and the two sides are put together by lemma
`FoundKeepsMeeting`: only vertices finished on *both* sides are ever recorded. This is what keeps a
meeting valid, and it is also why the answer need not be shortest (section 8).

`FoundWhenConnectedTheorem` adds `MeetingInv` (`best_cost` is the least sum over the vertices finished on both sides; each side
finished its root first; a vertex on both sides means a meeting) and a theorem about the path: predecessors reach the root in fewer steps than there are
vertices, and each step is found again in the out-edges of its vertex, so that `get_path` has rows. Labels need not fall on the way, where costs are zero;
instead, `WaysBack` says that the vertices can be ranked so that each predecessor has a lower rank: a vertex that becomes cheaper is ranked anew, which is
possible because nothing has been reached from a vertex that is not finished. The theorem
has one hypothesis, `TotalsFit`: no two distances of a graph add up to more than `INF`. The code needs it: `found()` leaves the
meeting alone unless the sum is *below* the best, which starts at the largest double (`bidirectional.hpp:195-209`), and stops the search then. TLC found
this with `INF = 8` on the networks of the run, when the proof would not go through without it. `MCBdDijkstra` assumes `TotalsFit` (`NothingOverflows`), so that the run
shows that its networks satisfy it.

`AnswersAreRoutesTheorem` follows the two ways back and shows that each step is exactly one row, an arc between two neighbours on the way. This needs the
hypothesis `NamesAreOwn`: loops aside, no two edges with the same identifier leave a vertex. Without it a path has the rows of all of them (`path.hpp:208`,
section 8: `OneDearer`). `MCBdDijkstra` assumes it of its other networks (`NamesFit`). That the total of the rows is not below the distance is shown with potentials: along the way they
grow by no more than each row costs, and `TotalCovers` adds the rows up in any order, which the fold leaves open. That the distance is finite follows from the meeting.

**Contraction** (`ContractionProofs`): for every set of requests,

* `ContractionTypes`, and `ContractionInvariant` for the whole inductive invariant;
* `ForbiddenAreKept`: no forbidden vertex is ever contracted, whatever it becomes on the way;
* `AssertionsNeverFail`: no `pgassert` of the two methods and of `get_shortcuts` fails;
* `MethodsAreExhaustive`: when a method ends, no vertex it could contract is left;
* `ContractedRecordedOnce`: in an undirected graph without loops, each contracted vertex is recorded
  in exactly one remaining place;
* `DistancesStay`: between vertices that were not contracted the returned graph keeps the distances, in every graph, with loops and parallel edges.

The inductive invariant `IInv` adds to these that the worklist of the running method is *exactly*
the set of vertices it could contract now (`WorklistExact`), from which both `AssertionsNeverFail`
and `MethodsAreExhaustive` follow; that edges with negative identifiers are exactly the shortcuts
(`MarksShortcuts`) and are finite in number (for the choice of a fresh identifier); and the shape of the deque (`DequeInv`).
There is one lemma per action.

Distances are about potentials without a root, which the module calls prices (`KInv`). Prices of the original graph are prices of what is left, for a shortcut
is worth the two edges it replaces (`ShortcutIsWorthIt`). The other way round, prices of what is left can be extended to all the vertices that were
contracted, the last one first: `PricedAgain` gives the vertex the least price at which it can be reached, which is enough if no way *through* it was lost. There is none through a dead
end, and one through a linear vertex is a shortcut in each direction it can be travelled in; here enters that parallel edges are joined by their least
cost. That edges between the vertices named in the answer may be left out, and that identifiers change on return, is `DistancesStay` itself: vertices which the answer
forgets (section 8, `AffectedAppear`) keep their edges, and they do no harm.

**Contraction hierarchies** (`ContractionProofs`, second half): for every set of calls, that is, graphs directed or not, with loops, parallel edges, any
costs and any identifiers, all forbidden vertices, and any set of orders in which the heap may give vertices at equal distance (`Ranks`, in the run by number upwards and downwards),

* `HierarchiesTypes`: types;
* `ShortcutsAreNoNearer`: adding the shortcuts to the roads brings no two vertices nearer, at any time of the call;
* `SimulatingIsHarmless`: simulations share the copy with the contractions and leave nothing in it, and no vertex is queued again twice between
  two contractions, so that stale priorities do not keep the loop going.

The invariant `CopyInv` says that the copy is what is left of the roads and the shortcuts, that the shortcuts in the copy have old numbers, and that all
shortcuts are worth the roads (`AreWorthIt`: prices which the roads respect, they respect). The numbers are what makes it inductive:
a shortcut that was just made differs from every one that is there, so that `Undone` takes out what the simulation made and nothing else. What a
contraction makes of the copy (`WithShortcutsGrow`) is shown through both loops, over the neighbours on either side, as instances of `Recursion`. Nothing in it depends on the search for witnesses: whatever
labels it finds, a shortcut costs what two edges cost (`ShortcutGrows`). Whether one is *missing* is another question, `DistancesRemain`, and stays with TLC.

`RequeuedOnce` needs that a vertex which is simulated again gets the metric it was queued with (`QueueInv`). Its new shortcuts have other numbers, since the counter is not
set back, and nothing may depend on them. That is a statement about two runs: `WithShortcutsAlike` runs the contraction twice side by side, from the
same copy with different counters. The graphs of the two are *alike* (`AlikeEdges`: between any two vertices the same edges, or one each of the same cost), and so
they have the same arcs up to names, the same `p_max`, the same labels and predecessors, and decide alike about each detour. Then the vertex on
top has its own metric as priority, the next one is not less, and the test at `contractionHierarchies.hpp:278` fails (`RequeuedIsContracted`).

**Distances** (`RoadGraphProofs`): `DistanceTheorem`. The runs compute distances by extending walks one arc at a time, for that is what TLC can
evaluate; the proofs use potentials. For every network the two agree: the least number that walks of at most as many arcs as there are vertices
reach is the greatest that no feasible potential exceeds. A property that compares a label with `Distance` therefore says in a theorem what it
says in a run.

**Bidirectional A\*** (`BdAstarProofs`): for every graph, every place of the vertices, all heuristics and every sequence of queries,

* `AstarInvariant`: types, and a meeting that is the sum of two final labels however wrong the estimates are;
* `ForwardIsExactTheorem`: where no arc disproves the estimate, what the forward side finished has its distance;
* `WithoutEstimateTheorem`: with heuristic 0 every step is a step of `BdDijkstra`, the rows of the path included (the refinement, step by step).

The invariant `Towards` is that of A\* and not that of Dijkstra: finished vertices are ordered by label *plus estimate*. It begins only with the
first vertex that is taken out, for the source is put into the queue under 0 and not under its estimate (`bidirectional.hpp:127`); and it needs that the
estimate is consistent at finished vertices only. That a finished label is a distance is shown by a potential that is cut off at
the least key still queued. The backward side has no such theorem: it adds estimates to its labels (section 8).

**Label correcting searches** (`LabelCorrectingProofs`): for every network, every set of pairs, both algorithms and whatever the order of the deque,

* `LabelInvariant` and `LabelsAreExactTheorem`: when the deque runs empty every label is a distance, defined by potentials;
* `FrontIsSettledTheorem`: with costs of zero and one other cost, the vertex at the head of the deque of the 0-1 search has its distance;
* `AnswersAreShortestTheorem`: each pair that is connected gets exactly one path, a route without a gap whose total is the distance, and
  no other pair gets any.

The first invariant says that marks tell exactly who waits in the deque, that no label is below a potential, and that every arc is relaxed or waits:
its tail is in the deque, or it is still to be looked at. An arc that is neither is what a wrong mark would leave behind. For the 0-1
search the deque is in order (`InOrder`): its keys, the labels its vertices were pushed with or more, ascend and differ by one road at most, and an arc
that is not relaxed starts at an entry of the deque or at the vertex being looked at. The paths need a third one (`TreeInv`): the arcs the vertices
were reached by carry a rank that falls towards the source, so that following them ends there, although labels are corrected later and costs may be zero; and
`AnswerInv` keeps the answers of one source while the next ones are searched. `RoutesAreFinite` is assumed of the requests: a
distance and one road more stay below the largest double, for there a finite label could not be told from "not reached".

**Calls within calls** (`BackendProofs`): for every catalogue of functions, every answer and every depth,
`LevelsAreOwnTheorem`: the SPI levels are those of the connected calls, in order. The invariant says that every
call but the innermost waits in its driver, so that it is connected; that the d-th level belongs to the d-th call; and that there are
as many levels as calls, or one less while the innermost is not connected. The proof needs that no function which a query calls
leaves while it is connected (`InnerFinish`); functions that do (`ksp.c:65-68`) break it, see section 8.

`RowsAreWholeTheorem`: the rows that a call returns lie on its own level, nobody has freed them, there are as many as it counts, and each has
the number of its path and its place in it. The invariant (`CallInv`) has three parts for every call of the stack. `Allocated`: without an error there are no
tuples, or they are on the level of the call and all counted; with one they may be freed once, and the report is next. `LeftOver`: what was
not returned yet is as the driver left it. `CountedOn`: the identifiers of the row returned last hold the numbers the next row is counted from; these
differ for the four ways to number (`NumberedRight`). Where the driver stores the numbers (the via functions), a row has the number of its leg among
all legs, and those that were not found count as well (`to_postgres.cpp:99-104`; `IsNumbered`, `FoundBefore`): the rows of the legs put together know how many
legs came before them, found or not (`JoinedStored`, an induction along the legs). Besides `InnerFinish` there are two hypotheses, both necessary, and both hold in
the run (`FunctionsAreFit`): what is found are paths, any of which may be missing, that end in -1 and have no other negative edge (`PathsEndOnce`), since the sign is how
`ksp.c:173-194` sees where a path ends (the -2 that the last row of a via function gets instead is put there by `get_viaRoute`, and `RowsOf`, not found); and memory does not run out in drivers whose catch blocks call `free()` (`FreesItsOwn`).

`MessagesAreTrueTheorem`: what the client is told is true of the call, for every catalogue whose drivers are truthful (`DriversAreTruthful`). That is a
condition on the list of steps of each driver alone, with no word about what queries give or throw, so that it can be read off a driver: a message
names a query only below the line that runs it (`LogsWereRead`); "No edges" is said of all the queries for edges so far, and no other follows unless the driver
stops (`NoticesAreMeant`); somewhere the driver stops for want of something to work on, and no way out before is silent (`TellsEmptiness`); and `hint` is
reset before arrays are read, which do not set it (`BlamesItsOwn`). The run assumes the same of its catalogue, so TLC evaluates it for
every driver that is modelled (`FunctionsAreFit`). The invariant (`TellInv`) follows one call: its hint is the query that
was run last and not forgotten since (`HintHolds`), everything found was asked for at an earlier step (`FoundHolds`), once "No edges" is said no query for edges is
left (`NoticeHolds`), and past a test for emptiness there is something to work on (`GuardsHold`).

**Pick and deliver** (`PickDeliverProofs`): for every set of requests, that is, any orders, vehicles, windows and matrix, and all initial solutions,

* `PickDeliverInvariant`, `OrdersAreServedOnce` and `ReassignmentTheorem`: every order of the call is waiting or in exactly one
  vehicle, through every nested loop of the optimiser, and every step is a step of `OrderAssignment` or leaves the assignment alone;
* `VehiclesAreConsistentTheorem`: the orders of a vehicle, its stops and the values cached at them agree: an evaluation of the whole path
  from its start changes nothing, each pickup and each delivery is there once, and the pickup first;
* `SolutionsAreFeasibleTheorem`: where no short cut goes through a third site (`IsMetric`), no window and no capacity is violated
  in the current and in the best solution;
* `NoOrderIsStrandedTheorem`: under the same condition a call gives up only for an order that no vehicle left over can serve.

The first group rests on `IInv`, which says where each order is in every phase, what the copies of two vehicles are copies of, and what the loops still
have to take. The second rests on `VehiclesInv`: every vehicle held is *sound* (`IsSound`: its path is a tour from its start to its end through the
nodes of exactly its orders, evaluated throughout), those in solutions are *good* (without violations where the matrix is metric), and
the unused ones are *ready* (they are empty, and the one path that serves an order alone is feasible for every order in `feasable`).
It is preserved for four reasons, each a lemma of its own:

* an evaluation from position `k` on is an evaluation of the whole, if what is before `k` was evaluated (`EvaluateEvaluates`), and the values are a
  function of the nodes (`EvaluatedIsUnique`), so that inserting and erasing again gives back the vehicle there was (`PushedAndErased`);
* erasing an order delays no later stop where the matrix is metric, and no load grows, for loads along a tour are never negative: by
  induction over the number of orders on board (`DroppedIsFeasable`, which rests on `LoadedWithOne`);
* insertion keeps a path only if it is feasible, in all four ways to insert (`FilledGives`, `InsertGives`, `SemiLIFOGives`);
* an empty vehicle takes every order it was found able to take, wherever the position limits of `hillClimb` and `semiLIFO` lead (`EmptyTakes`), so that
  the assertions in `initial_solution.cpp:90` and `vehicle_pickDeliver.cpp:263` cannot fail there.

Three formulas were not what they seemed, and the attempts to prove them said so. A move in `OrderAssignment` has to allow
that the vehicle an order goes to was emptied earlier in the same pass. `NoOrderIsStranded` once said that a vehicle which can serve the order
is always left, which `fleet.cpp:90` does not ensure: what stays is the last vehicle, whichever that is (instance `TooLarge`). And feasibility needs the
triangle inequality of the travel times of each vehicle, not of the matrix.

`ProblemsAssumption` says of the requests what the types of the columns say: identifiers, numbers, a vehicle, and sites of the matrix; nothing is
assumed of windows, demands, costs or their signs. What an illegal request leads to is part of the model.

**Recursion over data** (`Recursion`): the costs of walks, the distances, the evaluation of a path and the rows of a fleet are recursive functions or
folds. The induction theorems of the library take an operator, which the provers cannot instantiate. `Recursion` makes that parameter a constant
instead: it proves once, from least elements of sets of numbers and from cardinalities, that a recursion along an interval or over the subsets of a
finite set exists, is unique and satisfies each claim that its steps preserve. Sixteen instances (`INSTANCE Recursion WITH`) supply the step and the claim.

**Only model-checked**: liveness (`CallReturns`), which is out of the prover's reach; the refinement `FindsKShortest`;
`AnswersAreNearest`; `DistancesRemain`; and everything about
Yen's algorithm, turn restrictions, routes through vertices, `Trsp`, points on edges, driving distance and `ShortestPath`. None of these but
liveness is out of reach of the logic; section 10 says which come next. `DistancesRemain` needs that the truncated search for witnesses finds what it should on plain roads, and
that roads stay plain when shortcuts join them. The properties
of Yen's algorithm need an order on all simple routes, and `SelectSeq` and `SortSeq`, by which containers are written, have no definition that the provers can expand.

## 8. Where the code and its documentation disagree

One of these is a run that ends in a violation, `bd_dijkstra_shortest`: the search
stops at the first common vertex that does not improve the meeting and never looks at arcs between the two finished sets,
so that the path may be dearer than the shortest. The quotations and lines are in `PROJECT.json`.

The others were met in the same way. Each is a property in the last section of its module, where the sentence
it is taken from is quoted (or one of a run's, on an instance outside of what that run assumes), and TLC refutes it when it is given as the only
`INVARIANT` (`PROPERTY` for `AnswersAreRoutes`) of a configuration of the MC module with the values of the second
column and, where the module has it, `INF = 100`:

| Property | Instance | The code |
|---|---|---|
| `EmptyMeansUnreachable` | `MCBdDijkstra`, `Vertex3`, `Graphs <- FreeRoads` | roads of cost zero let one side finish the graph before the other has finished its root: no path for a connected pair (`bidirectional.hpp:133`) |
| `AnswersAreRoutes` | `MCBdDijkstra`, `Vertex3`, `Graphs <- OneDearer` | a road with `cost` and `reverse_cost` that differ appears twice in the rows of a path of an undirected graph (`path.hpp:208`) |
| `AnswerIsShortest` | `MCBdAstar`, `Vertex6`, `Graphs <- WayRound`, `Position6`, `Heuristics <- Manhattan`, `Factor = 1` | the backward side adds estimates to its labels (`bdAstar.hpp:130`) |
| `MethodsRepeated` | `MCContraction`, `Vertex3`, `Requests <- SecondCycle` | the mark, not the method, is pushed back on the deque: only the first cycle does anything (`contract.hpp:75`) |
| `AffectedAppear` | `MCContraction`, `Vertex3`, `Requests <- OneWay` | vertices held by a shortcut out of a dead end are forgotten (`deadEndContraction.hpp:79`) |
| `NothingIsLost` | `MCContractionHierarchies`, `Ranks <- BothOrders`, `Vertex3`, `Unit = 1`, `Calls <- HalfWay`, `Longer` or `Doubled`; `Unit = 4`, `Calls <- Short` (`SPECIFICATION ChSpec`) | contracting a vertex between a two-way road and a one-way one, beside a longer road, between parallel roads or between very short ones changes distances of the vertices that are left (`contractionGraph.hpp:394`) |
| `SearchIsOptimal` | `MCContractionHierarchies`, `Ranks <- BothOrders`, `Vertex5`, `Unit = 1`, `Calls <- Free` | the order that is returned is by metric, not by time of contraction: a search that goes up in it misses shortest ways (`contractionGraph.hpp:497`) |
| `ShortcutsAreTold` | `MCContractionHierarchies`, `Ranks <- BothOrders`, `Vertex3`, `Unit = 1`, `Calls <- Minus` | a road with a negative identifier is taken for a shortcut |
| `NoEdgeLost` | `MCYen`, `Vertex3`, `Networks <- Doubled`, `Queries <- Two`, `Restrictions <- NoTurn`, `Flags <- KeepOn` | of parallel edges that are cut one comes back (`base_graph.hpp:619`) |
| `NoEdgeDoubled` | the same with `Networks <- Looped` | a loop that is cut comes back twice (`base_graph.hpp:680`) |
| `AtMostK` | `MCYen`, `Vertex4`, `Networks <- Squares`, `Queries <- Two`, `Restrictions <- Turns`, `Flags <- KeepOn` | more than `K` paths are returned (`turnRestrictedPath.hpp:190`) |
| `ZeroFindsFirst` | the same with `Queries <- Zero`, `Flags <- StopOn` | `K = 0` looks at one path only (`ksp.hpp:144`) |
| `MissingIsIgnored` | `MCTrspVia`, `Vertex5`, `Networks <- Triangles`, `Requests <- OffRoad` | `front()` of an empty deque for a vertex outside the graph (`dijkstra.hpp:187`) |
| `StrictIsKept` | the same with `Requests <- Twice` | a route that is put together after the search with rules may lack a leg although it is strict (`trspVia_driver.cpp:60-82`; `doc/categories/via-category.rst:96`) |
| `ChargedWhenTaken` | `MCTrsp`, `Vertex4`, `Requests <- Within` | a predecessor that was never set is read as edge 0 and completes a rule (`trspHandler.cpp:207`) |
| `ForwardEdges` | `MCTrsp`, `Vertex4`, `Requests <- ZeroReverse` | an edge with a negative cost and a reverse cost of zero is not turned round (`trspHandler.cpp:520`) |
| `OnlyPairsAsked` | `MCTrsp`, `Vertex4`, `Requests <- TwoRules` | a path that breaks two rules adds the pair `(0, 0)` (`combinations.cpp:75`) |
| `PathsJoinTheirEnds` | `MCTrsp`, `Vertex4`, `Requests <- Twice` | the queue is not emptied between pairs, and a path from elsewhere is built (`trspHandler.cpp:133`) |
| `NearestAreGiven` | `MCManyPairs`, `Vertex6`, `Point <- Points`, `Whole = 4`, `Leftovers <- Anything`, `Requests <- None`, `PathRequests <- OwnGoal` (`SPECIFICATION MCSpec`) | a source that is its own goal uses up the limit and gives no row (`dijkstra_visitors.hpp:99-109`; `doc/dijkstra/pgr_dijkstraNear.rst:43`) |
| `NearestAreGiven` | the same with `PathRequests <- NearPairs` | costs with a limit are sorted and cut by a total that the constructor of a path never initialises, to which `push_front` adds, and which `post_process` sets again only when rows are asked for (`path.hpp:253-285`, `path.cpp:62-65`, `shortestPath_driver.cpp:111-132`; `doc/dijkstra/pgr_dijkstraNearCost.rst:44`) |
| `OnlyPointsAreLeftOut` | the same with `PathRequests <- UTurn` | without details the vertex at which a path turns round on one road is left out, too (`withPoints.cpp:259-269`; `doc/categories/withPoints-category.rst:174`) |
| `NodesGoToTheClosest` | `MCDrivingDistance`, `Vertex7`, `Point <- Points`, `Whole = 4`, `Requests <- Overtaken` | with equicost an edge is compared with the distances of all roots, and a node may stay with a root that is farther (`dijkstra_visitors.hpp:169`; `doc/driving_distance/pgr_drivingDistance.rst:143`) |
| `NodesGoToTheClosest` | the same with `Requests <- Absent` | predecessors are looked up by the position of a root among all, some of which are not in the graph (`drivingDist.hpp:327, 389`) |
| `RootHasNoEdge` | the same with `Requests <- Looped` | the row of a root names its loop (`path.hpp:176-181`) |
| `PredecessorIsListed` | the same with `Requests <- OnTheWay` | a row names as predecessor a point that is left out (`drivingDist.hpp:455-465`) |
| `RoadsStayWhole` | the same with `Requests <- AtTheEnd` | a point where a road ends: the rest of the road starts at the point instead of at the part before it (`withPoints.cpp:397-402`) |
| `RoadsStayWhole` | the same with `Requests <- Mixed` | points on one side and then on both: the part of the way back is tied to where the way there was broken (`withPoints.cpp:436-450`) |
| `WindowsAreKept` | `MCPickDeliver`, `Infinity = 1000`, `Problems <- Detour` | where the way over another stop is quicker, taking an order away makes a vehicle late (`optimize.cpp:472`) |
| `OrdersFindATruck` | the same with `Problems <- TooLarge` | the vehicles that can serve an order, the phoney one included, may be used up while another one is left (`fleet.cpp:90` keeps the last, whichever it is), and the assertion at `fleet.cpp:98` ends the call |
| `OneDepotOnly` | the same with `Problems <- Elsewhere` | it is enough that a vehicle leaves from the depot or comes back to it (`pickDeliver_driver.cpp:123`) |
| `LevelsAreOwn` | `MCBackend` with the values of `sql_functions.cfg`, but `Inner <- Leaky` | a negative K returns without `SPI_finish` (`ksp.c:65-68`): a query that calls it leaves a level to its caller |
| `RowsAreWhole` | the same, `OutOfMemory = TRUE` | the driver of pick and deliver frees with `free()` what SPI allocated (`pickDeliver_driver.cpp:204`) |
| `RowsAreWhole` | the same, `Answers <- Negative` | rows of a path are numbered from the last edge `-1`: a road with a negative identifier ends it early |
| `PathsCountFromOne` | `MCBackend` with the values of `sql_functions.cfg` as they are | a leg that was not found is numbered, too: when the first one is missing the first path is 2 (`to_postgres.cpp:99-104`, `dijkstraVia.hpp:114`; `doc/categories/via-category.rst:158-160`) |
| `MessagesAreTrue` | the same, `Misleading = {}` | a size is added to a truth value: "No edges found" although there are some (`bellman_ford_neg_driver.cpp:119`) |
| `MessagesAreTrue` | the same, `Quiet = {}` | the notice about missing edges is overwritten (`kruskal_driver.cpp:123`, `prim_driver.cpp:125`, `depthFirstSearch_driver.cpp:164`) or never made (`isPlanar_driver.cpp:72`) |

The properties of the passing runs are stated around them and name the exception: `FoundWhenConnected` is about
positive costs, `FirstPathIsSound` and `FirstPathIsCheapest` about the first pair of a call, `RecordedOnce` about undirected graphs,
`DistancesRemain` about plain roads, `AnswersAreNearest` about each search by itself, and not about order, for costs with a limit, `SolutionsAreFeasible` and `NoOrderIsStranded` about travel times with the triangle inequality, `MessagesAreTrue` about the functions
outside of `Misleading` and `Quiet`.

Smaller ones, read off the drivers and kept in the catalogue of `Drivers` as they are: `allpairs_driver.cpp:74`, `betweennessCentrality_driver.cpp:71` and
`metrics_driver.cpp:68` raise "No edges found" as an ERROR where all others give a NOTICE; `ordering_driver.cpp:92-96` and
`shortestPath_driver.cpp:226-228` tell about missing edges without a hint; `metrics_driver.cpp:87` allocates rows with `new` which nobody frees;
the driver of `cuthillMckee` goes on to allocate no tuples; `withPoints.c:223` passes a `which` of 101; several functions say nothing when nothing is found.

## 9. Assumptions, and what is not modelled

* Identifiers of edges are not negative. A column may hold any integer, and a negative one collides with the
  shortcuts of contraction (`contractionGraph.hpp:316-334`) and ends a path for the numbering of rows (section 8).
* Costs are integers; sums of doubles are exact. Comparisons for equality between doubles are therefore not
  examined. The pieces of a broken road are whole numbers in the instances: costs are multiples of `Whole`.
* Vertices are their own descriptors: the maps between identifiers and boost's descriptors are left out.
* Dijkstra of boost is external: *any* cheapest route, or none, where an algorithm calls it one-to-one; vertex by vertex, with any choice
  among the nearest, where a visitor looks on (`ShortestPath`, `DrivingDistance`).
* `pgassert` throws `AssertFailedException` (`include/cpp_common/assert.hpp:93-102`), the behaviour of a build without `NDEBUG`.
  In pick and deliver that is the phase "failed"; with `NDEBUG` an order that no truck is found for would loop for ever.
* Rules of turn restrictions have one to three edges and natural costs, and no two of them are the same.
* *Contraction hierarchies*: the order of equal priorities is that of the heap, fixed for a behaviour by `rank`; the top of an empty
  queue is its stale value, or "undefined" when there is none.
* *Label correcting*: `Plus` saturates at `INF`, as sums with the largest double do.
* *Pick and deliver*: times are integers and a vehicle's pace is factor / speed; `move_reduce_cost` works on copies which it never
  writes back; `std::sort` may put equals in any order; the strategy OneTruck, lookups by identifier and the check for infinite entries of the
  matrix are left out; the Euclidean driver only builds the matrix.
* *Points*: two points at one place are told apart by the order of their numbers, in which a road that is turned round differs
  from one that is not; `many_pairs` has none, and no point at the end of a road (`RoadsStayWhole` in section 8).
* *Driving distance*: the three ways to refuse points (a number used twice, a fraction outside of the road, the assertion at
  `withPoints.cpp:467`) are one action; lists are sets of rows; what is said about rows without details is about roots that are vertices.
* *Dijkstra, many pairs*: `only_cost` goes with details, and a search over the roads turned round for points with many sources, as the SQL
  functions call it; paths are a set until they are sorted, for no two have the same ends.
* *SQL functions*: a query either delivers rows, delivers none, throws, or ends the transaction; a caller may stop fetching rows; the
  end of a transaction pops the levels that are left. Texts of logs that a driver makes itself count as empty. Exception blocks of
  user functions (subtransactions) and several functions fetched in turn in one target list are not modelled.

Not modelled: the conversion of columns and values (`pgdata_getters.cpp`, `pgdata_fetchers.cpp`, `get_check_data.cpp`), of which
`Backend` keeps that it may throw; algorithms that are one call of boost with a conversion of its result (flows,
components, spanning trees, all pairs, TSP, A*, Bellman-Ford, breadth first search, Chinese postman, traversals, line graphs), of which the catalogue keeps driver and
function; routes via vertices, `trsp` and k shortest paths over points, and `adjust_pids`; graphs from coordinates; the deprecated functions (`legacy.c`) and `version.c`;
`boyerMyrvold` and `randomSpanningTree`, whose sources are not built.

## 10. The plan

Done: `RoadGraph`, `Bidirectional`, `BdDijkstra`, `BdAstar`, `PathQuery`; `ContractionGraph`, `Contraction`, `ContractionHierarchies`;
`BaseGraph`, `Yen`, `Ksp`, `KShortestRoutes`, `TurnRestrictedPath`, `DijkstraVia`; `Trsp`, `TrspVia`; `LabelCorrecting`;
`PointsOnEdges`, `DrivingDistance`, `ShortestPath`; `Vehicle`, `PickDeliver`, `OrderAssignment`; `DriverSteps`, `Drivers`, `SqlFunctions`, `Backend`;
proofs about `BdDijkstra`, `BdAstar`, `Contraction`, `ContractionHierarchies`, `LabelCorrecting`, `PickDeliver` and `Backend`, with `RoadGraphProofs` and `Recursion` below them.

In order:

1. **Points for the other searches**: `trspVia_withPoints_driver.cpp`, `withPointsVia_driver.cpp`, `withPoints_ksp_driver.cpp`, which put `PointsOnEdges`
   before `TrspVia`, `DijkstraVia` and `Ksp` and rename vertices afterwards.
2. **Proofs**: the restore invariant of `Yen` and `DijkstraVia` (`EdgesComeBack`, `LegsAreFound`);
   `KShortestRoutes` gives out a downward closed set of routes.
3. **Reading the database**: the columns that may be missing, their types, and values that may be NULL.
