---------------------------- MODULE MCManyPairs ----------------------------
(***************************************************************************)
(* Instances of the functions that answer many pairs by one search for     *)
(* each source: LabelCorrecting, with roads on which a vertex is corrected *)
(* again and again and roads of cost zero and one other cost, and          *)
(* ShortestPath, with ties, points on the roads and sources that are goals.*)
(* Every behaviour is one call of one of them.                             *)
(***************************************************************************)
EXTENDS LabelCorrecting

CONSTANTS Point, Whole, PathRequests, Leftovers

VARIABLES function,   \* "labels" | "paths"
          roads, departure, distances, predecessors, queue, m_goals, m_n_goals, answer

own == <<roads, departure, distances, predecessors, queue, m_goals, m_n_goals, answer>>

S == INSTANCE ShortestPath WITH Requests <- PathRequests, graph <- roads

InitLabels == /\ Init /\ function = "labels"
              /\ roads = {} /\ departure = CHOOSE v \in Vertex : TRUE
              /\ distances = <<>> /\ predecessors = <<>> /\ queue = {}
              /\ m_goals = {} /\ m_n_goals = 0 /\ answer = <<>>

InitPaths == /\ S!Init /\ function = "paths"
             /\ start_vertex = CHOOSE v \in Vertex : TRUE
             /\ current_cost = <<>> /\ from_edge = <<>> /\ isInQ = <<>> /\ dq = <<>> /\ pending = {}

NextLabels == function = "labels" /\ Next /\ UNCHANGED <<function, own>>
NextPaths  == function = "paths" /\ S!Next /\ UNCHANGED <<function, searchVars>>

MCSpec == (InitLabels \/ InitPaths) /\ [][NextLabels \/ NextPaths]_<<vars, function, own>>
----------------------------------------------------------------------------
\* See ShortestPath: shortest paths, in order, the nearest when there is a limit
\* (shortestPath_driver.cpp:98-143, dijkstra_visitors.hpp:92-109).
AnswersAreNearest == function = "paths" => S!AnswersAreNearest

\* What the documentation says, and the code does not do; see ShortestPath, where
\* it is quoted (pgr_dijkstraNear.rst:43).
NearestAreGiven == function = "paths" => S!NearestAreGiven

\* The same (withPoints-category.rst:174).
OnlyPointsAreLeftOut == function = "paths" => S!OnlyPointsAreLeftOut
----------------------------------------------------------------------------
Road(id, s, t, c, r) == [id |-> id, source |-> s, target |-> t, cost |-> c, reverse_cost |-> r]

Request(algorithm, rows, directed, combinations) ==
  [algorithm |-> algorithm, rows |-> rows, directed |-> directed, combinations |-> combinations]

Vertex6 == 0..5
Points  == {4, 5}

\* A square 0, 1, 3, 2 with a diagonal, a loop and a road parallel to the first;
\* the vertex 4 has no road here.
Square(a, b, c, d, e) ==
  <<Road(1, 0, 1, a, b), Road(2, 0, 2, b, -1), Road(3, 1, 3, c, d), Road(4, 2, 3, d, a),
    Road(5, 2, 1, e, -1), Road(6, 1, 1, a, -1), Road(7, 0, 1, e, -1)>>

\* One edge is dearer than the ways round it, again and again, and a road goes on
\* from its end.
Corrected(a, b) ==
  <<Road(1, 0, 3, 9, 9), Road(2, 0, 1, a, -1), Road(3, 1, 3, 4, 1), Road(4, 1, 2, b, -1),
    Road(5, 2, 3, 1, -1), Road(6, 0, 2, 6, 2), Road(7, 3, 4, 1, -1)>>

Combinations == {{<<s, t>> : t \in 0..4} : s \in 0..4}
                \cup {{<<0, 3>>, <<2, 1>>, <<2, 2>>, <<4, 0>>}, {}}

Costs == {Request(EdwardMoore, rows, directed, combinations) :
            rows \in {Square(a, b, c, d, e) : a \in {0, 3}, b \in {1, 2}, c \in {-1, 2}, d \in {0, 1}, e \in {1}}
                     \cup {Corrected(a, b) : a \in {1, 3}, b \in {0, 1, 2}} \cup {<<>>},
            directed \in BOOLEAN, combinations \in Combinations}

Binary == {Request(BinaryBFS, Square(a, b, c, d, e), directed, combinations) :
             a \in {0, 2}, b \in {0, 2}, c \in {-1, 0, 2}, d \in {0, 2}, e \in {0, 2},
             directed \in BOOLEAN, combinations \in Combinations}
          \cup {Request(BinaryBFS, rows, TRUE, {<<0, 3>>}) :
                  rows \in {Square(0, 1, 2, 1, 1), Square(1, 2, 2, 1, 1)}}

Calls == Costs \cup Binary
----------------------------------------------------------------------------
\* The arguments that most calls do not give.
Plain(rows, directed) ==
  [rows |-> rows, points |-> {}, which |-> "dijkstra", query |-> FALSE, pairs |-> {},
   starts |-> {}, ends |-> {}, directed |-> directed, only_cost |-> FALSE, normal |-> TRUE,
   n_goals |-> 0, global |-> FALSE, side |-> " ", details |-> TRUE]

\* A ring with ties and free roads, a one-way road across, a dearer parallel one
\* and a loop.
Ring(a, b) == {Road(1, 0, 1, 4, a), Road(2, 1, 2, b, 4), Road(3, 2, 3, 4, 4), Road(4, 3, 0, 8, 4),
               Road(5, 1, 3, 4, -1), Road(6, 0, 1, 8, -1), Road(7, 2, 2, 4, -1)}

Rings == {Ring(-1, 4), Ring(0, 4), Ring(8, 0)}

Places == {{3}, {0, 2}, {1, 2, 3}, {0, 5}}

Arrays == {[Plain(rows, directed) EXCEPT !.starts = starts, !.ends = ends, !.n_goals = n,
                                         !.global = global] :
             rows \in Rings, directed \in BOOLEAN, starts \in Places, ends \in Places \cup {{}},
             n \in {0, 1, 2}, global \in BOOLEAN}
          \cup {[Plain(rows, directed) EXCEPT !.starts = starts, !.ends = ends, !.only_cost = TRUE] :
                  rows \in Rings, directed \in BOOLEAN, starts \in Places, ends \in Places \cup {{}}}

\* The nearest, costs only: every total is another guess.
NearCosts == {[Plain(rows, directed) EXCEPT !.starts = starts, !.ends = ends, !.only_cost = TRUE,
                                            !.n_goals = n, !.global = global] :
                rows \in Rings, directed \in BOOLEAN, starts \in {{3}, {0, 2}},
                ends \in {{3}, {0, 2}, {1, 2, 3}}, n \in {1, 2}, global \in BOOLEAN}

\* Many sources and one goal; the limit is not global unless costs are wanted.
ToOne == {[Plain(rows, directed) EXCEPT !.starts = starts, !.ends = {end}, !.normal = FALSE,
                                        !.only_cost = cost, !.n_goals = n, !.global = cost] :
            rows \in Rings, directed \in BOOLEAN, starts \in Places, end \in {0, 2}, cost \in BOOLEAN,
            n \in {0, 1, 2}}

Pairs == {[Plain(rows, directed) EXCEPT !.query = TRUE, !.pairs = pairs, !.n_goals = n, !.global = global] :
            rows \in {{}, Ring(0, 4), Ring(8, 0)}, directed \in BOOLEAN,
            pairs \in {{}, {<<0, 2>>, <<0, 3>>, <<1, 1>>, <<2, 0>>}, {<<3, 2>>, <<3, 3>>, <<5, 1>>}},
            n \in {0, 1, 2}, global \in BOOLEAN}

At(node, edge, fraction, side) ==
  [node |-> node, edge_id |-> edge, fraction |-> fraction, side |-> side]

\* Points on the two sides of a two-way road, on one side of it, on a one-way road,
\* on two roads.
Sided == {{At(4, 1, 2, "r"), At(5, 1, 3, "l")}, {At(4, 1, 3, "r"), At(5, 1, 1, "r")},
          {At(4, 5, 1, "b"), At(5, 5, 3, "b")}, {At(4, 2, 2, "l"), At(5, 4, 2, "r")}}

Wrong == {{At(4, 1, 2, "b"), At(4, 2, 2, "b")}, {At(4, 1, 5, "b")}}

\* With points the searches of many to many go against the roads, too.
Pointed == {[Plain(Ring(8, 8), directed) EXCEPT
               !.which = "withPoints", !.points = points, !.side = side, !.details = details,
               !.starts = starts, !.ends = ends, !.normal = normal] :
              directed \in BOOLEAN, points \in Sided \cup Wrong, side \in {"r", "l", "b"},
              details \in BOOLEAN, starts \in {{0}, {4}, {2, 5}}, ends \in {{3}, {1, 4, 5}},
              normal \in BOOLEAN}
           \cup {[Plain(Ring(8, 8), TRUE) EXCEPT !.which = "withPoints", !.points = points, !.starts = {4},
                                                 !.ends = {3}] : points \in Sided}

PathCalls == Arrays \cup NearCosts \cup ToOne \cup Pairs \cup Pointed

\* Less or more than any cost.
Anything == {0, 50}

\* From 0 to the nearest of 0 and 1; there and back on a road, round its end.
OwnGoal == {[Plain(Ring(8, 4), TRUE) EXCEPT !.starts = {0}, !.ends = {0, 1}, !.n_goals = 1]}
UTurn   == {[Plain({Road(1, 0, 1, 4, 4)}, TRUE) EXCEPT
               !.which = "withPoints", !.points = {At(4, 1, 2, "r"), At(5, 1, 3, "l")}, !.side = "r",
               !.details = FALSE, !.starts = {4}, !.ends = {5}]}

\* The nearest of two pairs, costs only.
NearPairs == {[Plain(Ring(0, 4), TRUE) EXCEPT !.query = TRUE, !.pairs = {<<0, 1>>, <<3, 1>>},
                                              !.only_cost = TRUE, !.n_goals = 1, !.global = TRUE]}

None == {}
=============================================================================
