-------------------------------- MODULE Trsp --------------------------------
(***************************************************************************)
(* pgr_trsp (src/trsp/trsp_driver.cpp): Dijkstra for every pair that is    *)
(* asked for; the paths that follow a rule are thrown away and their pairs *)
(* given, one after the other, to ONE TrspHandler, whose labels are set    *)
(* again for each of them.  Its priority queue is not.                     *)
(***************************************************************************)
EXTENDS BaseGraph

CONSTANT Requests   \* [rows, directed, rules, pairs]

MaxRule == 3        \* no rule has more edges

ASSUME RulesAssumption ==
  \A r \in Requests : \A rule \in r.rules : Len(rule.path) \in 1..MaxRule /\ rule.cost \in Nat

----------------------------------------------------------------------------
(***************************************************************************)
(* The graph of the search (src/trsp/trspHandler.cpp).  A row of the edges *)
(* query is ONE edge here, which can be travelled both ways; what is       *)
(* labelled is an edge together with the way it is travelled, and so a     *)
(* vertex may be passed more than once.  An edge is named by its index,    *)
(* its place in m_edges, from 1.                                           *)
(***************************************************************************)
\* enum Position: the way an edge was travelled.
ILLEGAL == -1
RC_EDGE == 0    \* from its start to its end: endCost
C_EDGE  == 1    \* from its end to its start: startCost

Labels(E) == (DOMAIN E) \X {RC_EDGE, C_EDGE}

\* addEdge: an edge that can only be travelled backwards is turned round, one of
\* an undirected graph that can only be travelled forwards goes both ways.
AddedEdge(row, directed) ==
  LET turn == row.cost < 0 /\ row.reverse_cost > 0
      new  == IF turn THEN [row EXCEPT !.source = row.target, !.target = row.source,
                                       !.cost = row.reverse_cost, !.reverse_cost = row.cost]
              ELSE row
  IN  IF ~ directed /\ new.reverse_cost < 0 THEN [new EXCEPT !.reverse_cost = new.cost] ELSE new

construct_graph(rows, directed) == [n \in DOMAIN rows |-> AddedEdge(rows[n], directed)]

OwnCost(E, l) == IF l[2] = RC_EDGE THEN E[l[1]].cost ELSE E[l[1]].reverse_cost
Departs(E, l) == IF l[2] = RC_EDGE THEN E[l[1]].source ELSE E[l[1]].target
Arrives(E, l) == IF l[2] = RC_EDGE THEN E[l[1]].target ELSE E[l[1]].source

LeavesFrom(E, v) == {l \in Labels(E) : Departs(E, l) = v /\ OwnCost(E, l) >= 0}

\* connectStartEdge and connectEndEdge, and the tests of explore: the labels
\* that may follow l.  No edge is connected to itself.
Follow(E, l) == {m \in LeavesFrom(E, Arrives(E, l)) : m[1] # l[1]}

----------------------------------------------------------------------------
(***************************************************************************)
(* The rules: a path of edges, and the cost of completing it.  The labels  *)
(* of a search are [cost, parent]: m_dCost and m_parent.  A predecessor    *)
(* that was never set is the first edge, in no direction.                  *)
(***************************************************************************)
NoParent == <<1, ILLEGAL>>

NoLabels(E) == [cost |-> [l \in Labels(E) |-> INF], parent |-> [l \in Labels(E) |-> NoParent]]

Back(labels, l) == IF l[2] = ILLEGAL THEN l ELSE labels.parent[l]

\* A slip: the predecessors are not walked, the last precedence alone decides.
PrecededByLast(E, labels, l, path) == Len(path) = 1 \/ path[Len(path) - 1] = E[l[1]].id

\* The precedences, from the last one back, are the edges the label came by.  Two
\* of them at most: a third would be read beside the vectors of the predecessor.
PrecededBy(E, labels, l, path) ==
  CASE Len(path) = 1 -> TRUE
    [] Len(path) = 2 -> path[1] = E[l[1]].id
    [] OTHER -> path[2] = E[l[1]].id /\ path[1] = E[Back(labels, l)[1]].id

\* getRestrictionCost of going on from l by the edge with this identifier.
RestrictionCost(E, rules, labels, l, id) ==
  FoldSet(LAMBDA r, sum : r.cost + sum, 0,
          {r \in rules : Last(r.path) = id /\ PrecededBy(E, labels, l, r.path)})

Onwards(E, rules, labels, l, m) ==
  labels.cost[l] + OwnCost(E, m) + RestrictionCost(E, rules, labels, l, E[m[1]].id)

\* explore: the labels that get cheaper by going on from l.
Improved(E, rules, labels, l) ==
  {m \in Follow(E, l) : Onwards(E, rules, labels, l, m) < labels.cost[m]}

Explored(E, rules, labels, l) ==
  LET better == Improved(E, rules, labels, l)
  IN  [cost   |-> [m \in Labels(E) |-> IF m \in better THEN Onwards(E, rules, labels, l, m)
                                       ELSE labels.cost[m]],
       parent |-> [m \in Labels(E) |-> IF m \in better THEN l ELSE labels.parent[m]]]

----------------------------------------------------------------------------
(***************************************************************************)
(* construct_path: the labels from the first edge to l, as rows.  The cost *)
(* of a row is the difference of two labels; the first row has the cost of *)
(* its edge, whatever its label says.                                      *)
(***************************************************************************)
IsFirst(labels, l) == labels.parent[l][2] = ILLEGAL

LabelWalk(E, labels, l) ==
  LET above == [m \in Labels(E) |-> IF IsFirst(labels, m) THEN m ELSE labels.parent[m]]
      up[n \in 0..Cardinality(Labels(E))] == IF n = 0 THEN l ELSE above[up[n - 1]]
      depth == Min({n \in DOMAIN up : IsFirst(labels, up[n])})
  IN  [n \in 1..depth + 1 |-> up[depth + 1 - n]]

Reached(E, labels, l) == IF IsFirst(labels, l) THEN OwnCost(E, l) ELSE labels.cost[l]

construct_path(E, labels, l, t) ==
  LET walk == LabelWalk(E, labels, l)
  IN  Append([n \in DOMAIN walk |->
                [node |-> Departs(E, walk[n]), edge |-> E[walk[n][1]].id,
                 cost |-> IF n = 1 THEN OwnCost(E, walk[n])
                          ELSE Reached(E, labels, walk[n]) - Reached(E, labels, walk[n - 1])]],
             [node |-> t, edge |-> NoEdge, cost |-> 0])

----------------------------------------------------------------------------
(***************************************************************************)
(* What a cheapest restricted route is, independently of the search: walks *)
(* that do not turn back on an edge, each edge costing its own cost and    *)
(* that of the rules of two edges it completes.                            *)
(***************************************************************************)
TurnCost(E, rules, l, m) ==
  FoldSet(LAMBDA r, sum : r.cost + sum, 0,
          {r \in rules : r.path = <<E[l[1]].id, E[m[1]].id>>})

CostsOfWalks(E, rules, s, limit) ==
  LET longer(w) == {<<m, w[2] + OwnCost(E, m) + TurnCost(E, rules, w[1], m)>> : m \in Follow(E, w[1])}
      upto[n \in 0..Cardinality(Labels(E))] ==
        IF n = 0 THEN {<<l, OwnCost(E, l)>> : l \in LeavesFrom(E, s)}
        ELSE UNION {{w} \cup {x \in longer(w) : x[2] <= limit} : w \in upto[n - 1]}
  IN  upto[Cardinality(Labels(E))]

CheapestRestricted(E, rules, s, t, limit) ==
  Min({INF} \cup {w[2] : w \in {x \in CostsOfWalks(E, rules, s, limit) : Arrives(E, x[1]) = t}})

----------------------------------------------------------------------------
VARIABLES
  request,          \* the arguments of the call
  phase,            \* "called" | "next" | "exploring" | "returned" | "undefined"
  paths,            \* the paths that are kept: [source, target, rows]
  combinations,     \* new_combinations: the pairs the handler still has to process
  pair,             \* m_start_vertex and m_end_vertex
  m_current_node,
  labels,           \* m_dCost and m_parent
  m_que,            \* a bag of <<cost, label>>
  new_paths         \* what the handler has found, in order

vars == <<request, phase, paths, combinations, pair, m_current_node, labels, m_que, new_paths>>

m_edges == construct_graph(request.rows, request.directed)
roads   == ArcsFrom(insert_edges(request.rows, request.directed).edges, request.directed)

Found(s, t, rows) == [source |-> s, target |-> t, rows |-> rows]

----------------------------------------------------------------------------
Init ==
  /\ request \in Requests
  /\ phase = "called"
  /\ paths = {} /\ combinations = <<>>
  /\ pair = <<0, 0>> /\ m_current_node = 0
  /\ labels = NoLabels(construct_graph(request.rows, request.directed))
  /\ m_que = EmptyBag
  /\ new_paths = <<>>

\* A slip: the rule is only looked for where the path begins.
BrokenAtStart(path, rule) ==
  \A m \in DOMAIN rule.path : m <= Len(path) /\ path[m].edge = rule.path[m]

\* get_combinations looks at the first place where the rule might start.
Broken(path, rule) ==
  \E n \in DOMAIN path :
    /\ path[n].edge = rule.path[1]
    /\ \A m \in 1..n - 1 : path[m].edge # rule.path[1]
    /\ \A m \in DOMAIN rule.path : n + m - 1 <= Len(path) /\ path[n + m - 1].edge = rule.path[m]

BrokenRules(p) == {rule \in request.rules : Broken(p.rows, rule)}

\* A slip: the pair is noted once the path was cleared.
PairsOfCleared(P) == IF \E p \in P : BrokenRules(p) # {} THEN {<<0, 0>>} ELSE {}

\* A path that breaks a rule is noted by its two ends and cleared, its ends
\* included: the next rule it breaks notes the pair of a cleared path.
PairsOf(P) ==
  {<<p.source, p.target>> : p \in {q \in P : BrokenRules(q) # {}}}
  \cup {<<0, 0>> : p \in {q \in P : Cardinality(BrokenRules(q)) > 1}}

InOrder(S) == SetToSortSeq(S, LAMBDA x, y : x[1] < y[1] \/ (x[1] = y[1] /\ x[2] < y[2]))

\* Dijkstra for all the pairs, and the check of the rules.
Dijkstra ==
  /\ phase = "called"
  /\ \E arcs \in {roads} :
     \E choice \in [request.pairs -> UNION {DijkstraPaths(arcs, p[1], p[2]) : p \in request.pairs}] :
       /\ \A p \in request.pairs : choice[p] \in DijkstraPaths(arcs, p[1], p[2])
       /\ \E P \in {{Found(p[1], p[2], choice[p]) : p \in {q \in request.pairs : choice[q] # <<>>}}} :
            /\ paths' = {p \in P : BrokenRules(p) = {}}
            /\ combinations' = InOrder(PairsOf(P))
            /\ phase' = IF P = {} THEN "returned" ELSE "next"
  /\ UNCHANGED <<request, pair, m_current_node, labels, m_que, new_paths>>

----------------------------------------------------------------------------
(***************************************************************************)
(* The handler.                                                            *)
(***************************************************************************)
\* initialize_que: a loop is in the adjacency list of its vertex twice.
InitialQue(E, v) ==
  LET entries(L) == SetToBag({<<OwnCost(E, l), l>> : l \in L})
  IN  entries(LeavesFrom(E, v))
      (+) entries({l \in LeavesFrom(E, v) : E[l[1]].source = E[l[1]].target})

InitialLabels(E, v) ==
  [NoLabels(E) EXCEPT !.cost = [l \in Labels(E) |-> IF l \in LeavesFrom(E, v)
                                                    THEN OwnCost(E, l) ELSE INF]]

\* process and process_trsp, up to the loop: what is left in the queue by the
\* pair before stays there.
StartPair ==
  /\ phase = "next" /\ combinations # <<>>
  /\ combinations' = Tail(combinations)
  /\ IF Range(Head(combinations)) \subseteq {m_edges[n].source : n \in DOMAIN m_edges}
                                       \cup {m_edges[n].target : n \in DOMAIN m_edges}
     THEN /\ phase' = "exploring"
          /\ pair' = Head(combinations)
          /\ m_current_node' = pair'[1]
          /\ labels' = InitialLabels(m_edges, pair'[1])
          /\ m_que' = m_que (+) InitialQue(m_edges, pair'[1])
          /\ UNCHANGED new_paths
     ELSE /\ new_paths' = Append(new_paths, Found(0, 0, <<>>))
          /\ UNCHANGED <<phase, pair, m_current_node, labels, m_que>>
  /\ UNCHANGED <<request, paths>>

\* A slip: std::greater is forgotten.
IsTopOfMaxHeap(q) == \A r \in BagToSet(m_que) : r[1] <= q[1]

\* std::greater on <cost, <index, isStart>>.
IsTop(q) ==
  \A r \in BagToSet(m_que) :
    \/ q[1] < r[1]
    \/ q[1] = r[1] /\ q[2][1] < r[2][1]
    \/ q[1] = r[1] /\ q[2][1] = r[2][1] /\ q[2][2] >= r[2][2]

Pop(q) == m_que (-) SetToBag({q})

\* One iteration of dijkstra_exploration that does not reach the end.
Explore ==
  /\ phase = "exploring"
  /\ \E q \in BagToSet(m_que) :
       /\ IsTop(q)
       /\ m_current_node' = Arrives(m_edges, q[2])
       /\ m_current_node' # pair[2]
       /\ labels' = Explored(m_edges, request.rules, labels, q[2])
       /\ m_que' = Pop(q) (+) SetToBag({<<labels'.cost[m], m>> :
                                        m \in Improved(m_edges, request.rules, labels, q[2])})
  /\ UNCHANGED <<request, phase, paths, combinations, pair, new_paths>>

\* The end is reached.  The way the last edge was travelled is worked out again.
Arrive ==
  /\ phase = "exploring"
  /\ phase' = "next"
  /\ \E q \in BagToSet(m_que) :
       /\ IsTop(q)
       /\ Arrives(m_edges, q[2]) = pair[2]
       /\ m_current_node' = pair[2]
       /\ m_que' = Pop(q)
       /\ LET edge == q[2][1]
              way  == IF m_edges[edge].source = pair[2] THEN C_EDGE ELSE RC_EDGE
          IN  new_paths' = Append(new_paths,
                                  Found(pair[1], pair[2],
                                        construct_path(m_edges, labels, <<edge, way>>, pair[2])))
  /\ UNCHANGED <<request, paths, combinations, pair, labels>>

NotFound ==
  /\ phase = "exploring" /\ m_que = EmptyBag /\ m_current_node # pair[2]
  /\ phase' = "next"
  /\ new_paths' = Append(new_paths, Found(pair[1], pair[2], <<>>))
  /\ UNCHANGED <<request, paths, combinations, pair, m_current_node, labels, m_que>>

\* From a vertex that cannot be left to itself: no edge was ever taken from the
\* queue, and the index of the default EdgeInfo is not initialised.
Undefined ==
  /\ phase = "exploring" /\ m_que = EmptyBag /\ m_current_node = pair[2]
  /\ phase' = "undefined"
  /\ UNCHANGED <<request, paths, combinations, pair, m_current_node, labels, m_que, new_paths>>

\* post_process_trsp
Return ==
  /\ phase = "next" /\ combinations = <<>>
  /\ phase' = "returned"
  /\ paths' = paths \cup {p \in Range(new_paths) : p.rows # <<>>}
  /\ UNCHANGED <<request, combinations, pair, m_current_node, labels, m_que, new_paths>>

Done == phase \in {"returned", "undefined"} /\ UNCHANGED vars

Step == Dijkstra \/ StartPair \/ Explore \/ Arrive \/ NotFound \/ Undefined \/ Return

Next == Step \/ Done

Spec == Init /\ [][Next]_vars /\ WF_vars(Step)
----------------------------------------------------------------------------
(***************************************************************************)
(* Properties.                                                             *)
(***************************************************************************)
\* The labels of a path of the handler, edge by edge.
LabelAt(rows, n) ==
  {l \in Labels(m_edges) : /\ m_edges[l[1]].id = rows[n].edge /\ OwnCost(m_edges, l) >= 0
                           /\ Departs(m_edges, l) = rows[n].node
                           /\ Arrives(m_edges, l) = rows[n + 1].node}

IsWalk(p) ==
  /\ p.rows[1].node = p.source
  /\ Last(p.rows).node = p.target
  /\ \A n \in 1..Len(p.rows) - 1 : LabelAt(p.rows, n) # {}

Edges(rows, n) == [m \in 1..n |-> rows[m].edge]

PenaltyAt(rows, n) ==
  FoldSet(LAMBDA r, sum : r.cost + sum, 0,
          {r \in request.rules : n > 1 /\ IsSuffix(r.path, Edges(rows, n))})

IsCharged(rows) ==
  \A n \in 1..Len(rows) - 1 :
    \E l \in LabelAt(rows, n) : rows[n].cost = OwnCost(m_edges, l) + PenaltyAt(rows, n)

\* No rule of three edges begins with the edge a missing predecessor names.
NoRuleFromFirstEdge ==
  \A r \in request.rules : Len(r.path) > 2 => r.path[1] # m_edges[1].id

\* The first path of a handler goes by edges of the graph from one end to the other,
\* and every edge after the first costs what it costs and what the rules do that
\* it completes, however the labels changed after the edge was labelled
\* (trspHandler.cpp:141-214, 231-277).
FirstPathIsSound ==
  (new_paths # <<>> /\ new_paths[1].rows # <<>>) =>
    /\ IsWalk(new_paths[1])
    /\ NoRuleFromFirstEdge => IsCharged(new_paths[1].rows)

\* With rules about single turns, of two edges, the first path is a cheapest one,
\* costs of restrictions included, of all the walks that do not turn back on an
\* edge (trspHandler.cpp:231-277, 380-451).
SingleTurns == \A r \in request.rules : Len(r.path) = 2

FirstPathIsCheapest ==
  (phase = "next" /\ Len(new_paths) = 1 /\ new_paths[1].rows # <<>> /\ SingleTurns) =>
    LET p == new_paths[1]
    IN  tot_cost(p.rows) =
          CheapestRestricted(m_edges, request.rules, p.source, p.target, tot_cost(p.rows))

\* A path of Dijkstra that is kept follows no rule anywhere on its way
\* (combinations.cpp:41-86).
KeptPathsAreFree ==
  \A p \in paths \ Range(new_paths) : \A r \in request.rules :
    ~ \E n \in DOMAIN p.rows :
        /\ n + Len(r.path) - 1 <= Len(p.rows)
        /\ \A m \in DOMAIN r.path : p.rows[n + m - 1].edge = r.path[m]

\* No pair is lost between the two searches: every pair with a route gets exactly
\* one path (trsp_driver.cpp:150-220).
ReverseIsNotZero ==
  \A n \in DOMAIN request.rows : request.rows[n].cost < 0 => request.rows[n].reverse_cost # 0

EveryPairAnswered ==
  phase = "returned" /\ (request.directed \/ ReverseIsNotZero) =>
    \A p \in request.pairs : Routes(roads, p[1], p[2]) # {} /\ p[1] # p[2] =>
      Cardinality({q \in paths : q.source = p[1] /\ q.target = p[2]}) = 1

----------------------------------------------------------------------------
(***************************************************************************)
(* What the documentation says, and the code does not do.                  *)
(***************************************************************************)
\* node: "Identifier of the node in the path from start_vid to end_vid"
\* (doc/src/pgRouting-concepts.rst:1577), whichever pair was asked for before.
PathsJoinTheirEnds == \A p \in Range(new_paths) : p.rows = <<>> \/ IsWalk(p)

\* Cost of a restriction: "Cost of taking the forbidden path"
\* (doc/src/pgRouting-concepts.rst:1386), and of no other path.
ChargedWhenTaken ==
  new_paths # <<>> /\ new_paths[1].rows # <<>> => IsCharged(new_paths[1].rows)

\* "making all cost > 0" (trspHandler.cpp:518): an edge that can be travelled at all
\* can be travelled forwards.
ForwardEdges ==
  phase = "exploring" => \A n \in DOMAIN m_edges : m_edges[n].reverse_cost >= 0 => m_edges[n].cost >= 0

\* start_vid is an "Identifier of the starting vertex of the current path"
\* (doc/src/pgRouting-concepts.rst:1571): of a pair that was asked for.
OnlyPairsAsked ==
  phase = "returned" => \A p \in paths : <<p.source, p.target>> \in request.pairs
=============================================================================
