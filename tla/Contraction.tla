----------------------------- MODULE Contraction -----------------------------
(***************************************************************************)
(* pgr_contraction: Pgr_contract, Pgr_deadend and Pgr_linear of            *)
(* include/contraction/, with the driver that calls them.  The cycles and  *)
(* the methods are turned through one deque; a method keeps a worklist of  *)
(* vertex descriptors and always takes the smallest; linear contraction    *)
(* recurses into the two neighbours of the vertex it has just removed, the *)
(* second of them once the first recursion is over: "pending" is that      *)
(* stack.  A step is one iteration of the loop of a method, or one call of *)
(* the recursion.                                                          *)
(***************************************************************************)
EXTENDS ContractionGraph

CONSTANT Requests   \* the arguments a call may be given

Row == [id : Nat, source : Vertex, target : Vertex, cost : Int, reverse_cost : Int]

RequestType == [rows : SUBSET Row, directed : BOOLEAN, forbidden : SUBSET Vertex,
                methods : Seq(Int), cycles : Int]

ASSUME RequestsAssumption == Requests \subseteq RequestType

\* Beside those of ContractionGraph: "phase" is "called" | "cycle" | "deadEnd" |
\* "linear" | "returned" | "refused".
VARIABLES
  edges, held,      \* the graph: its edges and the contracted_vertices of its vertices
  contract_order,   \* the deque of methods, -1 marking its start
  front, cycle,     \* the locals of the constructor of Pgr_contract
  worklist,         \* deadendVertices, m_linearVertices
  pending,          \* the neighbours still to be visited by the recursion of one_cycle
  removed,          \* history: the vertices clear_vertex was called for
  performed         \* history: the methods that were carried out, in order

vars == <<request, phase, edges, held, created, contract_order, front, cycle,
          worklist, pending, removed, performed, answer>>

graphVars == <<edges, held, created, removed>>
loopVars  == <<contract_order, front, cycle, performed>>

Start   == -1
DEADEND == 1
LINEAR  == 2

----------------------------------------------------------------------------
(***************************************************************************)
(* The call.                                                               *)
(***************************************************************************)
Init ==
  /\ request \in Requests
  /\ phase = "called"
  /\ edges = {} /\ held = [v \in Vertex |-> {}] /\ created = 0 /\ removed = {}
  /\ contract_order = <<>> /\ front = Start /\ cycle = 0 /\ performed = <<>>
  /\ worklist = {} /\ pending = <<>>
  /\ answer = NoRows

Acceptable ==
  /\ request.cycles >= 1
  /\ request.rows # {}
  /\ \A i \in DOMAIN request.methods : request.methods[i] \in {DEADEND, LINEAR}

\* No cycles, no edges or an unknown method: nothing is done, nothing returned.
Refuse ==
  /\ phase = "called" /\ ~ Acceptable
  /\ phase' = "refused"
  /\ UNCHANGED <<request, graphVars, loopVars, worklist, pending, answer>>

\* process_contraction: the graph is built, the contraction object is created.
pgr_contraction ==
  /\ phase = "called" /\ Acceptable
  /\ phase' = "cycle"
  /\ edges' = EdgesOf(request.rows, is_directed)
  /\ contract_order' = <<Start>> \o request.methods
  /\ UNCHANGED <<request, held, created, removed, front, cycle, performed,
                 worklist, pending, answer>>

\* The loop over max_cycles: the mark that is in front goes to the back.
NextCycle ==
  /\ phase = "cycle" /\ Head(contract_order) = Start /\ cycle < request.cycles
  /\ cycle' = cycle + 1
  /\ front' = Head(contract_order)
  /\ contract_order' = Append(Tail(contract_order), Head(contract_order))
  /\ UNCHANGED <<request, phase, graphVars, performed, worklist, pending, answer>>

\* The method that was carried out is removed from the deque; what is pushed
\* back in its place is "front", the mark.
Turn == contract_order' = Append(Tail(contract_order), front)

\* worklist and stack are empty: back to the loop over the methods.
EndMethod ==
  /\ phase \in {"deadEnd", "linear"} /\ worklist = {} /\ pending = <<>>
  /\ phase' = "cycle"
  /\ performed' = Append(performed, Head(contract_order))
  /\ Turn
  /\ UNCHANGED <<request, graphVars, front, cycle, worklist, pending, answer>>

----------------------------------------------------------------------------
(***************************************************************************)
(* Dead end contraction.                                                   *)
(***************************************************************************)
IsDeadEndToContract(E, v) == IsDeadEnd(E, is_directed, v) /\ v \notin request.forbidden

\* calculateVertices
perform_deadEnd ==
  /\ phase = "cycle" /\ Head(contract_order) = DEADEND
  /\ phase' = "deadEnd"
  /\ worklist' = {v \in Vertex : IsDeadEndToContract(edges, v)}
  /\ UNCHANGED <<request, graphVars, loopVars, pending, answer>>

\* Every neighbour u takes v, what v holds and what the edges from u to v hold.
MergeInto(v, U) ==
  [x \in Vertex |-> IF x = v THEN {}
                    ELSE IF x \in U
                    THEN held[x] \cup {v} \cup held[v] \cup Along(edges, is_directed, x, v)
                    ELSE held[x]]

\* A slip: neighbours that are no longer dead ends stay in the worklist.
RefreshedKeep(E, U, rest) == rest \cup {u \in U : IsDeadEndToContract(E, u)}

\* A slip: only the neighbours that are on the worklist already are looked at again.
RefreshedOnly(E, U, rest) == (rest \ U) \cup {u \in rest \cap U : IsDeadEndToContract(E, u)}

Refreshed(E, U, rest) == (rest \ U) \cup {u \in U : IsDeadEndToContract(E, u)}

\* One iteration of the loop; the code asserts that v still is a dead end.
ContractDeadEnd ==
  /\ phase = "deadEnd" /\ worklist # {}
  /\ LET v == Min(worklist)
         U == Adjacent(edges, v)
     IN  /\ IsDeadEnd(edges, is_directed, v)
         /\ held' = MergeInto(v, U)
         /\ edges' = edges \ Incident(edges, v)
         /\ removed' = removed \cup {v}
         /\ worklist' = Refreshed(edges', U, worklist \ {v})
  /\ UNCHANGED <<request, phase, created, loopVars, pending, answer>>

----------------------------------------------------------------------------
(***************************************************************************)
(* Linear contraction.                                                     *)
(***************************************************************************)
IsContractible(E, v) == IsLinear(E, is_directed, v) /\ v \notin request.forbidden

perform_linear ==
  /\ phase = "cycle" /\ Head(contract_order) = LINEAR
  /\ phase' = "linear"
  /\ worklist' = {v \in Vertex : IsContractible(edges, v)}
  /\ UNCHANGED <<request, graphVars, loopVars, pending, answer>>

\* one_cycle(v): shortcuts around v, v cleared, its neighbours u and w next.
OneCycle(v, stack) ==
  LET u   == Min(Adjacent(edges, v))
      w   == Max(Adjacent(edges, v))
      new == ShortcutsAround(edges, is_directed, held, created, u, v, w)
  IN  /\ IsContractible(edges, v)
      /\ edges' = (edges \ Incident(edges, v)) \cup new
      /\ created' = created + Cardinality(new)
      /\ held' = [held EXCEPT ![v] = {}]
      /\ removed' = removed \cup {v}
      /\ worklist' = worklist \ {v}
      /\ pending' = <<u, w>> \o stack

\* One iteration of the loop of doContraction.
ContractLinear ==
  /\ phase = "linear" /\ pending = <<>> /\ worklist # {}
  /\ OneCycle(Min(worklist), <<>>)
  /\ UNCHANGED <<request, phase, loopVars, answer>>

\* A neighbour that became contractible is contracted at once.
Recurse ==
  /\ phase = "linear" /\ pending # <<>>
  /\ OneCycle(Head(pending), Tail(pending))
  /\ UNCHANGED <<request, phase, loopVars, answer>>

\* One that is not, or not any more, leaves the worklist.
Skip ==
  /\ phase = "linear" /\ pending # <<>>
  /\ ~ IsContractible(edges, Head(pending))
  /\ pending' = Tail(pending)
  /\ worklist' = worklist \ {Head(pending)}
  /\ UNCHANGED <<request, phase, graphVars, loopVars, answer>>

----------------------------------------------------------------------------
(***************************************************************************)
(* The rows that are returned: the vertices that hold others, and the      *)
(* shortcuts that are left, numbered again from -1 in the order in which   *)
(* they were made.                                                         *)
(***************************************************************************)
get_modified_vertices == {v \in Vertex : held[v] # {}}
get_shortcuts         == {e \in edges : e.id < 0}

Return ==
  /\ phase = "cycle" /\ Head(contract_order) = Start /\ cycle = request.cycles
  /\ phase' = "returned"
  /\ answer' = [vertices |-> {[id |-> v, contracted |-> held[v]] : v \in get_modified_vertices},
                edges |-> {[e EXCEPT !.id = -Cardinality({d \in get_shortcuts : d.id >= e.id})] :
                             e \in get_shortcuts}]
  /\ UNCHANGED <<request, graphVars, loopVars, worklist, pending>>

Done == phase \in {"returned", "refused"} /\ UNCHANGED vars

Next == Refuse \/ pgr_contraction \/ NextCycle
        \/ perform_deadEnd \/ ContractDeadEnd
        \/ perform_linear \/ ContractLinear \/ Recurse \/ Skip
        \/ EndMethod \/ Return \/ Done

\* One thread runs the call to its end.
Spec == Init /\ [][Next]_vars /\ WF_vars(Next)

----------------------------------------------------------------------------
(***************************************************************************)
(* Properties.                                                             *)
(***************************************************************************)
TypeOK ==
  /\ request \in Requests
  /\ phase \in {"called", "cycle", "deadEnd", "linear", "returned", "refused"}
  /\ edges \subseteq Edge
  /\ held \in [Vertex -> SUBSET Vertex]
  /\ created \in Nat /\ cycle \in Nat /\ front = Start
  /\ contract_order \in Seq(Int) /\ performed \in Seq(Int)
  /\ worklist \subseteq Vertex /\ pending \in Seq(Vertex)
  /\ removed \subseteq Vertex
  /\ answer \in [vertices : SUBSET [id : Vertex, contracted : SUBSET Vertex],
                  edges : SUBSET Edge]

\* The assertions of the two loops can never fail, however the neighbours of a
\* vertex were contracted since it was put on the worklist
\* (deadEndContraction.hpp:70, linearContraction.hpp:89), nor can those on the
\* edges that are returned (contractionGraph.hpp:316-334): an edge holds
\* vertices exactly when it is a shortcut.
AssertionsHold ==
  /\ phase = "deadEnd" => \A v \in worklist : IsDeadEnd(edges, is_directed, v)
  /\ phase = "linear" /\ pending = <<>> => \A v \in worklist : IsContractible(edges, v)
  /\ \A e \in edges : e.id < 0 <=> e.contracted # {}

\* A vertex of the forbidden list survives every method, also when it turns
\* into a dead end or a linear vertex on the way (deadEndContraction.hpp:94-98,
\* linearContraction.hpp:66-68).
ForbiddenStay == removed \cap request.forbidden = {}

\* A method leaves nothing behind that it could contract: the incremental
\* updates of the worklist find every vertex its own steps turned into a
\* candidate (deadEndContraction.hpp:94-98, linearContraction.hpp:141-152).
NothingLeft ==
  phase = "cycle" /\ performed # <<>> =>
    \A v \in Vertex :
      IF Last(performed) = DEADEND THEN ~ IsDeadEndToContract(edges, v)
                                   ELSE ~ IsContractible(edges, v)

\* Where a contracted vertex is recorded: at vertices and on shortcuts.
HoldersOf(v)  == {x \in Vertex : v \in held[x]}
CarriersOf(v) == {e \in edges : v \in e.contracted}

NoLoops == \A r \in request.rows : r.source # r.target

\* In an undirected graph without loops the contracted vertices are divided among
\* the vertices and edges that are left: each is recorded in exactly one place,
\* which is not itself contracted, and no other vertex is recorded
\* (deadEndContraction.hpp:73-88, contractionGraph.hpp:369-392).
RecordedOnce ==
  ~ is_directed /\ NoLoops =>
    /\ \A v \in removed : Cardinality(HoldersOf(v)) + Cardinality(CarriersOf(v)) = 1
    /\ \A v \in Vertex \ removed : HoldersOf(v) = {} /\ CarriersOf(v) = {}
    /\ \A v \in removed : held[v] = {}
    /\ \A e \in edges : e.from \notin removed /\ e.to \notin removed

\* What the caller is to route on: the original edges between vertices that no
\* row names as contracted, and the shortcuts of the answer.
Named == UNION {r.contracted : r \in answer.vertices \cup answer.edges}

ContractedGraph ==
  {e \in EdgesOf(request.rows, is_directed) : e.from \notin Named /\ e.to \notin Named}
  \cup answer.edges

\* Contraction keeps distances: between two vertices that were not contracted the
\* graph made from the answer gives the same distance as the original one.
DistancesKept ==
  phase = "returned" =>
    LET before == ArcsIn(EdgesOf(request.rows, is_directed), is_directed)
        after  == ArcsIn(ContractedGraph, is_directed)
        CostTo(W, y) == Min({INF} \cup {w[2] : w \in {x \in W : x[1] = y}})
    IN  \A x \in Vertex \ removed :
          \E B \in {WalkCosts(before, x)}, A \in {WalkCosts(after, x)} :
            \A y \in Vertex \ removed : CostTo(B, y) = CostTo(A, y)

\* Every call returns: the recursion and the worklists run dry.
CallReturns == <>(phase \in {"returned", "refused"})

----------------------------------------------------------------------------
(***************************************************************************)
(* What the documentation says, and the code does not do.                  *)
(***************************************************************************)
\* "do max_cycles times { for (operation in operations_order) { do operation } }"
\* (doc/contraction/pgr_contraction.rst:259-262).
MethodsRepeated ==
  phase = "returned" => Len(performed) = request.cycles * Len(request.methods)

\* A vertex that does "not appear in the results" is one that "was not affected
\* by the contraction algorithm" (doc/contraction/pgr_contraction.rst:290-291).
AffectedAppear ==
  phase = "returned" => removed \subseteq Named
=============================================================================
