--------------------------- MODULE KShortestRoutes ---------------------------
(***************************************************************************)
(* What the k shortest routes between two vertices are, whatever finds     *)
(* them: routes without a repeated vertex, found one after the other, each *)
(* of them one of the cheapest that are left.  The search is over when     *)
(* there are k of them or when there is no other route.                    *)
(***************************************************************************)
EXTENDS BaseGraph

CONSTANT Networks   \* [rows, directed]: the edges queries

VARIABLES network, status, query, found

vars == <<network, status, query, found>>

roads == ArcsFrom(insert_edges(network.rows, network.directed).edges, network.directed)

Init ==
  /\ network \in Networks
  /\ status = "idle" /\ found = {}
  /\ query.source \in Vertex /\ query.target \in Vertex /\ query.k \in Nat

Ask ==
  /\ status = "idle"
  /\ status' = "asked" /\ found' = {}
  /\ query'.source \in Vertex /\ query'.target \in Vertex /\ query'.k \in Nat
  /\ UNCHANGED network

Missing == Routes(roads, query.source, query.target) \ found

FindOne ==
  /\ status = "asked" /\ Cardinality(found) < query.k
  /\ \E R \in {Missing} : \E r \in R :
       /\ \A q \in R : WalkCost(roads, r) <= WalkCost(roads, q)
       /\ found' = found \cup {r}
  /\ UNCHANGED <<network, status, query>>

Finish ==
  /\ status = "asked"
  /\ Cardinality(found) = query.k \/ Missing = {}
  /\ status' = "idle"
  /\ UNCHANGED <<network, query, found>>

Next == Ask \/ FindOne \/ Finish

Spec == Init /\ [][Next]_vars
=============================================================================
