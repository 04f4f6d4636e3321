------------------------------ MODULE TrspVia ------------------------------
(***************************************************************************)
(* pgr_trspVia (src/trsp/trspVia_driver.cpp): a route through a list of    *)
(* vertices under turn restrictions.  DijkstraVia finds the legs; those    *)
(* that follow a rule, or were not found, are taken out and their pairs    *)
(* given to the handler of Trsp; what is kept and what the handler finds   *)
(* is put in the order of the legs again, by the ends of the paths.        *)
(***************************************************************************)
EXTENDS BaseGraph, Bags

CONSTANTS Networks,   \* [rows, directed]: the edges queries
          Requests    \* [via, strict, U_turn_on_edge, rules]

VARIABLES
  network, request,
  phase,              \* of DijkstraVia until it is "over", then of the handler
  graph, i, path, paths, answer,     \* DijkstraVia
  kept,               \* the legs that are kept: [source, target, rows]
  combinations, pair, m_current_node, labels, m_que, new_paths,    \* the handler
  ordered             \* ordered_paths

viaVars     == <<graph, i, path, paths>>
handlerVars == <<combinations, pair, m_current_node, labels, m_que, new_paths>>
vars        == <<network, request, phase, viaVars, answer, kept, handlerVars, ordered>>

V == INSTANCE DijkstraVia
H == INSTANCE Trsp WITH
       Requests <- {}, paths <- kept,
       request  <- [rows |-> network.rows, directed |-> network.directed, rules |-> request.rules]

legs == [n \in DOMAIN paths |-> H!Found(request.via[n], request.via[n + 1], paths[n])]

----------------------------------------------------------------------------
Init ==
  /\ V!Init
  /\ kept = <<>> /\ ordered = <<>>
  /\ combinations = <<>> /\ pair = <<0, 0>> /\ m_current_node = 0
  /\ labels = H!NoLabels(H!m_edges) /\ m_que = EmptyBag /\ new_paths = <<>>

\* dijkstraVia finds the legs.
Depart    == V!Depart    /\ UNCHANGED <<kept, handlerVars, ordered>>
Travel    == V!Travel    /\ UNCHANGED <<kept, handlerVars, ordered>>
Arrive    == V!Arrive    /\ UNCHANGED <<kept, handlerVars, ordered>>
Undefined == V!Undefined /\ UNCHANGED <<kept, handlerVars, ordered>>

\* There is nothing to check, or no rule to check it with.
ReturnUnchecked ==
  /\ request.rules = {} \/ V!RouteRows(paths) = <<>>
  /\ V!Return
  /\ UNCHANGED <<kept, handlerVars, ordered>>

\* get_combinations: a leg that was not found is searched again, too.
CheckRules ==
  /\ phase = "over" /\ request.rules # {} /\ V!RouteRows(paths) # <<>>
  /\ phase' = "next"
  /\ LET found == {p \in Range(legs) : p.rows # <<>>}
     IN  /\ kept' = SelectSeq(legs, LAMBDA p : p.rows # <<>> /\ H!BrokenRules(p) = {})
         /\ combinations' = H!InOrder(H!PairsOf(found)
                                      \cup {<<p.source, p.target>> : p \in Range(legs) \ found})
  /\ UNCHANGED <<network, request, viaVars, answer, pair, m_current_node, labels, m_que,
                 new_paths, ordered>>

\* TrspHandler::process, for one pair after the other.
Untouched == UNCHANGED <<network, request, viaVars, answer, kept, ordered>>

StartPair     == Untouched /\ H!StartPair
Explore       == Untouched /\ H!Explore
ReachEnd      == Untouched /\ H!Arrive
NotFound      == Untouched /\ H!NotFound
CannotBeLeft  == Untouched /\ H!Undefined

----------------------------------------------------------------------------
(***************************************************************************)
(* post_process_trspvia                                                    *)
(***************************************************************************)
\* A slip: the path stays where it was found.
TakenAgain(done, leg) ==
  LET n == SelectInSeq(done.left, LAMBDA p : p.source = leg[1] /\ p.target = leg[2])
  IN  IF n = 0 THEN done ELSE [done EXCEPT !.ordered = Append(@, done.left[n])]

\* The first path between the ends of a leg is the leg, and is taken away.
Taken(done, leg) ==
  LET n == SelectInSeq(done.left, LAMBDA p : p.source = leg[1] /\ p.target = leg[2])
  IN  IF n = 0 THEN done
      ELSE [ordered |-> Append(done.ordered, done.left[n]), left |-> RemoveAt(done.left, n)]

post_process_trspvia(P) ==
  FoldLeft(Taken, [ordered |-> <<>>, left |-> P],
           [n \in 1..Len(request.via) - 1 |-> <<request.via[n], request.via[n + 1]>>]).ordered

Return ==
  /\ phase = "next" /\ combinations = <<>>
  /\ phase' = "returned"
  /\ ordered' = post_process_trspvia(kept \o new_paths)
  /\ answer' = V!get_viaRoute([n \in DOMAIN ordered' |-> ordered'[n].rows])
  /\ UNCHANGED <<network, request, viaVars, kept, handlerVars>>

Done == phase \in {"returned", "undefined"} /\ UNCHANGED vars

Next == \/ Depart \/ Travel \/ Arrive \/ Undefined \/ ReturnUnchecked \/ CheckRules
        \/ StartPair \/ Explore \/ ReachEnd \/ NotFound \/ CannotBeLeft \/ Return
        \/ Done

Spec == Init /\ [][Next]_vars
----------------------------------------------------------------------------
(***************************************************************************)
(* Properties.                                                             *)
(***************************************************************************)
\* The properties of the legs, as DijkstraVia finds them (dijkstraVia.hpp:72-114):
\* a leg is missing only when there is no route, and then, with strict and no
\* restrictions, the whole route is.
LegsAreFound    == V!LegsAreFound /\ (request.rules = {} => V!StrictRoutesAreWhole)
NoNeedlessUTurn == V!NoNeedlessUTurn

\* Taking the route apart and putting it together again loses no leg that was kept,
\* gives none twice and none out of order; a leg that has a route, and that no
\* other leg equals, is there, searched again or not
\* (trspVia_driver.cpp:47-86, combinations.cpp:41-86).
Ends(p) == <<p.source, p.target>>

Copies(P, p) == Cardinality({n \in DOMAIN P : P[n] = p})

Leg(n) == <<request.via[n], request.via[n + 1]>>

OnlyLegLike(n) == \A m \in 1..Len(request.via) - 1 : Leg(m) = Leg(n) => m = n

InTheOrderOfLegs ==
  \E place \in [DOMAIN ordered -> 1..Len(request.via) - 1] :
    /\ \A n \in DOMAIN ordered : Leg(place[n]) = Ends(ordered[n])
    /\ \A m, n \in DOMAIN ordered : m < n => place[m] < place[n]

HasRoute(leg) == leg[1] # leg[2] /\ Routes(V!roads, leg[1], leg[2]) # {}

LegsSurvive ==
  phase = "returned" /\ ordered # <<>> =>
    /\ \A p \in Range(kept) : Copies(ordered, p) >= Copies(kept, p)
    /\ \A p \in Range(ordered) : Copies(kept \o new_paths, p) >= Copies(ordered, p)
    /\ InTheOrderOfLegs
    /\ \A n \in 1..Len(request.via) - 1 : OnlyLegLike(n) =>
         \E m \in DOMAIN ordered : Ends(ordered[m]) = Leg(n)
                                   /\ (HasRoute(Leg(n)) => ordered[m].rows # <<>>)
----------------------------------------------------------------------------
(***************************************************************************)
(* What the documentation says, and the code does not do.                  *)
(***************************************************************************)
\* strict: "When true if a path is missing stops and returns EMPTY SET"
\* (doc/categories/via-category.rst:96), with restrictions as without.
StrictIsKept == V!StrictRoutesAreWhole

\* See DijkstraVia.
MissingIsIgnored == V!MissingIsIgnored
=============================================================================
