-------------------------- MODULE TurnRestrictedPath --------------------------
(***************************************************************************)
(* pgr_turnRestrictedPath (include/yen/turnRestrictedPath.hpp): Yen's      *)
(* algorithm with a visitor that watches every path found, the ones that   *)
(* only go into the heap included, and keeps those that follow none of the *)
(* restrictions.  To stop at the first of them it throws out of the middle *)
(* of a cycle.                                                             *)
(***************************************************************************)
EXTENDS Yen

CONSTANTS Restrictions,   \* the sets of rules a call may be given: sequences of edges
          Flags           \* the values of [stop_on_first, strict, heap_paths]

VARIABLES m_restrictions, flags, m_solutions

trVars == <<vars, m_restrictions, flags, m_solutions>>

options == <<m_restrictions, flags>>

----------------------------------------------------------------------------
\* std::search: where the edges of the rule follow each other on the path.
StartsAt(path, rule) ==
  {n \in 1..Len(path) - Len(rule) + 1 :
     \A m \in DOMAIN rule : path[n + m - 1].edge = rule[m]}

has_restriction(path) == \E rule \in m_restrictions : StartsAt(path, rule) # {}

\* inf_cost_on_restriction: the rows that get an infinite agg_cost, one for
\* each rule that is found.
InfCost(path) ==
  {Min(StartsAt(path, rule)) : rule \in {r \in m_restrictions : StartsAt(path, r) # {}}}

\* A slip: what goes into the heap is not looked at.
WatchedNothing(path) == m_solutions

\* on_insert_first_solution and on_insert_to_heap
Watched(path) ==
  IF path = <<>> \/ has_restriction(path) THEN m_solutions ELSE Insert(m_solutions, path)

Throws(path) == flags.stop_on_first /\ path # <<>> /\ ~ has_restriction(path)

----------------------------------------------------------------------------
TrInit ==
  /\ Init
  /\ m_restrictions \in Restrictions
  /\ flags \in Flags
  /\ m_solutions = {}

\* A driver builds an object, calls it once, and only for the first pair.
pgr_turnRestrictedPath ==
  /\ \E s \in Vertex, t \in Vertex, q \in Queries : Call(s, t, q)
  /\ UNCHANGED <<options, m_solutions>>

NoPath ==
  /\ phase = "called"
  /\ query.source = query.target \/ ~ HasBothVertices
  /\ phase' = "returned"
  /\ UNCHANGED <<network, graph, query, i, curr_result_path, m_ResultSet, m_Heap, answer,
                 options, m_solutions>>

FirstSolution ==
  /\ phase = "called" /\ query.source # query.target /\ HasBothVertices
  /\ \E path \in DijkstraPaths(arcs, query.source, query.target) :
       /\ GetFirstSolution(path)
       /\ m_solutions' = Watched(path)
       /\ phase' = IF path = <<>> \/ Throws(path) THEN "over" ELSE "loop"
  /\ UNCHANGED options

\* The detour is found, put into the heap and shown to the visitor, and the graph
\* is restored, unless the visitor throws.
SpurAndRestore ==
  /\ phase = "cut"
  /\ \E path \in Detours :
       /\ m_solutions' = Watched(IF path = <<>> THEN <<>> ELSE rootPath \o path)
       /\ IF path # <<>> /\ Throws(rootPath \o path)
          THEN /\ phase' = "over"
               /\ m_Heap' = Insert(m_Heap, rootPath \o path)
               /\ UNCHANGED <<network, graph, query, i, curr_result_path, m_ResultSet, answer>>
          ELSE phase' = "spur" /\ Spur(path)
  /\ UNCHANGED options

Unwatched == (StartCycle \/ Cut \/ TakeBest \/ Leave) /\ UNCHANGED <<options, m_solutions>>

----------------------------------------------------------------------------
\* Fewest infinite rows first; compPathsLess has sorted them before.
FewerInf(p, q) ==
  \/ Cardinality(InfCost(p)) < Cardinality(InfCost(q))
  \/ Cardinality(InfCost(p)) = Cardinality(InfCost(q)) /\ compPathsLess(p, q)

\* get_results(solutions): what there is to say when every path is restricted.
RestrictedResults ==
  LET paths == SortSeq(get_results(TRUE), FewerInf)
      least == Cardinality(InfCost(paths[1]))
  IN  IF paths = <<>> \/ flags.strict THEN <<>>
      ELSE IF flags.heap_paths THEN paths
      ELSE SelectSeq(paths, LAMBDA p : Cardinality(InfCost(p)) = least)

Return ==
  /\ phase = "over"
  /\ phase' = "returned"
  /\ answer' = IF m_solutions # {} THEN Sorted(m_solutions) ELSE RestrictedResults
  /\ UNCHANGED <<network, graph, query, i, curr_result_path, m_ResultSet, m_Heap,
                 options, m_solutions>>

Step == NoPath \/ FirstSolution \/ SpurAndRestore \/ Unwatched \/ Return

Done == phase = "returned" /\ UNCHANGED trVars

Next == pgr_turnRestrictedPath \/ Step \/ Done

Spec == TrInit /\ [][Next]_trVars
----------------------------------------------------------------------------
(***************************************************************************)
(* Properties.                                                             *)
(***************************************************************************)
\* No restricted path is offered while a free one was seen: when the call did not
\* stop early, every result that follows no restriction is in the answer, and
\* then nothing else is; and a restricted answer is one of the least restricted
\* of all that were seen unless the heap was asked for.
FreePathsFirst ==
  phase = "returned" /\ answer # <<>> =>
    LET free == {p \in m_ResultSet : ~ has_restriction(p)}
    IN  /\ ~ flags.stop_on_first => free \subseteq Range(answer)
        /\ free # {} => \A n \in DOMAIN answer : ~ has_restriction(answer[n])
        /\ ~ flags.heap_paths =>
             \A n \in DOMAIN answer, p \in m_ResultSet :
               Cardinality(InfCost(answer[n])) <= Cardinality(InfCost(p))

----------------------------------------------------------------------------
(***************************************************************************)
(* What the documentation says, and the code does not do.                  *)
(***************************************************************************)
\* stop_on_first "When false returns at most K paths"
\* (doc/trsp/pgr_turnRestrictedPath.rst:102).
AtMostK ==
  ~ flags.stop_on_first /\ ~ flags.heap_paths /\ query.k > 0 => Len(answer) <= query.k

\* "when k=0 stop at first path without turn restriction"
\* (turnRestrictedPath.hpp:131): if there is such a path it is found.
ZeroFindsFirst ==
  phase = "returned" /\ query.k = 0 /\ answer # <<>> =>
    \/ ~ has_restriction(answer[1])
    \/ \A r \in Routes(roads, query.source, query.target) : has_restriction(PathOf(roads, r))
=============================================================================
