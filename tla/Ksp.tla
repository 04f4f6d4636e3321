--------------------------------- MODULE Ksp ---------------------------------
(***************************************************************************)
(* pgr_KSP: the driver builds one graph and runs Yen's algorithm on it for *)
(* every pair of the combinations, with a visitor that does nothing.       *)
(***************************************************************************)
EXTENDS Yen

\* algorithms::Yen skips the vertices the graph does not have.
pgr_KSP ==
  \E s \in VerticesOfRows(network.rows), t \in VerticesOfRows(network.rows), q \in Queries :
    Call(s, t, q)

\* Nothing to search for.
NoPath ==
  /\ phase = "called"
  /\ query.source = query.target \/ query.k = 0
  /\ phase' = "over"
  /\ UNCHANGED <<network, graph, query, i, curr_result_path, m_ResultSet, m_Heap, answer>>

FirstSolution ==
  /\ phase = "called" /\ query.source # query.target /\ query.k > 0
  /\ \E path \in DijkstraPaths(arcs, query.source, query.target) :
       /\ GetFirstSolution(path)
       /\ phase' = IF path = <<>> THEN "over" ELSE "loop"

SpurAndRestore ==
  /\ phase = "cut" /\ phase' = "spur"
  /\ \E path \in Detours : Spur(path)

Results ==
  LET paths == get_results(query.heap_paths)
  IN  IF query.heap_paths THEN paths ELSE SubSeq(paths, 1, Min({Len(paths), query.k}))

Return ==
  /\ phase = "over"
  /\ phase' = "idle"
  /\ answer' = Results
  /\ UNCHANGED <<network, graph, query, i, curr_result_path, m_ResultSet, m_Heap>>

Step == NoPath \/ FirstSolution \/ StartCycle \/ Cut \/ SpurAndRestore
        \/ TakeBest \/ Leave \/ Return

Next == pgr_KSP \/ Step

Spec == Init /\ [][Next]_vars
=============================================================================
