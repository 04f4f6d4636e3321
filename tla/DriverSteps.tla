---------------------------- MODULE DriverSteps ----------------------------
(***************************************************************************)
(* The steps the C++ drivers (src/src/*/*_driver.cpp) are made of.  A      *)
(* driver runs its steps in order inside one try block; the module         *)
(* Backend says what each step does.  A query is named by what it asks     *)
(* for; what the client is told is one of a few texts.                     *)
(***************************************************************************)
LOCAL INSTANCE Sequences

\* The queries of a driver that ask for edges.
EdgeQueries == {"edges", "edges of points", "neg_edges"}
Queries == EdgeQueries \union
    {"combinations", "points", "restrictions", "orders", "vehicles", "matrix", "coordinates"}

\* hint = q_sql; q = get_q(q_sql);
Get(q) == <<[do |-> "read", of |-> q]>>
\* get_intSet or get_intArray, the hint left as it is.
Arrays == <<[do |-> "arrays"]>>
\* hint = nullptr;
Forget == <<[do |-> "forget"]>>

\* if (...) {*notice_msg = ..; *log_msg = ..; return;}, where the test holds when
\* the queries of "of" that gave rows are one of the sets of "when".  The log
\* is a query, "hint" for what the hint is then, or "none".
StopOn(of, when, notice, log) ==
    <<[do |-> "stop", of |-> of, when |-> when, notice |-> notice, log |-> log]>>
Stop(of, notice, log) == StopOn(of, {{}}, notice, log)
\* The messages are set, and the driver goes on.
Note(of, notice, log) == <<[do |-> "note", of |-> of, notice |-> notice, log |-> log]>>
\* throw std::string("No edges found") when the query gave nothing.
ThrowOn(of) == <<[do |-> "throw", of |-> of]>>
\* An argument or the data is refused: *err_msg = ..; return;
Check == <<[do |-> "check"]>>

\* The algorithm.
Search == <<[do |-> "search"]>>
\* if (count == 0) {tuples = NULL; count = 0; messages; return;}
IfNothing(notice, log, err) ==
    <<[do |-> "nothing", notice |-> notice, log |-> log, err |-> err]>>
\* The tuples are allocated and filled, and count says how many there are.  When
\* that throws, the catch blocks free them with pgr_free and forget them ...
Fill == <<[do |-> "fill", catch |-> "pgr_free"]>>
\* ... but for these, whose catch blocks call free() and keep the pointer.
FillAndFree == <<[do |-> "fill", catch |-> "free"]>>
\* Without restrictions the first answer is the answer: fill and return.
FillUnless(q) == <<[do |-> "answer", of |-> q]>>
\* *log_msg = to_pg_msg(log); *notice_msg = to_pg_msg(notice); the driver's own
\* texts, empty unless the step says so, take the place of what was set before.
Tell == <<[do |-> "tell"]>>
\* The same, but an empty text leaves what was set before, and theirs are empty.
TellIfAny == <<>>

-----------------------------------------------------------------------------
(* What most drivers do in the same words.                                 *)

NoPairs == Stop({"combinations"}, "No pairs", "combinations")
Pairs == Get("combinations") \o Forget \o NoPairs

NoEdges(log) == Stop({"edges"}, "No edges", log)
Edges == Get("edges") \o NoEdges("hint") \o Forget

\* The points, the edges that have points, and the edges that have none.
PointsAndEdges == Get("points") \o Get("edges of points") \o Get("edges")
NoEdgesAtAll(log) == Stop({"edges", "edges of points"}, "No edges", log)

\* The error is set in some, each message that is not "none" replaced.
NoPathsLogged == IfNothing("none", "Nothing found", "none")
Silent == IfNothing("none", "none", "none")
Answer == Fill \o Tell
=============================================================================
