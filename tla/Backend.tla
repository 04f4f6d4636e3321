------------------------------ MODULE Backend ------------------------------
(***************************************************************************)
(* One PostgreSQL backend that runs the functions of a catalogue.  A       *)
(* function connects to SPI, lets its driver run the queries of the user,  *)
(* reports, disconnects and returns its rows one call at a time.  A query  *)
(* may call another function of the catalogue, so that the calls form a    *)
(* stack beside the stack of SPI connections, and an ERROR, wherever it is *)
(* raised, throws both away.                                               *)
(***************************************************************************)
EXTENDS DriverSteps, Integers, Sequences, SequencesExt

CONSTANTS
    Catalogue,  \* the functions, by name, as in SqlFunctions
    Inner,      \* the functions that a query calls
    MaxDepth,   \* calls within calls
    Answers,    \* what a search finds: paths, each the edges of its rows, -1 at the end;
                \* a path that was not found has no rows
    OutOfMemory,\* memory may run out while tuples are copied
    Misleading, \* functions that tell an emptiness that is not one
    Quiet       \* functions that do not tell an emptiness

ASSUME MaxDepthAssumption == MaxDepth \in Nat \ {0}

VARIABLES
    calls,      \* the calls in progress, the innermost last
    levels,     \* the SPI connections: the depth of the call that opened each
    error       \* what the last call that failed raised

vars == <<calls, levels, error>>

None == [text |-> "none", hint |-> "none", fn |-> "none", failed |-> "none", found |-> {}]

-----------------------------------------------------------------------------
(* A call.                                                                 *)

Noticed == [notice |-> "none", log |-> "none", err |-> "none"]
NoTuples == [state |-> "none", level |-> 0]

New(f, g) ==
    [fn |-> f, given |-> g, pc |-> "called", at |-> 1,
     found |-> {}, hint |-> "none", said |-> Noticed, failed |-> "none",
     answer |-> <<>>, legs |-> <<>>, tuples |-> NoTuples, rows |-> <<>>, count |-> 0,
     nth |-> 0, out |-> <<>>]

Top == Last(calls)
ProcessOf(c) == Catalogue[c.fn].process
NumbersOf(c) == Catalogue[c.fn].numbers
Step == ProcessOf(Top).driver[Top.at]
Update(c) == calls' = [calls EXCEPT ![Len(calls)] = c]

InDriver == calls # <<>> /\ Top.pc = "driver"
At(kind) ==
    /\ InDriver
    /\ Top.at \in DOMAIN ProcessOf(Top).driver
    /\ Step.do = kind

\* The driver goes on, or it leaves its try block for good.
GoOn(c) == Update([c EXCEPT !.at = @ + 1]) /\ UNCHANGED <<levels, error>>
Leave(c) == Update([c EXCEPT !.pc = "drop"]) /\ UNCHANGED <<levels, error>>

\* ereport(ERROR): PostgreSQL unwinds to the top and pops every SPI level.
Raise(text, hint) ==
    /\ calls' = <<>>
    /\ levels' = <<>>
    /\ error' = [text |-> text, hint |-> hint, fn |-> Top.fn,
                 failed |-> Top.failed, found |-> Top.found]

-----------------------------------------------------------------------------
(* The process, before and after the driver.                               *)

\* A statement calls a function, or a query that asks for edges does.
Call ==
    \E f \in DOMAIN Catalogue : \E g \in Catalogue[f].forms :
        /\ \/ calls = <<>>
           \/ /\ At("read") /\ Step.of \in EdgeQueries
              /\ f \in Inner /\ Len(calls) < MaxDepth
        /\ calls' = Append(calls, New(f, g))
        /\ error' = None
        /\ UNCHANGED levels

Called == calls # <<>> /\ Top.pc = "called"

RefuseArguments == Called /\ ProcessOf(Top).raises /\ Raise("argument", "none")

pgr_SPI_connect ==
    /\ Called
    /\ levels' = Append(levels, Len(calls))
    /\ Update([Top EXCEPT !.pc = "driver"])
    /\ UNCHANGED error

Starting == InDriver /\ Top.at = 1

RefuseArgumentsLate == Starting /\ ProcessOf(Top).late /\ Raise("argument", "none")

\* A slip: the test comes after pgr_SPI_connect.
LeaveUnfinished ==
    /\ Starting /\ ProcessOf(Top).leaves = "unconnected"
    /\ Update([Top EXCEPT !.pc = "rows"])
    /\ UNCHANGED <<levels, error>>

\* return; a contraction without a cycle leaves before it connects, and what called
\* it gets no rows.
LeaveUnconnected ==
    /\ Called /\ ProcessOf(Top).leaves = "unconnected"
    /\ Update([Top EXCEPT !.pc = "rows"])
    /\ UNCHANGED <<levels, error>>

\* With a negative K the k shortest paths leave connected (ksp.c:65-68).
LeaveConnected ==
    /\ Starting /\ ProcessOf(Top).leaves = "connected"
    /\ Update([Top EXCEPT !.pc = "left"])
    /\ UNCHANGED <<levels, error>>

\* if (err_msg && (*result_tuples)) pfree(*result_tuples);
Released(tuples) ==
    CASE tuples.state = "held" -> "dangling"
      [] tuples.state = "dangling" -> "freed twice"
      [] OTHER -> tuples.state
Dropped(c) ==
    LET frees == ProcessOf(c).frees
        state == IF frees = "all" THEN "none" ELSE Released(c.tuples)
        twice == Released(c.tuples) = "freed twice"
    IN  IF c.said.err = "none" THEN c
        ELSE [c EXCEPT !.tuples.state = IF twice THEN "freed twice" ELSE state,
                       !.count = IF frees = "only" THEN @ ELSE 0]
Drop ==
    /\ calls # <<>> /\ Top.pc = "drop"
    /\ Update([Dropped(Top) EXCEPT !.pc = "report"])
    /\ UNCHANGED <<levels, error>>

\* The notice with the log as its hint, then the error with the same hint.
pgr_global_report ==
    /\ calls # <<>> /\ Top.pc = "report"
    /\ \/ /\ Top.said.err # "none"
          /\ Raise(Top.said.err, Top.said.log)
       \/ /\ Top.said.err = "none"
          /\ Update([Top EXCEPT !.pc = "finish"])
          /\ UNCHANGED <<levels, error>>

\* SPI_finish pops whatever level is the innermost.
pgr_SPI_finish ==
    /\ calls # <<>> /\ Top.pc = "finish"
    /\ levels # <<>>
    /\ levels' = Front(levels)
    /\ Update([Top EXCEPT !.pc = "rows"])
    /\ UNCHANGED error

-----------------------------------------------------------------------------
(* The steps of a driver.                                                  *)

Asked(q) == q # "combinations" \/ "combinations" \in Top.given

\* A slip: the hint of the first query stays.
HintKept(c, q) == IF c.hint = "none" THEN q ELSE c.hint
\* hint = q_sql;
HintOf(c, q) == q

ReadRows ==
    /\ At("read") /\ Asked(Step.of)
    /\ GoOn([Top EXCEPT !.hint = HintOf(Top, Step.of), !.found = @ \union {Step.of}])
ReadNothing ==
    /\ At("read")
    /\ GoOn([Top EXCEPT !.hint = IF Asked(Step.of) THEN HintOf(Top, Step.of) ELSE "none"])

\* catch (const std::string &ex): a missing or a mistyped column.
Thrown(c, q) ==
    [c EXCEPT !.failed = q, !.said.err = "bad query", !.said.log = c.hint]
ReadThrows ==
    /\ At("read") /\ Asked(Step.of)
    /\ Leave(Thrown([Top EXCEPT !.hint = HintOf(Top, Step.of)], Step.of))
ReadArrays == At("arrays") /\ (GoOn(Top) \/ Leave(Thrown(Top, "none")))

\* The query does not parse, or the user cancels it or the search.
Abort == (At("read") \/ At("search")) /\ Raise("aborted", "none")

Forgotten == At("forget") /\ GoOn([Top EXCEPT !.hint = "none"])

Resolved(log) == IF log = "hint" THEN Top.hint ELSE log
\* Combinations that were not given are not missed.
NoneFound(step) ==
    /\ (Top.found \intersect step.of) \in step.when
    /\ \A q \in step.of : Asked(q)
StopEarly ==
    /\ At("stop")
    /\ IF NoneFound(Step)
       THEN Leave([Top EXCEPT !.said.notice = Step.notice, !.said.log = Resolved(Step.log)])
       ELSE GoOn(Top)
NoteOnly ==
    /\ At("note")
    /\ GoOn(IF Top.found \intersect Step.of = {}
            THEN [Top EXCEPT !.said.notice = Step.notice, !.said.log = Step.log] ELSE Top)
ThrowEarly ==
    /\ At("throw")
    /\ IF Top.found \intersect Step.of = {}
       THEN Leave([Top EXCEPT !.said.err = "No edges", !.said.log = Top.hint])
       ELSE GoOn(Top)
CheckData == At("check") /\ (GoOn(Top) \/ Leave([Top EXCEPT !.said.err = "bad data"]))

\* catch (std::exception &except): the tuples are freed and forgotten.
Caught(c, how) ==
    LET freed == Released(c.tuples)
    IN  [c EXCEPT !.tuples.state = IF how = "free" THEN freed
                                   ELSE IF freed = "freed twice" THEN freed ELSE "none",
                  !.count = 0, !.said.err = "exception", !.said.log = "none"]

\* Functions that do not number paths answer with nothing or with two rows.
AnswersOf(f) ==
    IF Catalogue[f].numbers \in {"path_seq", "path_id", "disjoint", "stored"} THEN Answers
    ELSE {<<>>, <<<<1, 1>>>>}
Find ==
    /\ At("search")
    /\ \/ \E answer \in AnswersOf(Top.fn) : GoOn([Top EXCEPT !.answer = answer])
       \/ Leave(Caught(Top, "pgr_free"))

\* The rows of the paths, one after the other.  For the numbers that the driver
\* stores start is the path, of all the paths, and end the place in it; else they are
\* vertices.  The last row of such a route is marked.
RowsOf(f, answer) ==
    LET isStored == Catalogue[f].numbers = "stored"
        Path(k) == [i \in DOMAIN answer[k] |->
            [edge |-> answer[k][i], own |-> "held",
             start |-> IF isStored THEN k ELSE 9, end |-> IF isStored THEN i - 1 ELSE 9]]
        rows == FlattenSeq([k \in DOMAIN answer |-> Path(k)])
    IN  [i \in DOMAIN rows |->
            [rows[i] EXCEPT !.edge = IF isStored /\ i = Len(rows) THEN -2 ELSE @]]

\* The rows are counted, not the paths.
Replaced(old, new) == IF new = "none" THEN old ELSE new
NothingFound ==
    /\ At("nothing")
    /\ IF RowsOf(Top.fn, Top.answer) = <<>>
       THEN Leave([Top EXCEPT !.said.notice = Replaced(@, Step.notice),
                              !.said.log = Replaced(@, Step.log),
                              !.said.err = Replaced(@, Step.err)])
       ELSE GoOn(Top)

\* SPI_palloc allocates for the call that opened the innermost level; get_viaRoute
\* allocates nothing for no rows.
Filled(c) ==
    LET rows == RowsOf(c.fn, c.answer)
        none == NumbersOf(c) = "stored" /\ rows = <<>>
    IN  [c EXCEPT !.rows = rows, !.count = Len(rows), !.legs = c.answer,
                  !.tuples = IF none THEN @ ELSE [state |-> "held", level |-> Last(levels)]]
\* The copy may throw after the allocation; in pickDeliver, whose catch blocks call
\* free() on memory of PostgreSQL, only when memory is exhausted.
FillTuples ==
    /\ At("fill")
    /\ \/ GoOn(Filled(Top))
       \/ /\ Step.catch = "free" => OutOfMemory
          /\ Leave(Caught(Filled(Top), Step.catch))
FillFirst ==
    /\ At("answer")
    /\ IF Step.of \in Top.found THEN GoOn(Top) ELSE Leave(Filled(Top))

TellMessages ==
    /\ At("tell")
    /\ GoOn([Top EXCEPT !.said.notice = "none", !.said.log = "none"])

Return ==
    /\ InDriver /\ Top.at = Len(ProcessOf(Top).driver) + 1
    /\ Leave(Top)

-----------------------------------------------------------------------------
(* One row per call: funcctx->call_cntr < funcctx->max_calls.              *)

Starts(c) == c.nth = 0
Before(c) == c.rows[c.nth]
This(c) == c.rows[c.nth + 1]

\* A slip: the number starts again one row late.
PathSeqLate(c) ==
    LET seq == IF Starts(c) THEN 1 ELSE Before(c).start
    IN  [path |-> 0, seq |-> seq, end |-> This(c).end,
         start |-> IF ~Starts(c) /\ Before(c).edge < 0 THEN 1 ELSE seq + 1]
\* The numbers of a row come from what the row before it was overwritten with.
path_seq(c) ==
    LET seq == IF Starts(c) THEN 1 ELSE Before(c).start
    IN  [path |-> 0, seq |-> seq, end |-> This(c).end,
         start |-> IF This(c).edge < 0 THEN 1 ELSE seq + 1]
PathOf(c) ==
    IF Starts(c) THEN 1
    ELSE IF Before(c).edge = -1 THEN Before(c).start + 1 ELSE Before(c).start
path_id(c) ==
    LET seq == IF Starts(c) THEN 1 ELSE Before(c).end
    IN  [path |-> PathOf(c), seq |-> seq,
         start |-> PathOf(c), end |-> IF This(c).edge < 0 THEN 1 ELSE seq + 1]
disjoint(c) ==
    LET seq == IF Starts(c) \/ Before(c).edge = -1 THEN 1 ELSE Before(c).end + 1
    IN  [path |-> PathOf(c), seq |-> seq, start |-> PathOf(c), end |-> seq]
stored(c) ==
    [path |-> This(c).start, seq |-> This(c).end + 1, start |-> This(c).start, end |-> This(c).end]
counter(c) == [path |-> 0, seq |-> c.nth + 1, start |-> This(c).start, end |-> This(c).end]

Numbered(c) ==
    CASE NumbersOf(c) = "path_seq" -> path_seq(c)
      [] NumbersOf(c) = "path_id" -> path_id(c)
      [] NumbersOf(c) = "disjoint" -> disjoint(c)
      [] NumbersOf(c) = "stored" -> stored(c)
      [] OTHER -> counter(c)

\* pfree(result_tuples[call_cntr].contracted_vertices);
ArraysFreed(c) == {c.nth + 1}

\* result_tuples[call_cntr].start_id = ...; what the next row reads.
Overwritten(c, n) ==
    [i \in DOMAIN c.rows |->
        [c.rows[i] EXCEPT
            !.start = IF i = c.nth + 1 THEN n.start ELSE @,
            !.end = IF i = c.nth + 1 THEN n.end ELSE @,
            !.own = IF NumbersOf(c) = "nested" /\ i \in ArraysFreed(c) THEN "freed" ELSE @]]

Returning == calls # <<>> /\ Top.pc = "rows"
MoreRows == Top.nth < Top.count /\ NumbersOf(Top) # "value"

SRF_RETURN_NEXT ==
    /\ Returning /\ MoreRows
    /\ \E n \in {Numbered(Top)} :
         Update([Top EXCEPT
            !.nth = @ + 1,
            !.out = Append(@, [path |-> n.path, seq |-> n.seq, own |-> This(Top).own]),
            !.rows = Overwritten(Top, n)])
    /\ UNCHANGED <<levels, error>>

\* The last row was returned, or the caller wants no more.  With the statement
\* the transaction ends, and with it the levels that are left.
SRF_RETURN_DONE ==
    /\ calls # <<>> /\ Top.pc \in {"rows", "left"}
    /\ calls' = Front(calls)
    /\ levels' = IF Len(calls) = 1 THEN <<>> ELSE levels
    /\ UNCHANGED error

-----------------------------------------------------------------------------

Init == calls = <<>> /\ levels = <<>> /\ error = None

DriverNext ==
    \/ ReadRows \/ ReadNothing \/ ReadThrows \/ ReadArrays \/ Abort \/ Forgotten
    \/ StopEarly \/ NoteOnly \/ ThrowEarly \/ CheckData \/ Find \/ NothingFound
    \/ FillTuples \/ FillFirst \/ TellMessages \/ Return

Next ==
    \/ Call \/ RefuseArguments \/ RefuseArgumentsLate \/ pgr_SPI_connect
    \/ LeaveUnconnected \/ LeaveConnected
    \/ DriverNext
    \/ Drop \/ pgr_global_report \/ pgr_SPI_finish
    \/ SRF_RETURN_NEXT \/ SRF_RETURN_DONE

Spec == Init /\ [][Next]_vars

-----------------------------------------------------------------------------
(* What the functions of a catalogue have to be like.                      *)

\* No function that a query calls leaves while it is connected.
InnerFinish == \A f \in Inner : Catalogue[f].process.leaves # "connected"

\* The last row of a path, if it has any, and no other, has a negative edge: the edges
\* of the user have no negative identifiers.
IsPath(p) ==
    /\ p \in Seq(Int)
    /\ \A i \in 1..Len(p) : (p[i] < 0 <=> i = Len(p)) /\ (p[i] < 0 => p[i] = -1)
PathsEndOnce ==
    \A a \in Answers : a \in Seq(Seq(Int)) /\ \A k \in 1..Len(a) : IsPath(a[k])

\* Memory does not run out where a driver would free the tuples with free().
FreesItsOwn ==
    \A f \in DOMAIN Catalogue : \A i \in DOMAIN Catalogue[f].process.driver :
      LET step == Catalogue[f].process.driver[i]
      IN  step.do = "fill" /\ step.catch = "free" => ~OutOfMemory

\* What each driver has to be like to tell the truth: a list of steps ...
IsDriver(d) == d \in Seq({d[i] : i \in DOMAIN d})
Speaks(d, i) == d[i].do \in {"stop", "note", "nothing"}
\* ... where a message names a query only after the query was run, ...
LogsWereRead(d) ==
    \A i \in DOMAIN d : Speaks(d, i) /\ d[i].log \in Queries =>
        \E j \in 1..i : d[j].do = "read" /\ d[j].of = d[i].log
\* ... "No edges" is said of all the queries for edges there were, and when no other
\* comes, ...
NoticesAreMeant(d) ==
    \A i \in DOMAIN d : Speaks(d, i) /\ d[i].notice = "No edges" =>
        /\ d[i].do # "nothing"
        /\ d[i].do = "stop" => \A x \in d[i].when : x \intersect EdgeQueries = {}
        /\ \A j \in DOMAIN d : d[j].do = "read" /\ d[j].of \in EdgeQueries =>
             IF j < i THEN d[j].of \in d[i].of ELSE d[i].do = "stop"
\* ... nobody gets past some step with nothing to work on, or leaves before it without
\* a word, ...
Essential == Queries \ {"combinations", "points", "restrictions"}
IsGuard(d, i) ==
    /\ d[i].do \in {"stop", "throw"} /\ d[i].of \subseteq Essential
    /\ d[i].do = "stop" => {} \in d[i].when
    /\ \A j \in 1..i :
         /\ d[j].do \notin {"nothing", "answer"}
         /\ d[j].do = "stop" => d[j].notice # "none"
TellsEmptiness(d) == \E i \in DOMAIN d : IsGuard(d, i)
\* ... and the hint is forgotten before arrays are read.
BlamesItsOwn(d) ==
    \A i \in DOMAIN d :
        /\ d[i].do = "nothing" => d[i].err # "bad query"
        /\ d[i].do = "arrays" =>
             \A j \in 1..i : d[j].do = "read" => \E k \in j..i : d[k].do = "forget"
DriversAreTruthful ==
    \A f \in DOMAIN Catalogue : LET d == Catalogue[f].process.driver IN
        /\ IsDriver(d) /\ LogsWereRead(d) /\ BlamesItsOwn(d)
        /\ f \notin Misleading => NoticesAreMeant(d)
        /\ f \notin Quiet => TellsEmptiness(d)

-----------------------------------------------------------------------------
(* Properties.                                                             *)

Connected(c) == c.pc \in {"driver", "drop", "report", "finish", "left"}

\* The SPI levels are those of the calls that are connected, in their order: no
\* call within a call returns or is abandoned with its level left behind, so that
\* each query runs and each tuple is allocated on the level of its own call, and
\* SPI_finish (postgres_connection.c:56) never pops a caller's level.  Calls of the
\* k shortest paths within a query are not among them (ksp.c:65-68).
LevelsAreOwn ==
    /\ DOMAIN levels = {d \in DOMAIN calls : Connected(calls[d])}
    /\ \A d \in DOMAIN levels : levels[d] = d

ReadBy(c) ==
    {ProcessOf(c).driver[i].of : i \in {j \in 1..Len(ProcessOf(c).driver) :
        j <= c.at /\ ProcessOf(c).driver[j].do = "read"}}

\* "No edges found" is said of edges that are not there ...
NoticeIsTrue(c) ==
    c.said.notice = "No edges" /\ c.fn \notin Misleading => c.found \intersect EdgeQueries = {}
\* ... the hint is a query that was run ...
HintWasRead(c) == c.said.log \in Queries => c.said.log \in ReadBy(c)
\* ... who has nothing to work on says so ...
EmptinessIsTold(c) ==
    c.pc = "finish" /\ c.found \intersect Essential = {} /\ c.fn \notin Quiet
        => c.said.notice # "none"
\* ... and the hint of an error names the query that is wrong, and no other.
BlameIsRight == error.text = "bad query" => error.hint = error.failed

\* What the client is told is true of the call: the messages are set and reset by
\* some seventy drivers with one pointer named hint, and reported by
\* pgr_global_report (e_report.c:59).
MessagesAreTrue ==
    /\ \A d \in DOMAIN calls : calls[d].pc \in {"report", "finish"} =>
         /\ NoticeIsTrue(calls[d]) /\ HintWasRead(calls[d]) /\ EmptinessIsTold(calls[d])
    /\ BlameIsRight

EndsBefore(c, i) == {j \in 1..(i - 1) : c.rows[j].edge = -1}
FoundBefore(legs, k) == {j \in 1..(k - 1) : legs[j] # <<>>}
\* The rows of every path are numbered from one, and the paths that have rows too; the
\* legs of a route with all the others, those that were not found among them: row i
\* bears the number of a leg that was found, and as many were found before that leg as
\* have ended before the row.
IsNumbered(c, i) ==
    /\ NumbersOf(c) \in {"path_seq", "path_id", "disjoint", "stored"} =>
         c.out[i].seq = i - Max(EndsBefore(c, i) \union {0})
    /\ NumbersOf(c) \in {"path_id", "disjoint"} =>
         c.out[i].path = 1 + Cardinality(EndsBefore(c, i))
    /\ NumbersOf(c) = "stored" =>
         LET k == c.out[i].path
         IN  /\ k \in 1..Len(c.legs) /\ c.legs[k] # <<>>
             /\ Cardinality(FoundBefore(c.legs, k)) = Cardinality(EndsBefore(c, i))

\* The rows that are returned were allocated for this call and by nobody freed,
\* the count is theirs, a row's array outlives the row, and every row is numbered,
\* though it finds its numbers in the row before, whose identifiers were overwritten
\* with them: the tuples cross from the driver's try block over the clean-up of the
\* process to the memory that the set returning function reads and writes call
\* after call (alloc.hpp:70, contractGraph.c:203, ksp.c:173-194).
RowsAreWhole ==
    \A d \in DOMAIN calls : LET c == calls[d] IN
        /\ c.tuples.state # "freed twice"
        /\ c.pc = "rows" /\ c.count > 0 =>
             c.tuples = [state |-> "held", level |-> d] /\ Len(c.rows) = c.count
        /\ \A i \in DOMAIN c.out : c.out[i].own = "held" /\ IsNumbered(c, i)
=============================================================================
