--------------------------- MODULE BackendProofs ---------------------------
(***************************************************************************)
(* The SPI levels are those of the calls that are connected, for every     *)
(* catalogue of functions and every depth, as long as no function that a   *)
(* query calls leaves while it is connected.                               *)
(*                                                                         *)
(* The invariant says how deep the two stacks are: every call but the last *)
(* waits in its driver, so that only the last one can be without a level.  *)
(*                                                                         *)
(* The rows that a call returns are whole: they lie on its level, nobody   *)
(* has freed them, and each has its numbers, though the call counts them   *)
(* from the row before, whose identifiers it overwrote with numbers.       *)
(*                                                                         *)
(* What a call tells is true: a hint is the query that was run last and    *)
(* has not been forgotten since, and past a test for emptiness there is    *)
(* something to work on.                                                   *)
(***************************************************************************)
EXTENDS Backend, FiniteSetTheorems, TLAPS

-----------------------------------------------------------------------------
(* Stacks.                                                                 *)

Members(s) == {s[d] : d \in DOMAIN s}
IsStack(s) == s \in Seq(Members(s))

\* t is s with another top.
TopReplaced(s, t, c) ==
    /\ IsStack(t) /\ Len(t) = Len(s) /\ t[Len(s)] = c
    /\ \A d \in 1..(Len(s) - 1) : t[d] = s[d]
\* t is s and c on it.
Pushed(s, t, c) ==
    /\ IsStack(t) /\ Len(t) = Len(s) + 1 /\ t[Len(s) + 1] = c
    /\ \A d \in 1..Len(s) : t[d] = s[d]
Popped(s, t) ==
    /\ IsStack(t) /\ Len(t) = Len(s) - 1
    /\ \A d \in 1..(Len(s) - 1) : t[d] = s[d]

\* A function on 1..n is a stack.
LEMMA FunctionIsStack ==
    ASSUME NEW n \in Nat, NEW s, s = [d \in 1..n |-> s[d]]
    PROVE  IsStack(s) /\ Len(s) = n
  <1>1. DOMAIN s = 1..n
    OBVIOUS
  <1>2. s \in [1..n -> Members(s)]
    BY <1>1 DEF Members
  <1> QED
    BY <1>2 DEF IsStack

LEMMA EmptyIsStack == IsStack(<<>>) /\ Len(<<>>) = 0
  BY DEF IsStack, Members

\* The top of a stack that is not empty.
LEMMA StackHasTop ==
    ASSUME NEW s, IsStack(s), s # <<>>
    PROVE  Len(s) \in Nat /\ Len(s) > 0 /\ DOMAIN s = 1..Len(s) /\ Last(s) = s[Len(s)]
  BY DEF IsStack, Last

LEMMA Replacing ==
    ASSUME NEW s, NEW c, IsStack(s), s # <<>>
    PROVE  TopReplaced(s, [s EXCEPT ![Len(s)] = c], c)
  <1> DEFINE t == [s EXCEPT ![Len(s)] = c]
  <1>1. Len(s) \in Nat /\ Len(s) > 0 /\ DOMAIN s = 1..Len(s)
    BY StackHasTop
  <1>2. DOMAIN t = 1..Len(s) /\ t = [d \in 1..Len(s) |-> t[d]]
    BY <1>1
  <1>3. IsStack(t) /\ Len(t) = Len(s)
    <2> HIDE DEF t
    <2> QED BY <1>1, <1>2, FunctionIsStack
  <1>4. t[Len(s)] = c /\ \A d \in 1..(Len(s) - 1) : t[d] = s[d]
    BY <1>1
  <1> QED
    BY <1>3, <1>4 DEF TopReplaced

LEMMA Pushing ==
    ASSUME NEW s, NEW c, IsStack(s)
    PROVE  Pushed(s, Append(s, c), c)
  <1> DEFINE t == Append(s, c)
  <1>1. Len(s) \in Nat
    BY DEF IsStack
  <1>2. t \in Seq(Members(s) \union {c}) /\ Len(t) = Len(s) + 1
    <2>1. s \in Seq(Members(s) \union {c}) /\ c \in Members(s) \union {c}
      BY DEF IsStack
    <2> QED BY <2>1
  <1>3. t[Len(s) + 1] = c /\ \A d \in 1..Len(s) : t[d] = s[d]
    BY DEF IsStack
  <1>4. t = [d \in 1..(Len(s) + 1) |-> t[d]]
    <2> HIDE DEF t
    <2> QED BY <1>2
    <1>5. IsStack(t) /\ Len(t) = Len(s) + 1
    <2> HIDE DEF t
    <2> QED BY <1>1, <1>4, FunctionIsStack
  <1> QED
    BY <1>3, <1>5 DEF Pushed

LEMMA Popping ==
    ASSUME NEW s, IsStack(s), s # <<>>
    PROVE  Popped(s, Front(s))
  <1> DEFINE t == Front(s)
  <1>1. Len(s) \in Nat /\ Len(s) > 0 /\ Len(s) - 1 \in Nat
    BY StackHasTop
  <1>2. t = [d \in 1..(Len(s) - 1) |-> s[d]]
    BY <1>1 DEF IsStack, Front
  <1>3. t = [d \in 1..(Len(s) - 1) |-> t[d]] /\ \A d \in 1..(Len(s) - 1) : t[d] = s[d]
    BY <1>2
  <1>4. IsStack(t) /\ Len(t) = Len(s) - 1
    <2> HIDE DEF t
    <2> QED BY <1>1, <1>3, FunctionIsStack
  <1> QED
    BY <1>3, <1>4 DEF Popped

\* So much of Front as the levels need.
LEMMA FrontOfLevels ==
    ASSUME NEW s \in Seq(Nat), Len(s) > 0
    PROVE  /\ Front(s) \in Seq(Nat) /\ Len(Front(s)) = Len(s) - 1
           /\ \A d \in 1..(Len(s) - 1) : Front(s)[d] = s[d]
  <1> DEFINE t == Front(s)
  <1>1. Len(s) \in Nat /\ Len(s) - 1 \in Nat
    OBVIOUS
  <1>2. t = [d \in 1..(Len(s) - 1) |-> s[d]]
    BY <1>1 DEF Front
  <1>3. \A d \in 1..(Len(s) - 1) : s[d] \in Nat
    OBVIOUS
  <1>4. t \in [1..(Len(s) - 1) -> Nat]
    BY <1>2, <1>3
  <1>5. \A d \in 1..(Len(s) - 1) : t[d] = s[d]
    BY <1>2
  <1>6. t \in Seq(Nat) /\ Len(t) = Len(s) - 1
    <2> HIDE DEF t
    <2> QED BY <1>1, <1>4
  <1> QED
    BY <1>5, <1>6

-----------------------------------------------------------------------------
(* The invariant.                                                          *)

\* What the proof needs to know of a call: it has a place and a function.
IsCall(c) == "pc" \in DOMAIN c /\ "fn" \in DOMAIN c

WaitsBelow == \A d \in 1..(Len(calls) - 1) : calls[d].pc = "driver"
CallsInv ==
    /\ IsStack(calls)
    /\ \A d \in 1..Len(calls) : IsCall(calls[d])
    /\ WaitsBelow
    /\ \A d \in 2..Len(calls) : calls[d].fn \in Inner /\ calls[d].pc # "left"

\* How many levels there are.
Depth ==
    IF calls = <<>> THEN 0
    ELSE IF Connected(Top) THEN Len(calls) ELSE Len(calls) - 1
LevelsInv ==
    /\ levels \in Seq(Nat)
    /\ Len(levels) = Depth
    /\ \A d \in 1..Len(levels) : levels[d] = d

LevelsIInv == CallsInv /\ LevelsInv

\* The call c may take the place of the last one.
Follows(c) ==
    /\ IsCall(c) /\ c.fn = Top.fn
    /\ c.pc = "left" => Len(calls) = 1

\* The stacks are thrown away ...
Unwinds == calls' = <<>> /\ levels' = <<>>
\* ... or the last call goes on, connected or not as it was.
Proceeds ==
    /\ calls # <<>>
    /\ \E c : Follows(c) /\ (Connected(c) <=> Connected(Top)) /\ Update(c)
    /\ UNCHANGED levels

LEMMA InitHolds == Init => LevelsIInv
  BY EmptyIsStack DEF Init, LevelsIInv, CallsInv, WaitsBelow, LevelsInv, Depth

LEMMA InvImplies == LevelsIInv => LevelsAreOwn
  <1> SUFFICES ASSUME LevelsIInv PROVE LevelsAreOwn
    OBVIOUS
  <1>1. DOMAIN levels = 1..Len(levels) /\ \A d \in DOMAIN levels : levels[d] = d
    BY DEF LevelsIInv, LevelsInv
  <1>2. CASE calls = <<>>
    BY <1>1, <1>2 DEF LevelsIInv, LevelsInv, Depth, LevelsAreOwn
  <1>3. CASE calls # <<>>
    <2>1. Top = calls[Len(calls)]
      BY <1>3, StackHasTop DEF LevelsIInv, CallsInv, Top
    <2>2. DOMAIN calls = 1..Len(calls)
      BY <1>3, StackHasTop DEF LevelsIInv, CallsInv
    <2>3. Len(calls) \in Nat /\ Len(calls) > 0
      BY <1>3, StackHasTop DEF LevelsIInv, CallsInv
    <2>4. \A d \in 1..(Len(calls) - 1) : Connected(calls[d])
      BY DEF LevelsIInv, CallsInv, WaitsBelow, Connected
    <2>5. Len(levels) = IF Connected(calls[Len(calls)]) THEN Len(calls) ELSE Len(calls) - 1
      BY <1>3, <2>1 DEF LevelsIInv, LevelsInv, Depth
    <2>6. /\ Len(levels) = Len(calls) \/ Len(levels) = Len(calls) - 1
          /\ Len(levels) = Len(calls) <=> Connected(calls[Len(calls)])
      BY <2>3, <2>5 DEF Connected
    <2>7. \A d \in 1..Len(levels) : d \in DOMAIN calls /\ Connected(calls[d])
      <3> SUFFICES ASSUME NEW d \in 1..Len(levels) PROVE d \in DOMAIN calls /\ Connected(calls[d])
        OBVIOUS
      <3>1. d \in 1..Len(calls) /\ (d \in 1..(Len(calls) - 1) \/ d = Len(calls))
        BY <2>3, <2>6
      <3>2. d = Len(calls) => Len(levels) = Len(calls)
        BY <2>3, <2>6
      <3> QED
        BY <2>2, <2>4, <2>6, <3>1, <3>2
    <2>8. \A d \in DOMAIN calls : Connected(calls[d]) => d \in DOMAIN levels
      <3> SUFFICES ASSUME NEW d \in 1..Len(calls), Connected(calls[d]) PROVE d \in 1..Len(levels)
        BY <1>1, <2>2
      <3>1. d \in 1..(Len(calls) - 1) \/ d = Len(calls)
        BY <2>3
      <3> QED
        BY <2>3, <2>6, <3>1
    <2>9. DOMAIN levels = {d \in DOMAIN calls : Connected(calls[d])}
      BY <1>1, <2>7, <2>8
    <2> QED
      BY <1>1, <2>9 DEF LevelsAreOwn
  <1> QED
    BY <1>2, <1>3

LEMMA UnwindsKeeps == Unwinds => LevelsIInv'
  BY EmptyIsStack DEF Unwinds, LevelsIInv, CallsInv, WaitsBelow, LevelsInv, Depth

\* The last call is replaced by c.
LEMMA UpdateKeepsCalls ==
    ASSUME LevelsIInv, calls # <<>>, NEW c, Follows(c), Update(c)
    PROVE  CallsInv' /\ Len(calls') = Len(calls) /\ calls' # <<>> /\ Top' = c
  <1>1. Len(calls) \in Nat /\ Len(calls) > 0 /\ Top = calls[Len(calls)]
    BY StackHasTop DEF LevelsIInv, CallsInv, Top
  <1>2. TopReplaced(calls, calls', c)
    BY Replacing DEF LevelsIInv, CallsInv, Update
  <1>3. IsStack(calls') /\ Len(calls') = Len(calls) /\ calls'[Len(calls)] = c
    BY <1>2 DEF TopReplaced
  <1>4. \A d \in 1..(Len(calls) - 1) : calls'[d] = calls[d]
    BY <1>2 DEF TopReplaced
  <1>5. calls' # <<>> /\ Top' = c
    BY <1>1, <1>3, StackHasTop, EmptyIsStack DEF Top
  <1>6. \A d \in 1..Len(calls') : IsCall(calls'[d])
    BY <1>1, <1>3, <1>4 DEF LevelsIInv, CallsInv, Follows
  <1>7. WaitsBelow'
    BY <1>3, <1>4 DEF LevelsIInv, CallsInv, WaitsBelow
  <1>8. ASSUME NEW d \in 2..Len(calls')
        PROVE  calls'[d].fn \in Inner /\ calls'[d].pc # "left"
    <2>1. calls[d].fn \in Inner /\ calls[d].pc # "left"
      BY <1>3 DEF LevelsIInv, CallsInv
    <2>2. CASE d = Len(calls)
      BY <1>1, <1>3, <2>1, <2>2 DEF Follows
    <2>3. CASE d # Len(calls)
      BY <1>1, <1>3, <1>4, <2>1, <2>3
    <2> QED
      BY <2>2, <2>3
  <1>9. CallsInv'
    BY <1>3, <1>6, <1>7, <1>8 DEF CallsInv
  <1> QED
    BY <1>3, <1>5, <1>9

LEMMA ProceedsKeeps == LevelsIInv /\ Proceeds => LevelsIInv'
  <1> SUFFICES ASSUME LevelsIInv, Proceeds PROVE LevelsIInv'
    OBVIOUS
  <1>1. PICK c : Follows(c) /\ (Connected(c) <=> Connected(Top)) /\ Update(c)
    BY DEF Proceeds
  <1>2. calls # <<>> /\ levels' = levels
    BY DEF Proceeds
  <1>3. CallsInv' /\ Len(calls') = Len(calls) /\ calls' # <<>> /\ Top' = c
    BY <1>1, <1>2, UpdateKeepsCalls
  <1>4. Depth' = Depth
    BY <1>1, <1>2, <1>3 DEF Depth, Connected
  <1>5. LevelsInv'
    BY <1>2, <1>4 DEF LevelsIInv, LevelsInv
  <1> QED
    BY <1>3, <1>5 DEF LevelsIInv

-----------------------------------------------------------------------------
(* The actions.  The steps of a driver stay in it or leave it for good.    *)

Drives ==
    \/ Unwinds
    \/ /\ InDriver
       /\ \E c : IsCall(c) /\ c.fn = Top.fn /\ c.pc \in {"driver", "drop"} /\ Update(c)
       /\ UNCHANGED levels

LEMMA DrivesKeeps == LevelsIInv /\ Drives => LevelsIInv'
  <1> SUFFICES ASSUME LevelsIInv, Drives PROVE LevelsIInv'
    OBVIOUS
  <1>1. CASE Unwinds
    BY <1>1, UnwindsKeeps
  <1>2. CASE ~Unwinds
    <2>1. calls # <<>> /\ Connected(Top) /\ UNCHANGED levels
      BY <1>2 DEF Drives, InDriver, Connected
    <2>2. PICK c : IsCall(c) /\ c.fn = Top.fn /\ c.pc \in {"driver", "drop"} /\ Update(c)
      BY <1>2 DEF Drives
    <2>3. Follows(c) /\ Connected(c)
      BY <2>2 DEF Follows, Connected
    <2>4. Proceeds
      BY <2>1, <2>2, <2>3 DEF Proceeds
    <2> QED
      BY <2>4, ProceedsKeeps
  <1> QED
    BY <1>1, <1>2

\* An ERROR is raised, the driver goes on with a call, or it leaves with one.
LEMMA RaiseDrives ==
    ASSUME NEW text, NEW hint, Raise(text, hint)
    PROVE  Unwinds
  BY DEF Raise, Unwinds

\* A call that is the last one but for what it knows.
Alike(c) == IsCall(c) /\ c.fn = Top.fn /\ c.pc = Top.pc

LEMMA GoOnDrives ==
    ASSUME NEW c, Alike(c), InDriver, GoOn(c)
    PROVE  Drives
  <1> DEFINE t == [c EXCEPT !.at = @ + 1]
  <1>1. IsCall(t) /\ t.fn = Top.fn /\ t.pc = "driver"
    BY DEF Alike, IsCall, InDriver
  <1>2. Update(t) /\ UNCHANGED levels
    BY DEF GoOn
  <1> HIDE DEF t
  <1> QED
    BY <1>1, <1>2 DEF Drives

LEMMA LeaveDrives ==
    ASSUME NEW c, Alike(c), InDriver, Leave(c)
    PROVE  Drives
  <1> DEFINE t == [c EXCEPT !.pc = "drop"]
  <1>1. IsCall(t) /\ t.fn = Top.fn /\ t.pc = "drop"
    BY DEF Alike, IsCall
  <1>2. Update(t) /\ UNCHANGED levels
    BY DEF Leave
  <1> HIDE DEF t
  <1> QED
    BY <1>1, <1>2 DEF Drives

\* What the steps make of a call is like it.
LEMMA TopIsCall ==
    ASSUME LevelsIInv, calls # <<>>
    PROVE  IsCall(Top) /\ Alike(Top)
  <1>1. Top = calls[Len(calls)]
    BY StackHasTop DEF LevelsIInv, CallsInv, Top
  <1>2. Len(calls) \in Nat /\ Len(calls) > 0
    BY StackHasTop DEF LevelsIInv, CallsInv
  <1>3. IsCall(calls[Len(calls)])
    BY <1>2 DEF LevelsIInv, CallsInv
  <1> QED
    BY <1>1, <1>3 DEF Alike

LEMMA ThrownAlike ==
    ASSUME NEW c, NEW q, Alike(c)
    PROVE  Alike(Thrown(c, q))
  BY DEF Alike, IsCall, Thrown

LEMMA CaughtAlike ==
    ASSUME NEW c, NEW how, Alike(c)
    PROVE  Alike(Caught(c, how))
  BY DEF Alike, IsCall, Caught

LEMMA FilledAlike ==
    ASSUME NEW c, Alike(c)
    PROVE  Alike(Filled(c))
  BY DEF Alike, IsCall, Filled

LEMMA DriverNextDrives == LevelsIInv /\ DriverNext => Drives
  <1> SUFFICES ASSUME LevelsIInv, DriverNext PROVE Drives
    OBVIOUS
  <1>1. InDriver /\ IsCall(Top) /\ Alike(Top)
    <2>1. InDriver
      BY DEF DriverNext, ReadRows, ReadNothing, ReadThrows, ReadArrays, Abort, Forgotten,
             StopEarly, NoteOnly, ThrowEarly, CheckData, Find, NothingFound,
             FillTuples, FillFirst, TellMessages, Return, At
    <2> QED
      BY <2>1, TopIsCall DEF InDriver
  <1>2. CASE ReadRows
    <2> DEFINE c == [Top EXCEPT !.hint = HintOf(Top, Step.of), !.found = @ \union {Step.of}]
    <2>1. Alike(c)
      BY <1>1 DEF Alike, IsCall
    <2>2. GoOn(c)
      BY <1>2 DEF ReadRows
    <2> QED
      BY <1>1, <2>1, <2>2, GoOnDrives
  <1>3. CASE ReadNothing
    <2> DEFINE c == [Top EXCEPT !.hint = IF Asked(Step.of) THEN HintOf(Top, Step.of) ELSE "none"]
    <2>1. Alike(c)
      BY <1>1 DEF Alike, IsCall
    <2>2. GoOn(c)
      BY <1>3 DEF ReadNothing
    <2> QED
      BY <1>1, <2>1, <2>2, GoOnDrives
  <1>4. CASE ReadThrows
    <2> DEFINE c == [Top EXCEPT !.hint = HintOf(Top, Step.of)]
    <2>1. Alike(c)
      BY <1>1 DEF Alike, IsCall
    <2>2. Leave(Thrown(c, Step.of))
      BY <1>4 DEF ReadThrows
    <2> HIDE DEF c
    <2> QED
      BY <1>1, <2>1, <2>2, ThrownAlike, LeaveDrives
  <1>5. CASE ReadArrays
    BY <1>1, <1>5, GoOnDrives, LeaveDrives, ThrownAlike DEF ReadArrays
  <1>6. CASE Abort
    BY <1>6, RaiseDrives DEF Abort, Drives
  <1>7. CASE Forgotten
    <2> DEFINE c == [Top EXCEPT !.hint = "none"]
    <2>1. Alike(c)
      BY <1>1 DEF Alike, IsCall
    <2>2. GoOn(c)
      BY <1>7 DEF Forgotten
    <2> QED
      BY <1>1, <2>1, <2>2, GoOnDrives
  <1>8. CASE StopEarly
    <2> DEFINE c == [Top EXCEPT !.said.notice = Step.notice, !.said.log = Resolved(Step.log)]
    <2>1. Alike(c)
      BY <1>1 DEF Alike, IsCall
    <2>2. Leave(c) \/ GoOn(Top)
      BY <1>8 DEF StopEarly
    <2> HIDE DEF c
    <2> QED
      BY <1>1, <2>1, <2>2, GoOnDrives, LeaveDrives
  <1>9. CASE NoteOnly
    <2> DEFINE c == [Top EXCEPT !.said.notice = Step.notice, !.said.log = Step.log]
    <2>1. Alike(c)
      BY <1>1 DEF Alike, IsCall
    <2>2. GoOn(c) \/ GoOn(Top)
      BY <1>9 DEF NoteOnly
    <2> HIDE DEF c
    <2> QED
      BY <1>1, <2>1, <2>2, GoOnDrives
  <1>10. CASE ThrowEarly
    <2> DEFINE c == [Top EXCEPT !.said.err = "No edges", !.said.log = Top.hint]
    <2>1. Alike(c)
      BY <1>1 DEF Alike, IsCall
    <2>2. Leave(c) \/ GoOn(Top)
      BY <1>10 DEF ThrowEarly
    <2> HIDE DEF c
    <2> QED
      BY <1>1, <2>1, <2>2, GoOnDrives, LeaveDrives
  <1>11. CASE CheckData
    <2> DEFINE c == [Top EXCEPT !.said.err = "bad data"]
    <2>1. Alike(c)
      BY <1>1 DEF Alike, IsCall
    <2>2. Leave(c) \/ GoOn(Top)
      BY <1>11 DEF CheckData
    <2> HIDE DEF c
    <2> QED
      BY <1>1, <2>1, <2>2, GoOnDrives, LeaveDrives
  <1>12. CASE Find
    <2>1. CASE \E answer \in AnswersOf(Top.fn) : GoOn([Top EXCEPT !.answer = answer])
      <3>1. PICK answer \in AnswersOf(Top.fn) : GoOn([Top EXCEPT !.answer = answer])
        BY <2>1
      <3>2. Alike([Top EXCEPT !.answer = answer])
        BY <1>1 DEF Alike, IsCall
      <3> QED
        BY <1>1, <3>1, <3>2, GoOnDrives
    <2>2. CASE Leave(Caught(Top, "pgr_free"))
      BY <1>1, <2>2, CaughtAlike, LeaveDrives
    <2> QED
      BY <1>12, <2>1, <2>2 DEF Find
  <1>13. CASE NothingFound
    <2> DEFINE c == [Top EXCEPT !.said.notice = Replaced(@, Step.notice),
                                !.said.log = Replaced(@, Step.log),
                                !.said.err = Replaced(@, Step.err)]
    <2>1. Alike(c)
      BY <1>1 DEF Alike, IsCall
    <2>2. Leave(c) \/ GoOn(Top)
      BY <1>13 DEF NothingFound
    <2> HIDE DEF c
    <2> QED
      BY <1>1, <2>1, <2>2, GoOnDrives, LeaveDrives
  <1>14. CASE FillTuples
    BY <1>1, <1>14, FilledAlike, CaughtAlike, GoOnDrives, LeaveDrives DEF FillTuples
  <1>15. CASE FillFirst
    BY <1>1, <1>15, FilledAlike, GoOnDrives, LeaveDrives DEF FillFirst
  <1>16. CASE TellMessages
    <2> DEFINE c == [Top EXCEPT !.said.notice = "none", !.said.log = "none"]
    <2>1. Alike(c)
      BY <1>1 DEF Alike, IsCall
    <2>2. GoOn(c)
      BY <1>16 DEF TellMessages
    <2> QED
      BY <1>1, <2>1, <2>2, GoOnDrives
  <1>17. CASE Return
    BY <1>1, <1>17, LeaveDrives DEF Return
  <1> QED
    BY <1>2, <1>3, <1>4, <1>5, <1>6, <1>7, <1>8, <1>9, <1>10, <1>11, <1>12, <1>13,
       <1>14, <1>15, <1>16, <1>17 DEF DriverNext

-----------------------------------------------------------------------------
(* The actions of a process.                                               *)

LEMMA CallKeeps == LevelsIInv /\ Call => LevelsIInv'
  <1> SUFFICES ASSUME LevelsIInv, Call PROVE LevelsIInv'
    OBVIOUS
  <1>0. PICK f \in DOMAIN Catalogue : \E g \in Catalogue[f].forms :
          /\ calls = <<>> \/ (At("read") /\ f \in Inner)
          /\ calls' = Append(calls, New(f, g))
    BY DEF Call
  <1>1. PICK g \in Catalogue[f].forms :
          /\ calls = <<>> \/ (At("read") /\ f \in Inner)
          /\ calls' = Append(calls, New(f, g))
    BY <1>0
  <1>2. levels' = levels
    BY DEF Call
  <1> DEFINE c == New(f, g)
  <1>3. IsCall(c) /\ c.fn = f /\ c.pc = "called"
    BY DEF IsCall, New
  <1> HIDE DEF c
  <1>4. Pushed(calls, calls', c)
    BY <1>1, Pushing DEF LevelsIInv, CallsInv, c
  <1>5. IsStack(calls') /\ Len(calls') = Len(calls) + 1 /\ calls'[Len(calls) + 1] = c
    BY <1>4 DEF Pushed
  <1>6. \A d \in 1..Len(calls) : calls'[d] = calls[d]
    BY <1>4 DEF Pushed
  <1>7. Len(calls) \in Nat
    BY DEF LevelsIInv, CallsInv, IsStack
  <1>8. calls' # <<>> /\ Top' = c
    BY <1>5, <1>7, StackHasTop, EmptyIsStack DEF Top
  <1>9. /\ Depth = Len(calls)
        /\ \A d \in 1..Len(calls) : calls[d].pc = "driver"
    <2>1. CASE calls = <<>>
      BY <2>1, EmptyIsStack DEF Depth
    <2>2. CASE calls # <<>>
      <3>1. Top.pc = "driver"
        BY <1>1, <2>2 DEF At, InDriver
      <3>2. Top = calls[Len(calls)]
        BY <2>2, StackHasTop DEF LevelsIInv, CallsInv, Top
      <3>3. \A d \in 1..(Len(calls) - 1) : calls[d].pc = "driver"
        BY DEF LevelsIInv, CallsInv, WaitsBelow
      <3> QED
        BY <1>7, <2>2, <3>1, <3>2, <3>3 DEF Depth, Connected
    <2> QED
      BY <2>1, <2>2
  <1>10. Depth' = Len(calls)
    BY <1>3, <1>5, <1>7, <1>8 DEF Depth, Connected
  <1>11. LevelsInv'
    BY <1>2, <1>9, <1>10 DEF LevelsIInv, LevelsInv
  <1>12. \A d \in 1..Len(calls') : IsCall(calls'[d])
    BY <1>3, <1>5, <1>6, <1>7 DEF LevelsIInv, CallsInv
  <1>13. WaitsBelow'
    BY <1>5, <1>6, <1>7, <1>9 DEF WaitsBelow
  <1>14. ASSUME NEW d \in 2..Len(calls')
         PROVE  calls'[d].fn \in Inner /\ calls'[d].pc # "left"
    <2>1. CASE d = Len(calls')
      <3>1. calls # <<>>
        BY <1>5, <2>1, EmptyIsStack
      <3>2. f \in Inner
        BY <1>1, <3>1
      <3> QED
        BY <1>3, <1>5, <2>1, <3>2
    <2>2. CASE d # Len(calls')
      BY <1>5, <1>6, <1>7, <2>2 DEF LevelsIInv, CallsInv
    <2> QED
      BY <2>1, <2>2
  <1>15. CallsInv'
    BY <1>5, <1>12, <1>13, <1>14 DEF CallsInv
  <1> QED
    BY <1>11, <1>15 DEF LevelsIInv

\* A level is pushed for the last call, which had none.
LEMMA ConnectKeeps == LevelsIInv /\ pgr_SPI_connect => LevelsIInv'
  <1> SUFFICES ASSUME LevelsIInv, pgr_SPI_connect PROVE LevelsIInv'
    OBVIOUS
  <1> DEFINE c == [Top EXCEPT !.pc = "driver"]
  <1>1. calls # <<>> /\ Top.pc = "called" /\ IsCall(Top)
    BY TopIsCall DEF pgr_SPI_connect, Called
  <1>2. IsCall(c) /\ c.fn = Top.fn /\ c.pc = "driver"
    BY <1>1 DEF IsCall
  <1>3. Update(c) /\ levels' = Append(levels, Len(calls))
    BY DEF pgr_SPI_connect
  <1> HIDE DEF c
  <1>4. CallsInv' /\ Len(calls') = Len(calls) /\ calls' # <<>> /\ Top' = c
    BY <1>1, <1>2, <1>3, UpdateKeepsCalls DEF Follows
  <1>5. Len(calls) \in Nat
    BY DEF LevelsIInv, CallsInv, IsStack
  <1>6. Len(levels) = Len(calls) - 1
    BY <1>1 DEF LevelsIInv, LevelsInv, Depth, Connected
  <1>7. Depth' = Len(calls)
    BY <1>2, <1>4 DEF Depth, Connected
  <1>8. levels \in Seq(Nat) /\ \A d \in 1..Len(levels) : levels[d] = d
    BY DEF LevelsIInv, LevelsInv
  <1>9. levels' \in Seq(Nat) /\ Len(levels') = Len(levels) + 1
    BY <1>3, <1>5, <1>8
  <1>10. \A d \in 1..Len(levels') : levels'[d] = d
    BY <1>3, <1>5, <1>6, <1>8, <1>9
  <1>11. LevelsInv'
    BY <1>5, <1>6, <1>7, <1>9, <1>10 DEF LevelsInv
  <1> QED
    BY <1>4, <1>11 DEF LevelsIInv

\* The last level is that of the last call, and it is popped.
LEMMA FinishKeeps == LevelsIInv /\ pgr_SPI_finish => LevelsIInv'
  <1> SUFFICES ASSUME LevelsIInv, pgr_SPI_finish PROVE LevelsIInv'
    OBVIOUS
  <1> DEFINE c == [Top EXCEPT !.pc = "rows"]
  <1>1. calls # <<>> /\ Top.pc = "finish" /\ IsCall(Top)
    BY TopIsCall DEF pgr_SPI_finish
  <1>2. IsCall(c) /\ c.fn = Top.fn /\ c.pc = "rows"
    BY <1>1 DEF IsCall
  <1>3. Update(c) /\ levels' = Front(levels)
    BY DEF pgr_SPI_finish
  <1> HIDE DEF c
  <1>4. CallsInv' /\ Len(calls') = Len(calls) /\ calls' # <<>> /\ Top' = c
    BY <1>1, <1>2, <1>3, UpdateKeepsCalls DEF Follows
  <1>5. Len(calls) \in Nat
    BY DEF LevelsIInv, CallsInv, IsStack
  <1>6. Len(levels) = Len(calls)
    BY <1>1 DEF LevelsIInv, LevelsInv, Depth, Connected
  <1>7. Depth' = Len(calls) - 1
    BY <1>2, <1>4 DEF Depth, Connected
  <1>8. levels \in Seq(Nat) /\ \A d \in 1..Len(levels) : levels[d] = d
    BY DEF LevelsIInv, LevelsInv
  <1>9. Len(levels) > 0
    BY <1>8 DEF pgr_SPI_finish
  <1>10. levels' \in Seq(Nat) /\ Len(levels') = Len(levels) - 1
    BY <1>3, <1>8, <1>9, FrontOfLevels
  <1>11. \A d \in 1..(Len(levels) - 1) : levels'[d] = levels[d]
    BY <1>3, <1>8, <1>9, FrontOfLevels
  <1>12. \A d \in 1..Len(levels') : levels'[d] = d
    BY <1>5, <1>6, <1>8, <1>11, <1>10, SMTT(60)
  <1>13. LevelsInv'
    BY <1>6, <1>7, <1>10, <1>12 DEF LevelsInv
  <1> QED
    BY <1>4, <1>13 DEF LevelsIInv

\* return; before and after pgr_SPI_connect.
LEMMA LeaveUnconnectedProceeds == LevelsIInv /\ LeaveUnconnected => Proceeds
  <1> SUFFICES ASSUME LevelsIInv, LeaveUnconnected PROVE Proceeds
    OBVIOUS
  <1> DEFINE c == [Top EXCEPT !.pc = "rows"]
  <1>1. calls # <<>> /\ Top.pc = "called" /\ IsCall(Top)
    BY TopIsCall DEF LeaveUnconnected, Called
  <1>2. IsCall(c) /\ c.fn = Top.fn /\ c.pc = "rows"
    BY <1>1 DEF IsCall
  <1>3. Update(c) /\ UNCHANGED levels
    BY DEF LeaveUnconnected
  <1> HIDE DEF c
  <1> QED
    BY <1>1, <1>2, <1>3 DEF Proceeds, Follows, Connected

LEMMA LeaveConnectedProceeds ==
    ASSUME InnerFinish, LevelsIInv, LeaveConnected
    PROVE  Proceeds
  <1> DEFINE c == [Top EXCEPT !.pc = "left"]
  <1>1. calls # <<>> /\ Top.pc = "driver" /\ IsCall(Top)
    BY TopIsCall DEF LeaveConnected, Starting, InDriver
  <1>2. IsCall(c) /\ c.fn = Top.fn /\ c.pc = "left"
    BY <1>1 DEF IsCall
  <1>3. Update(c) /\ UNCHANGED levels
    BY DEF LeaveConnected
  <1>4. Len(calls) = 1
    <2>1. Top = calls[Len(calls)]
      BY <1>1, StackHasTop DEF LevelsIInv, CallsInv, Top
    <2>2. Len(calls) \in Nat /\ Len(calls) > 0
      BY <1>1, StackHasTop DEF LevelsIInv, CallsInv
    <2>3. Top.fn \notin Inner
      BY DEF InnerFinish, LeaveConnected, ProcessOf
    <2>4. Len(calls) \notin 2..Len(calls)
      BY <2>1, <2>3 DEF LevelsIInv, CallsInv
    <2>5. \A n \in Nat : n > 0 /\ n \notin 2..n => n = 1
      OBVIOUS
    <2> QED
      BY <2>2, <2>4, <2>5, Zenon
  <1> HIDE DEF c
  <1> QED
    BY <1>1, <1>2, <1>3, <1>4 DEF Proceeds, Follows, Connected

LEMMA DropProceeds == LevelsIInv /\ Drop => Proceeds
  <1> SUFFICES ASSUME LevelsIInv, Drop PROVE Proceeds
    OBVIOUS
  <1> DEFINE c == [Dropped(Top) EXCEPT !.pc = "report"]
  <1>1. calls # <<>> /\ Top.pc = "drop" /\ IsCall(Top)
    BY TopIsCall DEF Drop
  <1>2. IsCall(Dropped(Top)) /\ Dropped(Top).fn = Top.fn
    BY <1>1 DEF IsCall, Dropped
  <1>3. IsCall(c) /\ c.fn = Top.fn /\ c.pc = "report"
    BY <1>2 DEF IsCall
  <1>4. Update(c) /\ UNCHANGED levels
    BY DEF Drop
  <1> HIDE DEF c
  <1> QED
    BY <1>1, <1>3, <1>4 DEF Proceeds, Follows, Connected

LEMMA ReportProceeds == LevelsIInv /\ pgr_global_report => Proceeds \/ Unwinds
  <1> SUFFICES ASSUME LevelsIInv, pgr_global_report, ~Unwinds PROVE Proceeds
    OBVIOUS
  <1> DEFINE c == [Top EXCEPT !.pc = "finish"]
  <1>1. calls # <<>> /\ Top.pc = "report" /\ IsCall(Top)
    BY TopIsCall DEF pgr_global_report
  <1>2. IsCall(c) /\ c.fn = Top.fn /\ c.pc = "finish"
    BY <1>1 DEF IsCall
  <1>3. Update(c) /\ UNCHANGED levels
    BY RaiseDrives DEF pgr_global_report
  <1> HIDE DEF c
  <1> QED
    BY <1>1, <1>2, <1>3 DEF Proceeds, Follows, Connected

LEMMA NextRowProceeds == LevelsIInv /\ SRF_RETURN_NEXT => Proceeds
  <1> SUFFICES ASSUME LevelsIInv, SRF_RETURN_NEXT PROVE Proceeds
    OBVIOUS
  <1>1. calls # <<>> /\ Top.pc = "rows" /\ IsCall(Top)
    BY TopIsCall DEF SRF_RETURN_NEXT, Returning
  <1>2. PICK c : IsCall(c) /\ c.fn = Top.fn /\ c.pc = "rows" /\ Update(c)
    <2>1. PICK n \in {Numbered(Top)} :
         Update([Top EXCEPT
            !.nth = @ + 1,
            !.out = Append(@, [path |-> n.path, seq |-> n.seq, own |-> This(Top).own]),
            !.rows = Overwritten(Top, n)])
      BY DEF SRF_RETURN_NEXT
    <2> QED
      BY <1>1, <2>1 DEF IsCall
  <1>3. UNCHANGED levels
    BY DEF SRF_RETURN_NEXT
  <1> QED
    BY <1>1, <1>2, <1>3 DEF Proceeds, Follows, Connected

\* A call that waited in its driver is the last one again, and it has its level.
LEMMA ReturnKeeps == LevelsIInv /\ SRF_RETURN_DONE => LevelsIInv'
  <1> SUFFICES ASSUME LevelsIInv, SRF_RETURN_DONE PROVE LevelsIInv'
    OBVIOUS
  <1>1. calls # <<>> /\ Top.pc \in {"rows", "left"} /\ calls' = Front(calls)
    BY DEF SRF_RETURN_DONE
  <1>2. Len(calls) \in Nat /\ Len(calls) > 0
    BY <1>1, StackHasTop DEF LevelsIInv, CallsInv
  <1>3. Popped(calls, calls')
    BY <1>1, Popping DEF LevelsIInv, CallsInv
  <1>4. IsStack(calls') /\ Len(calls') = Len(calls) - 1
    BY <1>3 DEF Popped
  <1>5. \A d \in 1..(Len(calls) - 1) : calls'[d] = calls[d]
    BY <1>3 DEF Popped
  <1>6. \A d \in 1..Len(calls') : IsCall(calls'[d])
    BY <1>2, <1>4, <1>5 DEF LevelsIInv, CallsInv
  <1>7. \A d \in 1..Len(calls') : calls'[d].pc = "driver"
    BY <1>2, <1>4, <1>5 DEF LevelsIInv, CallsInv, WaitsBelow
  <1>8. \A d \in 2..Len(calls') : calls'[d].fn \in Inner /\ calls'[d].pc # "left"
    BY <1>2, <1>4, <1>5 DEF LevelsIInv, CallsInv
  <1>9. WaitsBelow'
    BY <1>2, <1>4, <1>7 DEF WaitsBelow
  <1>10. CallsInv'
    BY <1>4, <1>6, <1>8, <1>9 DEF CallsInv
  <1>11. LevelsInv'
    <2>1. CASE Len(calls) = 1
      <3>1. levels' = <<>>
        BY <2>1 DEF SRF_RETURN_DONE
      <3>2. calls' = <<>>
        BY <1>4, <2>1 DEF IsStack
      <3> QED
        BY <3>1, <3>2 DEF LevelsInv, Depth
    <2>2. CASE Len(calls) # 1
      <3>1. levels' = levels
        BY <2>2 DEF SRF_RETURN_DONE
      <3>2. Top = calls[Len(calls)]
        BY <1>1, StackHasTop DEF LevelsIInv, CallsInv, Top
      <3>3. Len(calls) \in 2..Len(calls)
        <4>1. \A n \in Nat : n > 0 /\ n # 1 => n >= 2
          OBVIOUS
        <4>2. Len(calls) >= 2
          BY <1>2, <2>2, <4>1, Zenon
        <4> QED
          BY <1>2, <4>2
      <3>4. Top.pc = "rows"
        BY <1>1, <3>2, <3>3 DEF LevelsIInv, CallsInv
      <3>5. Len(levels) = Len(calls) - 1
        BY <1>1, <3>4 DEF LevelsIInv, LevelsInv, Depth, Connected
      <3>6. Len(calls') > 0 /\ Len(calls') \in Nat
        BY <1>2, <1>4, <2>2
      <3>7. calls' # <<>>
        BY <3>6
      <3>8. Top' = calls'[Len(calls')]
        BY <1>4, <3>7, StackHasTop DEF Top
      <3>9. Top'.pc = "driver"
        BY <1>7, <3>6, <3>8
      <3>10. Depth' = Len(calls')
        BY <3>7, <3>9 DEF Depth, Connected
      <3> QED
        BY <1>4, <3>1, <3>5, <3>10 DEF LevelsIInv, LevelsInv
    <2> QED
      BY <2>1, <2>2
  <1> QED
    BY <1>10, <1>11 DEF LevelsIInv

LEMMA NextKeeps ==
    ASSUME InnerFinish, LevelsIInv, [Next]_vars
    PROVE  LevelsIInv'
  <1>1. CASE Call
    BY <1>1, CallKeeps
  <1>2. CASE RefuseArguments
    BY <1>2, RaiseDrives, UnwindsKeeps DEF RefuseArguments
  <1>3. CASE RefuseArgumentsLate
    BY <1>3, RaiseDrives, UnwindsKeeps DEF RefuseArgumentsLate
  <1>4. CASE pgr_SPI_connect
    BY <1>4, ConnectKeeps
  <1>5. CASE LeaveUnconnected
    BY <1>5, LeaveUnconnectedProceeds, ProceedsKeeps
  <1>6. CASE LeaveConnected
    BY <1>6, LeaveConnectedProceeds, ProceedsKeeps
  <1>7. CASE DriverNext
    BY <1>7, DriverNextDrives, DrivesKeeps
  <1>8. CASE Drop
    BY <1>8, DropProceeds, ProceedsKeeps
  <1>9. CASE pgr_global_report
    BY <1>9, ReportProceeds, ProceedsKeeps, UnwindsKeeps
  <1>10. CASE pgr_SPI_finish
    BY <1>10, FinishKeeps
  <1>11. CASE SRF_RETURN_NEXT
    BY <1>11, NextRowProceeds, ProceedsKeeps
  <1>12. CASE SRF_RETURN_DONE
    BY <1>12, ReturnKeeps
  <1>13. CASE UNCHANGED vars
    BY <1>13 DEF vars, LevelsIInv, CallsInv, WaitsBelow, LevelsInv, Depth, Top
  <1> QED
    BY <1>1, <1>2, <1>3, <1>4, <1>5, <1>6, <1>7, <1>8, <1>9, <1>10, <1>11, <1>12, <1>13 DEF Next

-----------------------------------------------------------------------------

\* The SPI levels are those of the calls that are connected, in their order, whatever
\* the functions of the catalogue do in their drivers and however deep the calls are,
\* as long as no function that a query calls returns between pgr_SPI_connect and
\* pgr_SPI_finish (ksp.c:65-68 does): SPI_finish (postgres_connection.c:56) never pops
\* the level of a caller, and rows are allocated on the level of their own call.
THEOREM LevelsAreOwnTheorem ==
    ASSUME InnerFinish
    PROVE  Spec => []LevelsAreOwn
  <1>1. Init => LevelsIInv
    BY InitHolds
  <1>2. LevelsIInv /\ [Next]_vars => LevelsIInv'
    BY NextKeeps
  <1>3. LevelsIInv => LevelsAreOwn
    BY InvImplies
  <1> QED
    BY <1>1, <1>2, <1>3, PTL DEF Spec

-----------------------------------------------------------------------------
(* Rows.  Where a row lies in its path, and which path that is, follows    *)
(* from where the paths before it end.                                     *)

Row == [edge : Int, own : {"held", "freed"}, start : Int, end : Int]

\* EndsBefore, of rows.
Ends(rows, i) == {j \in 1..(i - 1) : rows[j].edge = -1}
PathNo(rows, i) == 1 + Cardinality(Ends(rows, i))
\* The row i is the p-th of its path.
IsPlace(rows, i, p) ==
    /\ p \in 1..i
    /\ p < i => rows[i - p].edge = -1
    /\ \A j \in (i - p + 1)..(i - 1) : rows[j].edge # -1

\* The place is what the property counts from the last end.
LEMMA PlaceIsCounted ==
    ASSUME NEW rows, NEW i \in Nat \ {0}, NEW p, IsPlace(rows, i, p)
    PROVE  p = i - Max(Ends(rows, i) \union {0})
  <1> DEFINE S == Ends(rows, i) \union {0}
             m == i - p
  <1>1. p \in 1..i /\ m \in 0..(i - 1) /\ i - m = p
    BY DEF IsPlace
  <1>2. m \in S
    <2>1. CASE p < i
      <3>1. m \in 1..(i - 1) /\ rows[m].edge = -1
        BY <1>1, <2>1 DEF IsPlace
      <3> QED
        BY <3>1 DEF Ends
    <2>2. CASE p = i
      BY <2>2
    <2> QED
      BY <1>1, <2>1, <2>2
  <1>3. ASSUME NEW y \in S PROVE y \in Int /\ m >= y
    <2>1. CASE y = 0
      BY <1>1, <2>1
    <2>2. CASE y \in Ends(rows, i)
      <3>1. y \in 1..(i - 1) /\ rows[y].edge = -1
        BY <2>2 DEF Ends
      <3>2. y \notin (m + 1)..(i - 1)
        BY <3>1 DEF IsPlace
      <3> QED
        BY <1>1, <3>1, <3>2
    <2> QED
      BY <2>1, <2>2
  <1> HIDE DEF m, S
  <1>4. m \in Int
    BY <1>1
  <1>5. \A x \in S : (\A y \in S : x >= y) => x = m
    BY <1>2, <1>3, <1>4
  <1>6. Max(S) = m
    BY <1>2, <1>3, <1>5 DEF Max
  <1> QED
    BY <1>1, <1>6 DEF S

\* The first row is the first of its path.
LEMMA FirstPlace == ASSUME NEW rows PROVE IsPlace(rows, 1, 1)
  BY DEF IsPlace

\* Behind the end of a path the places start again, elsewhere they go up by one.
LEMMA NextPlace ==
    ASSUME NEW rows, NEW i \in Nat \ {0}
    PROVE  /\ rows[i].edge = -1 => IsPlace(rows, i + 1, 1)
           /\ \A p : IsPlace(rows, i, p) /\ rows[i].edge # -1 => IsPlace(rows, i + 1, p + 1)
  <1>1. ASSUME rows[i].edge = -1 PROVE IsPlace(rows, i + 1, 1)
    BY <1>1 DEF IsPlace
  <1>2. ASSUME NEW p, IsPlace(rows, i, p), rows[i].edge # -1
        PROVE  IsPlace(rows, i + 1, p + 1)
    <2>1. p \in 1..i /\ (p < i => rows[i - p].edge = -1)
      BY <1>2 DEF IsPlace
    <2>2. (i + 1) - (p + 1) = i - p /\ p + 1 \in 1..(i + 1) /\ (p + 1 < i + 1 <=> p < i)
      BY <2>1
    <2>3. ASSUME NEW j \in ((i + 1) - (p + 1) + 1)..((i + 1) - 1) PROVE rows[j].edge # -1
      <3>1. j = i \/ j \in (i - p + 1)..(i - 1)
        BY <2>1
      <3> QED
        BY <1>2, <3>1 DEF IsPlace
    <2> QED
      BY <2>1, <2>2, <2>3 DEF IsPlace
  <1> QED
    BY <1>1, <1>2

\* The number of a path goes up by one behind its last row.
LEMMA EndsCounted ==
    ASSUME NEW rows, NEW i \in Nat \ {0}
    PROVE  /\ PathNo(rows, 1) = 1 /\ PathNo(rows, i) \in Nat
           /\ Cardinality(Ends(rows, i)) \in Nat
           /\ PathNo(rows, i + 1) = IF rows[i].edge = -1 THEN PathNo(rows, i) + 1
                                                         ELSE PathNo(rows, i)
  <1>1. Ends(rows, 1) = {}
    BY DEF Ends
  <1>2. Cardinality(Ends(rows, 1)) = 0
    BY <1>1, FS_EmptySet
  <1>3. IsFiniteSet(Ends(rows, i)) /\ Cardinality(Ends(rows, i)) \in Nat
    <2>1. IsFiniteSet(1..(i - 1))
      BY FS_Interval
    <2>2. Ends(rows, i) \subseteq 1..(i - 1)
      BY DEF Ends
    <2> QED
      BY <2>1, <2>2, FS_Subset, FS_CardinalityType
  <1>4. CASE rows[i].edge = -1
    <2>1. Ends(rows, i + 1) = Ends(rows, i) \union {i} /\ i \notin Ends(rows, i)
      BY <1>4 DEF Ends
    <2>2. Cardinality(Ends(rows, i + 1)) = Cardinality(Ends(rows, i)) + 1
      BY <1>3, <2>1, FS_AddElement
    <2> QED
      BY <1>2, <1>3, <1>4, <2>2 DEF PathNo
  <1>5. CASE rows[i].edge # -1
    <2>1. Ends(rows, i + 1) = Ends(rows, i)
      BY <1>5 DEF Ends
    <2> QED
      BY <1>2, <1>3, <1>5, <2>1 DEF PathNo
  <1> QED
    BY <1>4, <1>5

\* The number of a path among those that were found, and it goes up by one behind
\* every one of them.
FoundNo(legs, k) == 1 + Cardinality(FoundBefore(legs, k))
LEMMA FoundCounted ==
    ASSUME NEW legs, NEW k \in Nat \ {0}
    PROVE  /\ FoundNo(legs, 1) = 1 /\ FoundNo(legs, k) \in Nat
           /\ FoundNo(legs, k + 1) = IF legs[k] # <<>> THEN FoundNo(legs, k) + 1
                                                      ELSE FoundNo(legs, k)
           /\ Cardinality(FoundBefore(legs, k)) \in Nat
  <1>1. Cardinality(FoundBefore(legs, 1)) = 0
    <2>1. FoundBefore(legs, 1) = {}
      BY DEF FoundBefore
    <2> QED
      BY <2>1, FS_EmptySet
  <1>2. IsFiniteSet(FoundBefore(legs, k)) /\ Cardinality(FoundBefore(legs, k)) \in Nat
    <2>1. IsFiniteSet(1..(k - 1))
      BY FS_Interval
    <2>2. FoundBefore(legs, k) \subseteq 1..(k - 1)
      BY DEF FoundBefore
    <2> QED
      BY <2>1, <2>2, FS_Subset, FS_CardinalityType
  <1>3. CASE legs[k] # <<>>
    <2>1. FoundBefore(legs, k + 1) = FoundBefore(legs, k) \union {k} /\ k \notin FoundBefore(legs, k)
      BY <1>3 DEF FoundBefore
    <2>2. Cardinality(FoundBefore(legs, k + 1)) = Cardinality(FoundBefore(legs, k)) + 1
      BY <1>2, <2>1, FS_AddElement
    <2> QED
      BY <1>1, <1>2, <1>3, <2>2 DEF FoundNo
  <1>4. CASE legs[k] = <<>>
    <2>1. FoundBefore(legs, k + 1) = FoundBefore(legs, k)
      BY <1>4 DEF FoundBefore
    <2> QED
      BY <1>1, <1>2, <1>4, <2>1 DEF FoundNo
  <1> QED
    BY <1>3, <1>4

\* Where no path ends, as many have ended before.
LEMMA NoEndsBetween ==
    ASSUME NEW rows, NEW i \in Nat \ {0}, NEW k \in Nat \ {0}, k <= i,
           \A e \in k..(i - 1) : rows[e].edge # -1
    PROVE  Ends(rows, i) = Ends(rows, k)
  <1>1. \A e \in 1..(i - 1) : rows[e].edge = -1 => e \in 1..(k - 1)
    OBVIOUS
  <1>2. 1..(k - 1) \subseteq 1..(i - 1)
    OBVIOUS
  <1> QED
    BY <1>1, <1>2 DEF Ends

\* Both depend on nothing but the edges before the row.
LEMMA SameEnds ==
    ASSUME NEW r, NEW s, NEW i \in Nat \ {0}, \A j \in 1..(i - 1) : r[j].edge = s[j].edge
    PROVE  /\ Ends(r, i) = Ends(s, i) /\ PathNo(r, i) = PathNo(s, i)
           /\ \A p : IsPlace(r, i, p) => IsPlace(s, i, p)
  <1>1. Ends(r, i) = Ends(s, i)
    BY DEF Ends
  <1>2. ASSUME NEW p, IsPlace(r, i, p) PROVE IsPlace(s, i, p)
    <2>1. p \in 1..i
      BY <1>2 DEF IsPlace
    <2>2. p < i => i - p \in 1..(i - 1)
      BY <2>1
    <2>3. (i - p + 1)..(i - 1) \subseteq 1..(i - 1)
      BY <2>1
    <2> QED
      BY <1>2, <2>1, <2>2, <2>3 DEF IsPlace
  <1> QED
    BY <1>1, <1>2 DEF PathNo

-----------------------------------------------------------------------------
(* The rows of the paths, one after the other.                             *)

\* Nothing is freed, and a negative edge ends a path.
Held(x) == x \in Seq(Row) /\ \A i \in 1..Len(x) : x[i].own = "held"
Ended(x) == \A i \in 1..Len(x) : x[i].edge < 0 => x[i].edge = -1
\* The rows of a path, numbered from zero as the driver does, with the path; it may
\* have none.
IsPart(k, y) ==
    \A i \in 1..Len(y) :
      y[i].start = k /\ y[i].end = i - 1 /\ (y[i].edge = -1 <=> i = Len(y))
\* The rows know their path, among all of them, and their place ...
IsOfLeg(legs, x, i) ==
    /\ x[i].start \in 1..Len(legs) /\ legs[x[i].start] # <<>>
    /\ FoundNo(legs, x[i].start) = PathNo(x, i)
    /\ IsPlace(x, i, x[i].end + 1)
Stored(legs, x) == \A i \in 1..Len(x) : IsOfLeg(legs, x, i)
\* ... and as many of the first n as were found have ended.
Complete(legs, n, x) ==
    PathNo(x, Len(x) + 1) = FoundNo(legs, n + 1) /\ IsPlace(x, Len(x) + 1, 1)

\* Rows one after the other are rows, and none is freed.
LEMMA Joined ==
    ASSUME NEW x, NEW y, Held(x), Held(y)
    PROVE  /\ Held(x \o y) /\ Len(x \o y) = Len(x) + Len(y)
           /\ \A i \in 1..Len(x) : (x \o y)[i] = x[i]
           /\ \A i \in 1..Len(y) : (x \o y)[Len(x) + i] = y[i]
           /\ Ended(x) /\ Ended(y) => Ended(x \o y)
  <1> DEFINE z == x \o y
  <1>1. x \in Seq(Row) /\ y \in Seq(Row) /\ Len(x) \in Nat /\ Len(y) \in Nat
    BY DEF Held
  <1>2. z \in Seq(Row) /\ Len(z) = Len(x) + Len(y)
    BY <1>1
  <1>3. \A i \in 1..Len(x) : z[i] = x[i]
    BY <1>1
  <1>4. ASSUME NEW i \in 1..Len(y) PROVE z[Len(x) + i] = y[i]
    <2>1. Len(x) + i \in 1..(Len(x) + Len(y)) /\ ~(Len(x) + i <= Len(x)) /\ (Len(x) + i) - Len(x) = i
      BY <1>1
    <2> QED
      BY <1>1, <2>1
  <1>5. ASSUME NEW i \in 1..Len(z)
        PROVE  i \in 1..Len(x) \/ \E j \in 1..Len(y) : i = Len(x) + j
    <2>1. i \in 1..Len(x) \/ (i - Len(x) \in 1..Len(y) /\ i = Len(x) + (i - Len(x)))
      BY <1>1, <1>2
    <2> QED
      BY <2>1
  <1> HIDE DEF z
  <1>6. Held(z)
    BY <1>2, <1>3, <1>4, <1>5, ZenonT(60) DEF Held
  <1>7. Ended(x) /\ Ended(y) => Ended(z)
    BY <1>3, <1>4, <1>5, ZenonT(60) DEF Ended
  <1> QED
    BY <1>2, <1>3, <1>4, <1>6, <1>7 DEF z

\* One path more.
LEMMA JoinedStored ==
    ASSUME NEW legs, NEW x, NEW y, NEW k \in 1..Len(legs), Len(legs) \in Nat,
           legs[k] = y, Held(x), Held(y),
           Stored(legs, x), Complete(legs, k - 1, x), IsPart(k, y)
    PROVE  Stored(legs, x \o y) /\ Complete(legs, k, x \o y)
  <1>0. PICK z, n, m : z = x \o y /\ n = Len(x) /\ m = Len(y)
    OBVIOUS
  <1>a. k \in Nat \ {0}
    OBVIOUS
  <1>1. n \in Nat /\ m \in Nat /\ x \in Seq(Row) /\ y \in Seq(Row)
    BY <1>0 DEF Held
  <1>2. /\ Len(z) = n + m
        /\ \A i \in 1..n : z[i] = x[i]
        /\ \A i \in 1..m : z[n + i] = y[i]
    BY <1>0, Joined
  <1>3. \A i \in 1..m : y[i].start = k /\ y[i].end = i - 1 /\ (y[i].edge = -1 <=> i = m)
    BY <1>0 DEF IsPart
  <1>4. PathNo(x, n + 1) = FoundNo(legs, k) /\ IsPlace(x, n + 1, 1)
    <2>1. (k - 1) + 1 = k
      BY <1>a
    <2> QED
      BY <1>0, <2>1 DEF Complete
  <1>b. CASE m = 0
    <2>1. y = <<>> /\ z = x
      <3>1. Len(y) = 0
        BY <1>0, <1>b
      <3>2. y = <<>>
        BY <1>1, <3>1
      <3>3. x \o <<>> = x
        BY <1>1
      <3> QED
        BY <1>0, <3>2, <3>3
    <2>2. FoundNo(legs, k + 1) = FoundNo(legs, k)
      BY <1>a, <2>1, FoundCounted
    <2> QED
      BY <1>0, <1>4, <2>1, <2>2 DEF Complete
  <1>c. CASE m > 0
    <2>0. y # <<>>
      BY <1>0, <1>c
    <2>f. FoundNo(legs, k) \in Nat /\ FoundNo(legs, k + 1) = FoundNo(legs, k) + 1
      BY <1>a, <2>0, FoundCounted
    <2>1. ASSUME NEW i \in 1..(n + 1)
          PROVE  PathNo(z, i) = PathNo(x, i) /\ \A p : IsPlace(x, i, p) => IsPlace(z, i, p)
      <3>1. \A j \in 1..(i - 1) : x[j].edge = z[j].edge
        BY <1>1, <1>2
      <3>2. i \in Nat \ {0}
        BY <1>1
      <3> QED
        BY <3>1, <3>2, SameEnds
    <2>2. PathNo(z, n + 1) = FoundNo(legs, k) /\ IsPlace(z, n + 1, 1)
      BY <1>1, <1>4, <2>1
    <2>3. ASSUME NEW i \in 1..m
          PROVE  PathNo(z, n + i) = FoundNo(legs, k) /\ IsPlace(z, n + i, i)
      <3>1. \A j \in (n + 1)..(n + i - 1) : z[j].edge # -1
        <4> SUFFICES ASSUME NEW j \in (n + 1)..(n + i - 1) PROVE z[j].edge # -1
          OBVIOUS
        <4>1. j - n \in 1..m /\ j - n # m /\ n + (j - n) = j
          BY <1>1
        <4> QED
          BY <1>2, <1>3, <4>1
      <3>2. Ends(z, n + i) = Ends(z, n + 1)
        <4>1. n + 1 \in Nat \ {0} /\ n + i \in Nat \ {0} /\ n + 1 <= n + i
          BY <1>1
        <4>2. \A e \in (n + 1)..((n + i) - 1) : z[e].edge # -1
          BY <1>1, <3>1
        <4> QED
          BY <4>1, <4>2, NoEndsBetween
      <3>3. n > 0 => z[n].edge = -1
        BY <1>1, <2>2 DEF IsPlace
      <3>4. IsPlace(z, n + i, i)
        <4>1. (n + i) - i = n /\ i \in 1..(n + i) /\ (i < n + i => n > 0)
          BY <1>1
        <4>2. \A j \in ((n + i) - i + 1)..((n + i) - 1) : z[j].edge # -1
          BY <1>1, <3>1, <4>1
        <4>3. i < n + i => z[(n + i) - i].edge = -1
          BY <3>3, <4>1
        <4> QED
          BY <4>1, <4>2, <4>3 DEF IsPlace
      <3> QED
        BY <2>2, <3>2, <3>4 DEF PathNo
    <2>4. Stored(legs, z)
      <3> SUFFICES ASSUME NEW i \in 1..(n + m) PROVE IsOfLeg(legs, z, i)
        BY <1>2 DEF Stored
      <3>1. CASE i \in 1..n
        <4>1. i \in 1..(n + 1)
          BY <1>1, <3>1
        <4>2. IsOfLeg(legs, x, i)
          BY <1>0, <3>1 DEF Stored
        <4>3. z[i] = x[i]
          BY <1>2, <3>1
        <4>4. /\ x[i].start \in 1..Len(legs) /\ legs[x[i].start] # <<>>
              /\ FoundNo(legs, x[i].start) = PathNo(x, i)
              /\ IsPlace(x, i, x[i].end + 1)
          BY <4>2 DEF IsOfLeg
        <4>5. PathNo(z, i) = PathNo(x, i) /\ IsPlace(z, i, x[i].end + 1)
          BY <2>1, <4>1, <4>4
        <4> QED
          BY <4>3, <4>4, <4>5 DEF IsOfLeg
      <3>2. CASE i \notin 1..n
        <4>1. i - n \in 1..m /\ n + (i - n) = i
          BY <1>1, <3>2
        <4>2. z[i].start = k /\ z[i].end + 1 = i - n
          <5>1. z[i] = y[i - n]
            BY <1>2, <4>1
          <5>2. y[i - n].start = k /\ y[i - n].end = (i - n) - 1
            BY <1>3, <4>1
          <5>3. ((i - n) - 1) + 1 = i - n
            BY <4>1
          <5> QED
            BY <5>1, <5>2, <5>3
        <4>3. PathNo(z, i) = FoundNo(legs, k) /\ IsPlace(z, i, i - n)
          BY <2>3, <4>1
        <4>4. z[i].start \in 1..Len(legs) /\ legs[z[i].start] # <<>>
          BY <2>0, <4>2
        <4>5. FoundNo(legs, z[i].start) = PathNo(z, i) /\ IsPlace(z, i, z[i].end + 1)
          BY <4>2, <4>3
        <4> QED
          BY <4>4, <4>5 DEF IsOfLeg
      <3> QED
        BY <3>1, <3>2
    <2>5. Complete(legs, k, z)
      <3>0. m \in 1..m /\ n + m \in Nat \ {0}
        BY <1>1, <1>c
      <3>1. z[n + m] = y[m] /\ y[m].edge = -1
        BY <1>2, <1>3, <3>0
      <3>2. PathNo(z, n + m) = FoundNo(legs, k)
        BY <2>3, <3>0
      <3>3. PathNo(z, (n + m) + 1) = FoundNo(legs, k) + 1 /\ IsPlace(z, (n + m) + 1, 1)
        BY <3>0, <3>1, <3>2, EndsCounted, NextPlace
      <3> QED
        BY <1>2, <2>f, <3>3 DEF Complete
    <2> QED
      BY <1>0, <2>4, <2>5
  <1> QED
    BY <1>1, <1>b, <1>c

AreEnded(c) == \A k \in 1..Len(c) : Ended(c[k])
AreParts(c) == \A k \in 1..Len(c) : IsPart(k, c[k])
\* What is claimed of the first n of the lists c put together.
FlatClaim(c, n, x) ==
    /\ Held(x)
    /\ AreEnded(c) => Ended(x)
    /\ AreParts(c) => Stored(c, x) /\ Complete(c, n, x)

Flat == INSTANCE Recursion WITH
  Start <- LAMBDA c : c[1],
  Step  <- LAMBDA c, n, x : x \o c[n],
  Pick  <- LAMBDA c, s : CHOOSE x \in s : TRUE,
  Claim <- LAMBDA c, n, x : FlatClaim(c, n, x)

\* No rows are the rows of no path.
LEMMA NoRows ==
    Held(<<>>) /\ Ended(<<>>) /\ \A legs : Stored(legs, <<>>) /\ Complete(legs, 0, <<>>)
  <1>1. Len(<<>>) = 0 /\ <<>> \in Seq(Row)
    OBVIOUS
  <1>2. PathNo(<<>>, 1) = 1 /\ IsPlace(<<>>, 1, 1)
    BY FirstPlace, EndsCounted
  <1>3. \A legs : FoundNo(legs, 0 + 1) = 1
    BY FoundCounted
  <1> QED
    BY <1>1, <1>2, <1>3 DEF Held, Ended, Stored, Complete

\* Lists put together hold what the lists hold, numbered on.
LEMMA Flattened ==
    ASSUME NEW c, NEW n \in Nat, Len(c) = n, n = 0 => c = <<>>,
           \A k \in 1..n : Held(c[k])
    PROVE  FlatClaim(c, n, FlattenSeq(c))
  <1>1. CASE n = 0
    <2>1. FlattenSeq(c) = <<>>
      BY <1>1 DEF FlattenSeq
    <2> QED
      BY <1>1, <2>1, NoRows DEF FlatClaim
  <1>2. CASE n # 0
    <2>1. FlattenSeq(c) = Flat!Counted(c, 1, n)[n]
      BY <1>2 DEF FlattenSeq, Flat!Counted, Flat!IsCounted
    <2>2. FlatClaim(c, 1, c[1])
      <3>1. Held(c[1]) /\ (AreEnded(c) => Ended(c[1])) /\ (AreParts(c) => IsPart(1, c[1]))
        BY <1>2 DEF AreEnded, AreParts
      <3>2. <<>> \o c[1] = c[1]
        BY <3>1 DEF Held
      <3>3. AreParts(c) => Stored(c, <<>> \o c[1]) /\ Complete(c, 1, <<>> \o c[1])
        <4>1. 1 \in 1..Len(c) /\ 1 - 1 = 0
          BY <1>2
        <4>2. Held(c[1])
          BY <4>1
        <4> QED
          BY <3>1, <4>1, <4>2, NoRows, JoinedStored
      <3> QED
        BY <3>1, <3>2, <3>3 DEF FlatClaim
    <2>3. \A i \in 1 + 1..n : \A x : FlatClaim(c, i - 1, x) => FlatClaim(c, i, x \o c[i])
      <3> SUFFICES ASSUME NEW i \in 1 + 1..n, NEW x, FlatClaim(c, i - 1, x)
                   PROVE  FlatClaim(c, i, x \o c[i])
        OBVIOUS
      <3>1. i \in 1..n /\ i \in Nat \ {0}
        OBVIOUS
      <3>2. Held(c[i]) /\ (AreEnded(c) => Ended(c[i])) /\ (AreParts(c) => IsPart(i, c[i]))
        BY <3>1 DEF AreEnded, AreParts
      <3>3. /\ Held(x) /\ (AreEnded(c) => Ended(x))
            /\ AreParts(c) => Stored(c, x) /\ Complete(c, i - 1, x)
        BY DEF FlatClaim
      <3>4. Held(x \o c[i]) /\ (AreEnded(c) => Ended(x \o c[i]))
        BY <3>2, <3>3, Joined
      <3>5. AreParts(c) => Stored(c, x \o c[i]) /\ Complete(c, i, x \o c[i])
        BY <3>1, <3>2, <3>3, JoinedStored
      <3> QED
        BY <3>4, <3>5 DEF FlatClaim
    <2>4. \A i \in 1..n : FlatClaim(c, i, Flat!Counted(c, 1, n)[i])
      <3>1. 1 \in Int /\ n \in Int
        OBVIOUS
      <3> QED
        BY ONLY <2>2, <2>3, <3>1, Flat!CountedClaim, Zenon
    <2>5. n \in 1..n
      BY <1>2
    <2> QED
      BY <2>1, <2>4, <2>5
  <1> QED
    BY <1>1, <1>2

\* The functions whose rows are numbered, path by path.
NumberPaths == {"path_seq", "path_id", "disjoint", "stored"}
\* Those that find the numbers in the row before.
CountPaths == {"path_seq", "path_id", "disjoint"}

IsAnswerOf(f, a) ==
    /\ a \in Seq(Seq(Int))
    /\ Catalogue[f].numbers \in NumberPaths => \A k \in 1..Len(a) : IsPath(a[k])
\* What a driver puts in the tuples.
AreRowsOf(f, legs, x) ==
    /\ Held(x)
    /\ Catalogue[f].numbers \in CountPaths => Ended(x)
    /\ Catalogue[f].numbers = "stored" => Stored(legs, x)

\* What a search finds is an answer of its function.
LEMMA AnswersFit ==
    ASSUME PathsEndOnce, NEW f
    PROVE  IsAnswerOf(f, <<>>) /\ \A a \in AnswersOf(f) : IsAnswerOf(f, a)
  <1>1. IsAnswerOf(f, <<>>)
    BY DEF IsAnswerOf
  <1>2. ASSUME NEW a \in AnswersOf(f) PROVE IsAnswerOf(f, a)
    <2>1. CASE Catalogue[f].numbers \in NumberPaths
      BY <1>2, <2>1 DEF AnswersOf, NumberPaths, PathsEndOnce, IsAnswerOf
    <2>2. CASE Catalogue[f].numbers \notin NumberPaths
      <3>1. a = <<>> \/ a = <<<<1, 1>>>>
        BY <1>2, <2>2 DEF AnswersOf, NumberPaths
      <3>2. <<1, 1>> \in Seq(Int)
        OBVIOUS
      <3>3. PICK y : y = <<1, 1>>
        OBVIOUS
      <3>4. <<y>> \in Seq(Seq(Int)) /\ <<>> \in Seq(Seq(Int))
        BY <3>2, <3>3
      <3>5. a \in Seq(Seq(Int))
        BY <3>1, <3>3, <3>4
      <3> QED
        BY <2>2, <3>5 DEF IsAnswerOf
    <2> QED
      BY <2>1, <2>2
  <1> QED
    BY <1>1, <1>2

\* The mark on the last row of a route changes no place, as no row comes after it.
LEMMA LastMarked ==
    ASSUME NEW x, Held(x), NEW b \in BOOLEAN,
           NEW y, y = [i \in DOMAIN x |->
                        [x[i] EXCEPT !.edge = IF b /\ i = Len(x) THEN -2 ELSE @]]
    PROVE  /\ Held(y) /\ Len(y) = Len(x)
           /\ ~b /\ Ended(x) => Ended(y)
           /\ \A legs : Stored(legs, x) => Stored(legs, y)
  <1> DEFINE Marked(i) == [x[i] EXCEPT !.edge = IF b /\ i = Len(x) THEN -2 ELSE @]
  <1>1. DOMAIN x = 1..Len(x) /\ Len(x) \in Nat /\ \A i \in 1..Len(x) : x[i] \in Row /\ x[i].own = "held"
    BY DEF Held
  <1>2. y = [i \in 1..Len(x) |-> Marked(i)]
    BY <1>1
  <1>3. ASSUME NEW i \in 1..Len(x)
        PROVE  /\ Marked(i) \in Row /\ Marked(i).own = "held"
               /\ Marked(i).start = x[i].start /\ Marked(i).end = x[i].end
               /\ ~b \/ i # Len(x) => Marked(i).edge = x[i].edge
    <2>1. PICK r, e : r = x[i] /\ e = IF b /\ i = Len(x) THEN -2 ELSE r.edge
      OBVIOUS
    <2>2. r \in Row /\ r.own = "held"
      BY <1>1, <2>1
    <2>3. /\ DOMAIN r = {"edge", "own", "start", "end"} /\ r.edge \in Int
          /\ r.start \in Int /\ r.end \in Int
      BY <2>2 DEF Row
    <2>4. e \in Int
      BY <2>1, <2>3
    <2>5. PICK s : s = [r EXCEPT !.edge = e]
      OBVIOUS
    <2>6. Marked(i) = s
      BY <2>1, <2>3, <2>5
    <2>7. s \in Row /\ s.own = "held" /\ s.start = r.start /\ s.end = r.end /\ s.edge = e
      BY <2>2, <2>3, <2>4, <2>5 DEF Row
    <2> HIDE DEF Marked
    <2> QED
      BY <2>1, <2>6, <2>7
  <1> HIDE DEF Marked
  <1>4. y \in [1..Len(x) -> Row]
    BY <1>2, <1>3
  <1>5. y \in Seq(Row) /\ Len(y) = Len(x)
    BY <1>1, <1>4
  <1>6. \A i \in 1..Len(x) :
          /\ y[i].own = "held" /\ y[i].start = x[i].start /\ y[i].end = x[i].end
          /\ ~b \/ i # Len(x) => y[i].edge = x[i].edge
    BY <1>2, <1>3
  <1>7. Held(y)
    BY <1>5, <1>6 DEF Held
  <1>8. ~b /\ Ended(x) => Ended(y)
    BY <1>5, <1>6 DEF Ended
  <1>9. ASSUME NEW legs, Stored(legs, x), NEW i \in 1..Len(y) PROVE IsOfLeg(legs, y, i)
    <2>1. i \in 1..Len(x) /\ i \in Nat \ {0}
      BY <1>5
    <2>2. \A j \in 1..(i - 1) : x[j].edge = y[j].edge
      <3> SUFFICES ASSUME NEW j \in 1..(i - 1) PROVE x[j].edge = y[j].edge
        OBVIOUS
      <3>1. j \in 1..Len(x) /\ j # Len(x)
        BY <1>1, <2>1
      <3> QED
        BY <1>6, <3>1
    <2>3. PathNo(x, i) = PathNo(y, i) /\ \A p : IsPlace(x, i, p) => IsPlace(y, i, p)
      BY <2>1, <2>2, SameEnds
    <2>4. /\ x[i].start \in 1..Len(legs) /\ legs[x[i].start] # <<>>
          /\ FoundNo(legs, x[i].start) = PathNo(x, i)
          /\ IsPlace(x, i, x[i].end + 1)
      BY <1>9, <2>1 DEF Stored, IsOfLeg
    <2>5. y[i].start = x[i].start /\ y[i].end = x[i].end
      BY <1>6, <2>1
    <2>6. IsPlace(y, i, x[i].end + 1)
      BY <2>3, <2>4
    <2> QED
      BY <2>3, <2>4, <2>5, <2>6 DEF IsOfLeg
  <1>10. \A legs : Stored(legs, x) => Stored(legs, y)
    BY <1>9 DEF Stored
  <1> QED
    BY <1>5, <1>7, <1>8, <1>10

\* As many paths were found before the n-th as have rows before it.
LEMMA SameFound ==
    ASSUME NEW a, NEW c, Len(a) \in Nat, Len(a) = Len(c),
           \A k \in 1..Len(a) : a[k] = <<>> <=> c[k] = <<>>
    PROVE  \A x : Stored(c, x) => Stored(a, x)
  <1>1. ASSUME NEW k \in 1..Len(a) PROVE FoundNo(a, k) = FoundNo(c, k)
    <2>1. \A j \in 1..(k - 1) : j \in 1..Len(a)
      OBVIOUS
    <2>2. FoundBefore(a, k) = FoundBefore(c, k)
      BY <2>1 DEF FoundBefore
    <2> QED
      BY <2>2 DEF FoundNo
  <1>2. ASSUME NEW x, NEW i, IsOfLeg(c, x, i) PROVE IsOfLeg(a, x, i)
    <2>1. x[i].start \in 1..Len(a) /\ c[x[i].start] # <<>>
      BY <1>2 DEF IsOfLeg
    <2>2. a[x[i].start] # <<>> /\ FoundNo(a, x[i].start) = FoundNo(c, x[i].start)
      BY <1>1, <2>1
    <2> QED
      BY <1>2, <2>1, <2>2 DEF IsOfLeg
  <1> QED
    BY <1>2 DEF Stored

\* The rows a driver makes of an answer are numbered as its function wants them.
LEMMA RowsFit ==
    ASSUME NEW f, NEW a, IsAnswerOf(f, a)
    PROVE  AreRowsOf(f, a, RowsOf(f, a))
  <1> DEFINE isStored == Catalogue[f].numbers = "stored"
             RowAt(k, i) == [edge |-> a[k][i], own |-> "held",
                             start |-> IF isStored THEN k ELSE 9, end |-> IF isStored THEN i - 1 ELSE 9]
             Path(k) == [i \in DOMAIN a[k] |-> RowAt(k, i)]
  <1>0. PICK c : c = [k \in DOMAIN a |-> Path(k)]
    OBVIOUS
  <1>a. PICK x, y : x = FlattenSeq(c) /\ y = RowsOf(f, a)
    OBVIOUS
  <1>1. y = [i \in DOMAIN x |->
              [x[i] EXCEPT !.edge = IF isStored /\ i = Len(x) THEN -2 ELSE @]]
    BY <1>0, <1>a DEF RowsOf
  <1>2. Len(a) \in Nat /\ DOMAIN a = 1..Len(a) /\ \A k \in 1..Len(a) : a[k] \in Seq(Int)
    BY DEF IsAnswerOf
  <1>3. c = [k \in 1..Len(a) |-> c[k]] /\ \A k \in 1..Len(a) : c[k] = Path(k)
    BY <1>0, <1>2
  <1>4. IsStack(c) /\ Len(c) = Len(a)
    BY <1>2, <1>3, FunctionIsStack
  <1>5. ASSUME NEW k \in 1..Len(a)
        PROVE  /\ c[k] \in Seq(Row) /\ Len(c[k]) = Len(a[k])
               /\ \A i \in 1..Len(a[k]) :
                    /\ c[k][i].edge = a[k][i] /\ c[k][i].own = "held"
                    /\ isStored => c[k][i].start = k /\ c[k][i].end = i - 1
    <2>1. Len(a[k]) \in Nat /\ DOMAIN a[k] = 1..Len(a[k]) /\ \A i \in 1..Len(a[k]) : a[k][i] \in Int
      BY <1>2
    <2>2. ASSUME NEW i \in 1..Len(a[k]) PROVE RowAt(k, i) \in Row
      <3>1. a[k][i] \in Int /\ k \in Int /\ i \in Int /\ i - 1 \in Int
        BY <1>2, <2>1
      <3> QED
        BY <3>1 DEF Row
    <2>3. c[k] = [i \in 1..Len(a[k]) |-> RowAt(k, i)]
      BY <1>3, <2>1
    <2>4. \A i \in 1..Len(a[k]) :
            /\ RowAt(k, i).edge = a[k][i] /\ RowAt(k, i).own = "held"
            /\ isStored => RowAt(k, i).start = k /\ RowAt(k, i).end = i - 1
      OBVIOUS
    <2> HIDE DEF RowAt, isStored
    <2>5. c[k] \in [1..Len(a[k]) -> Row]
      BY <2>2, <2>3
    <2>6. \A i \in 1..Len(a[k]) : c[k][i] = RowAt(k, i)
      BY <2>3
    <2>7. c[k] \in Seq(Row) /\ Len(c[k]) = Len(a[k])
      BY <2>1, <2>5
    <2> QED
      BY <2>4, <2>6, <2>7
  <1>6. \A k \in 1..Len(a) : Held(c[k])
    BY <1>5 DEF Held
  <1>7. Len(a) = 0 => c = <<>>
    BY <1>4 DEF IsStack
  <1>8. FlatClaim(c, Len(a), x)
    BY <1>2, <1>4, <1>6, <1>7, <1>a, Flattened
  <1>9. ASSUME Catalogue[f].numbers \in NumberPaths PROVE AreEnded(c)
    <2>1. \A k \in 1..Len(a) : \A i \in 1..Len(a[k]) : a[k][i] < 0 => a[k][i] = -1
      BY <1>9 DEF IsAnswerOf, IsPath
    <2>2. \A k \in 1..Len(a) : \A i \in 1..Len(a[k]) : c[k][i].edge = a[k][i]
      BY <1>5
    <2> QED
      BY <1>4, <1>5, <2>1, <2>2 DEF AreEnded, Ended
  <1>10. ASSUME isStored PROVE AreParts(c)
    <2>1. Catalogue[f].numbers \in NumberPaths
      BY <1>10 DEF NumberPaths
    <2> SUFFICES ASSUME NEW k \in 1..Len(a) PROVE IsPart(k, c[k])
      BY <1>4 DEF AreParts
    <2>2. IsPath(a[k])
      BY <2>1 DEF IsAnswerOf
    <2>3. /\ Len(c[k]) = Len(a[k])
          /\ \A i \in 1..Len(a[k]) : a[k][i] = -1 <=> i = Len(a[k])
      <3>1. a[k] \in Seq(Int) /\ \A i \in 1..Len(a[k]) : a[k][i] \in Int
        BY <1>2
      <3>2. \A i \in 1..Len(a[k]) : (a[k][i] < 0 <=> i = Len(a[k])) /\ (a[k][i] < 0 => a[k][i] = -1)
        BY <2>2 DEF IsPath
      <3>3. Len(c[k]) = Len(a[k])
        BY <1>5
      <3>4. ASSUME NEW i \in 1..Len(a[k]) PROVE a[k][i] = -1 <=> i = Len(a[k])
        BY <3>1, <3>2
      <3> QED
        BY <3>3, <3>4
    <2>4. \A i \in 1..Len(a[k]) :
            c[k][i].edge = a[k][i] /\ c[k][i].start = k /\ c[k][i].end = i - 1
      BY <1>5, <1>10
    <2> QED
      BY <2>3, <2>4 DEF IsPart
  <1> HIDE DEF isStored
  <1>11. isStored => Stored(a, x)
    <2>1. ASSUME NEW k \in 1..Len(a) PROVE a[k] = <<>> <=> c[k] = <<>>
      <3>1. a[k] \in Seq(Int) /\ c[k] \in Seq(Row) /\ Len(c[k]) = Len(a[k])
        BY <1>2, <1>5
      <3> QED
        BY <3>1
    <2> QED
      BY <1>2, <1>4, <1>8, <1>10, <2>1, SameFound DEF FlatClaim
  <1>12. /\ Held(x) /\ isStored \in BOOLEAN
         /\ Catalogue[f].numbers \in NumberPaths => Ended(x)
    BY <1>8, <1>9 DEF FlatClaim, isStored
  <1>13. /\ Held(y) /\ ~isStored /\ Ended(x) => Ended(y)
         /\ Held(y) /\ (Stored(a, x) => Stored(a, y))
    BY <1>1, <1>12, LastMarked
  <1> QED
    BY <1>a, <1>11, <1>12, <1>13 DEF AreRowsOf, isStored, NumberPaths, CountPaths

-----------------------------------------------------------------------------
(* The invariant of one call, the d-th.                                    *)

HasFields(c) ==
    /\ "pc" \in DOMAIN c /\ "fn" \in DOMAIN c /\ "answer" \in DOMAIN c /\ "said" \in DOMAIN c
    /\ "legs" \in DOMAIN c
    /\ "tuples" \in DOMAIN c /\ "rows" \in DOMAIN c /\ "count" \in DOMAIN c
    /\ "nth" \in DOMAIN c /\ "out" \in DOMAIN c
    /\ "err" \in DOMAIN c.said /\ "state" \in DOMAIN c.tuples

Fails(c) == c.said.err # "none"
\* There are no tuples, or they are on the level of the call and all counted; after an
\* error they may be anything but freed twice.
Allocated(c, d) ==
    \/ c.tuples = NoTuples /\ c.count = 0
    \/ c.tuples = [state |-> "held", level |-> d] /\ c.count = Len(c.rows)
    \/ Fails(c) /\ c.tuples.state \in {"none", "held"}
    \/ Fails(c) /\ c.tuples.state = "dangling" /\ c.pc = "report"

\* The rows that were not returned are as the driver left them, and the last one that
\* was holds the numbers that the next one is counted from.
LeftOver(c) ==
    /\ c.rows \in Seq(Row)
    /\ c.nth \in 0..Len(c.rows)
    /\ \A i \in (c.nth + 1)..Len(c.rows) : c.rows[i].own = "held"
    /\ NumbersOf(c) \in CountPaths => Ended(c.rows)
    /\ NumbersOf(c) = "stored" => Stored(c.legs, c.rows)
CountedOn(c) ==
    LET n == c.nth
        row == c.rows[n]
    IN  n > 0 =>
          /\ NumbersOf(c) = "path_seq" => IsPlace(c.rows, n + 1, row.start)
          /\ NumbersOf(c) = "path_id" =>
               row.start = PathNo(c.rows, n) /\ IsPlace(c.rows, n + 1, row.end)
          /\ NumbersOf(c) = "disjoint" =>
               row.start = PathNo(c.rows, n) /\ IsPlace(c.rows, n, row.end)
Returned(c) ==
    /\ IsStack(c.out) /\ Len(c.out) = c.nth
    /\ \A i \in 1..Len(c.out) : c.out[i].own = "held" /\ IsNumbered(c, i)

CallInv(c, d) ==
    /\ HasFields(c)
    /\ c.fn \in DOMAIN Catalogue
    /\ IsAnswerOf(c.fn, c.answer)
    /\ Fails(c) => c.pc \in {"drop", "report"}
    /\ c.pc # "rows" => c.nth = 0
    /\ Allocated(c, d)
    /\ LeftOver(c)
    /\ CountedOn(c)
    /\ Returned(c)

RowsInv == \A d \in 1..Len(calls) : CallInv(calls[d], d)
RowsIInv == LevelsIInv /\ RowsInv

\* The invariant of a call says what the property wants of it.
LEMMA CallIsWhole ==
    ASSUME NEW c, NEW d, CallInv(c, d)
    PROVE  /\ c.tuples.state # "freed twice"
           /\ c.pc = "rows" /\ c.count > 0 =>
                c.tuples = [state |-> "held", level |-> d] /\ Len(c.rows) = c.count
           /\ \A i \in DOMAIN c.out : c.out[i].own = "held" /\ IsNumbered(c, i)
  <1>1. Allocated(c, d) /\ (Fails(c) => c.pc # "rows")
    BY DEF CallInv
  <1>2. c.tuples.state # "freed twice"
    <2>1. c.tuples.state \in {"none", "held", "dangling"}
      BY <1>1 DEF Allocated, NoTuples
    <2> QED
      BY <2>1
  <1>3. c.pc = "rows" /\ c.count > 0 =>
          c.tuples = [state |-> "held", level |-> d] /\ Len(c.rows) = c.count
    BY <1>1 DEF Allocated
  <1>4. DOMAIN c.out = 1..Len(c.out)
    BY DEF CallInv, Returned, IsStack
  <1> QED
    BY <1>2, <1>3, <1>4 DEF CallInv, Returned

\* The invariant of all the calls implies the property.
LEMMA RowsInvImplies == RowsIInv => RowsAreWhole
  <1> SUFFICES ASSUME RowsIInv PROVE RowsAreWhole
    OBVIOUS
  <1>1. DOMAIN calls = 1..Len(calls)
    BY DEF RowsIInv, LevelsIInv, CallsInv, IsStack
  <1>2. ASSUME NEW d \in DOMAIN calls PROVE CallInv(calls[d], d)
    BY <1>1 DEF RowsIInv, RowsInv
  <1> QED
    BY <1>2, CallIsWhole DEF RowsAreWhole

\* A call that has not started its rows.
LEMMA NotReturning ==
    ASSUME NEW c, NEW d, HasFields(c), c.fn \in DOMAIN Catalogue, IsAnswerOf(c.fn, c.answer),
           Fails(c) => c.pc \in {"drop", "report"}, Allocated(c, d),
           c.nth = 0, c.out = <<>>, AreRowsOf(c.fn, c.legs, c.rows)
    PROVE  CallInv(c, d)
  <1>1. c.rows \in Seq(Row) /\ \A i \in 1..Len(c.rows) : c.rows[i].own = "held"
    BY DEF AreRowsOf, Held
  <1>2. LeftOver(c)
    BY <1>1 DEF LeftOver, AreRowsOf, NumbersOf
  <1>3. CountedOn(c)
    BY DEF CountedOn
  <1>4. Returned(c)
    BY EmptyIsStack DEF Returned
  <1> QED
    BY <1>2, <1>3, <1>4 DEF CallInv

\* Before the rows, they are as the driver left them.
LEMMA BeforeRows ==
    ASSUME NEW c, NEW d, CallInv(c, d), c.nth = 0
    PROVE  c.out = <<>> /\ AreRowsOf(c.fn, c.legs, c.rows)
  <1>1. IsStack(c.out) /\ Len(c.out) = 0
    BY DEF CallInv, Returned
  <1>2. c.out = <<>>
    BY <1>1 DEF IsStack
  <1>3. c.rows \in Seq(Row) /\ \A i \in 1..Len(c.rows) : c.rows[i].own = "held"
    BY DEF CallInv, LeftOver
  <1> QED
    BY <1>2, <1>3 DEF CallInv, LeftOver, NumbersOf, AreRowsOf, Held

\* A call that has just begun satisfies the invariant.
LEMMA NewCall ==
    ASSUME PathsEndOnce, NEW f \in DOMAIN Catalogue, NEW g, NEW d
    PROVE  CallInv(New(f, g), d)
  <1> DEFINE c == New(f, g)
  <1>1. HasFields(c) /\ c.fn = f /\ c.answer = <<>> /\ c.legs = <<>> /\ ~Fails(c) /\ c.nth = 0 /\ c.out = <<>>
    BY DEF New, HasFields, Fails, Noticed, NoTuples
  <1>2. Allocated(c, d)
    BY DEF Allocated, New
  <1>3. c.rows = <<>>
    BY DEF New
  <1>4. AreRowsOf(f, <<>>, <<>>) /\ IsAnswerOf(f, <<>>)
    BY NoRows, AnswersFit DEF AreRowsOf
  <1> HIDE DEF c
  <1> QED
    BY <1>1, <1>2, <1>3, <1>4, NotReturning DEF c

-----------------------------------------------------------------------------
(* The steps of a driver.                                                  *)

\* The last call is replaced by one that satisfies the invariant.
Goes == calls # <<>> /\ \E t : CallInv(t, Len(calls)) /\ Update(t)

\* A call that satisfies the invariant takes the place of the last one.
LEMMA GoesKeeps == RowsIInv /\ Goes => RowsInv'
  <1> SUFFICES ASSUME RowsIInv, Goes PROVE RowsInv'
    OBVIOUS
  <1>1. PICK t : CallInv(t, Len(calls)) /\ Update(t)
    BY DEF Goes
  <1>2. IsStack(calls) /\ calls # <<>> /\ Len(calls) \in Nat
    BY DEF RowsIInv, LevelsIInv, CallsInv, Goes, IsStack
  <1>3. TopReplaced(calls, calls', t)
    BY <1>1, <1>2, Replacing DEF Update
  <1>4. ASSUME NEW d \in 1..Len(calls') PROVE CallInv(calls'[d], d)
    <2>1. CASE d = Len(calls)
      BY <1>1, <1>3, <2>1 DEF TopReplaced
    <2>2. CASE d # Len(calls)
      <3>1. d \in 1..(Len(calls) - 1) /\ d \in 1..Len(calls)
        BY <1>2, <1>3, <2>2 DEF TopReplaced
      <3> QED
        BY <1>3, <3>1 DEF TopReplaced, RowsIInv, RowsInv
    <2> QED
      BY <2>1, <2>2
  <1> QED
    BY <1>4 DEF RowsInv

\* The last call satisfies the invariant.
LEMMA TopInv ==
    ASSUME RowsIInv, calls # <<>>
    PROVE  CallInv(Top, Len(calls))
  BY StackHasTop DEF RowsIInv, LevelsIInv, CallsInv, RowsInv, Top

\* A call that has the same rows as c and tells something else.
Alikes(c, t) ==
    /\ HasFields(t) /\ t.fn = c.fn /\ t.answer = c.answer /\ t.tuples = c.tuples
    /\ t.rows = c.rows /\ t.legs = c.legs /\ t.count = c.count /\ t.nth = c.nth /\ t.out = c.out

\* What a driver says does not touch the rows.
LEMMA AlikesKeeps ==
    ASSUME NEW c, NEW t, NEW d, CallInv(c, d), ~Fails(c), c.pc # "rows", Alikes(c, t),
           Fails(t) => t.pc \in {"drop", "report"}
    PROVE  CallInv(t, d)
  <1>1. /\ c.nth = 0 /\ IsAnswerOf(c.fn, c.answer) /\ Allocated(c, d)
        /\ c.fn \in DOMAIN Catalogue
    BY DEF CallInv
  <1>2. c.out = <<>> /\ AreRowsOf(c.fn, c.legs, c.rows)
    BY <1>1, BeforeRows
  <1>3. Allocated(t, d)
    BY <1>1 DEF Allocated, Alikes, Fails
  <1> QED
    BY <1>1, <1>2, <1>3, NotReturning DEF Alikes

\* A call that may be the last one while its driver runs.
Drafted(b) == CallInv(b, Len(calls)) /\ ~Fails(b) /\ b.pc = "driver" /\ Alikes(b, b)

\* A driver goes on with the rows it has ...
LEMMA GoOnGoes ==
    ASSUME InDriver, NEW b, Drafted(b), NEW c, Alikes(b, c), ~Fails(c), GoOn(c)
    PROVE  Goes
  <1> DEFINE t == [c EXCEPT !.at = @ + 1]
  <1>1. Alikes(b, t) /\ ~Fails(t)
    BY DEF Alikes, HasFields, Fails
  <1>2. Update(t) /\ calls # <<>>
    BY DEF GoOn, InDriver
  <1> HIDE DEF t
  <1>3. CallInv(t, Len(calls))
    BY <1>1, AlikesKeeps DEF Drafted
  <1> QED
    BY <1>2, <1>3 DEF Goes

\* ... or leaves with them.
LEMMA LeaveGoes ==
    ASSUME InDriver, NEW b, Drafted(b), NEW c, Alikes(b, c), Leave(c)
    PROVE  Goes
  <1> DEFINE t == [c EXCEPT !.pc = "drop"]
  <1>1. Alikes(b, t) /\ t.pc = "drop"
    BY DEF Alikes, HasFields
  <1>2. Update(t) /\ calls # <<>>
    BY DEF Leave, InDriver
  <1> HIDE DEF t
  <1>3. CallInv(t, Len(calls))
    BY <1>1, AlikesKeeps DEF Drafted
  <1> QED
    BY <1>2, <1>3 DEF Goes

\* The call whose driver runs has not failed.
LEMMA TopDrafted ==
    ASSUME RowsIInv, InDriver
    PROVE  Drafted(Top)
  <1>1. CallInv(Top, Len(calls)) /\ Top.pc = "driver"
    BY TopInv DEF InDriver
  <1>2. Alikes(Top, Top)
    BY <1>1 DEF CallInv, Alikes
  <1> QED
    BY <1>1, <1>2 DEF Drafted, CallInv

\* The level that is the last one is that of the last call.
LEMMA LastLevel ==
    ASSUME RowsIInv, InDriver
    PROVE  Last(levels) = Len(calls)
  <1>1. levels \in Seq(Nat) /\ Len(levels) = Len(calls) /\ \A d \in 1..Len(levels) : levels[d] = d
    BY DEF RowsIInv, LevelsIInv, LevelsInv, Depth, InDriver, Connected
  <1>2. Len(calls) \in Nat /\ Len(calls) > 0
    BY StackHasTop DEF RowsIInv, LevelsIInv, CallsInv, InDriver
  <1>3. Len(levels) \in 1..Len(levels)
    BY <1>1, <1>2
  <1> QED
    BY <1>1, <1>3 DEF Last

\* The tuples are on it, and they are the rows of the answer.
LEMMA FilledDrafted ==
    ASSUME RowsIInv, InDriver
    PROVE  Drafted(Filled(Top))
  <1> DEFINE c == Filled(Top)
             rows == RowsOf(Top.fn, Top.answer)
  <1>1. Drafted(Top) /\ CallInv(Top, Len(calls))
    BY TopDrafted DEF Drafted
  <1>2. HasFields(Top) /\ Top.pc = "driver" /\ ~Fails(Top)
    BY <1>1 DEF Drafted, CallInv
  <1>3. Top.nth = 0 /\ IsAnswerOf(Top.fn, Top.answer) /\ Top.fn \in DOMAIN Catalogue
    BY <1>1, <1>2 DEF CallInv
  <1>4. Top.out = <<>>
    BY <1>1, <1>3, BeforeRows
  <1>5. AreRowsOf(Top.fn, Top.answer, rows)
    BY <1>3, RowsFit
  <1>6. /\ HasFields(c) /\ c.fn = Top.fn /\ c.answer = Top.answer /\ c.pc = "driver"
        /\ c.said = Top.said /\ c.nth = 0 /\ c.out = <<>>
        /\ c.rows = rows /\ c.legs = Top.answer /\ c.count = Len(rows)
        /\ \/ c.tuples = [state |-> "held", level |-> Last(levels)]
           \/ c.tuples = Top.tuples /\ rows = <<>>
    BY <1>2, <1>3, <1>4 DEF Filled, HasFields
  <1> HIDE DEF c, rows
  <1>7. ~Fails(c)
    BY <1>2, <1>6 DEF Fails
  <1>8. Allocated(c, Len(calls))
    <2>1. CASE c.tuples = [state |-> "held", level |-> Last(levels)]
      BY <1>6, <2>1, LastLevel DEF Allocated
    <2>2. CASE c.tuples = Top.tuples /\ rows = <<>>
      <3>1. c.count = 0 /\ Len(c.rows) = 0
        BY <1>6, <2>2
      <3>2. Top.tuples = NoTuples \/ Top.tuples = [state |-> "held", level |-> Len(calls)]
        BY <1>1, <1>2 DEF CallInv, Allocated
      <3> QED
        BY <2>2, <3>1, <3>2 DEF Allocated
    <2> QED
      BY <1>6, <2>1, <2>2
  <1>9. CallInv(c, Len(calls))
    BY <1>3, <1>5, <1>6, <1>7, <1>8, NotReturning
  <1>10. Alikes(c, c)
    BY <1>6 DEF Alikes
  <1> QED
    BY <1>6, <1>7, <1>9, <1>10 DEF Drafted, c

\* catch (...), where the tuples are freed with pgr_free: no one has freed them before.
LEMMA CaughtGoes ==
    ASSUME InDriver, NEW b, Drafted(b), NEW how, how # "free", Leave(Caught(b, how))
    PROVE  Goes
  <1> DEFINE t == [Caught(b, how) EXCEPT !.pc = "drop"]
  <1>1. CallInv(b, Len(calls)) /\ HasFields(b) /\ ~Fails(b) /\ b.pc = "driver"
    BY DEF Drafted, CallInv
  <1>2. b.nth = 0 /\ IsAnswerOf(b.fn, b.answer) /\ b.fn \in DOMAIN Catalogue
    BY <1>1 DEF CallInv
  <1>3. b.out = <<>> /\ AreRowsOf(b.fn, b.legs, b.rows)
    BY <1>1, <1>2, BeforeRows
  <1>4. b.tuples.state \in {"none", "held"}
    BY <1>1 DEF CallInv, Allocated, NoTuples
  <1>5. Released(b.tuples) \in {"none", "dangling"}
    BY <1>4 DEF Released
  <1>6. /\ HasFields(t) /\ t.fn = b.fn /\ t.answer = b.answer /\ t.pc = "drop"
        /\ t.nth = b.nth /\ t.out = b.out /\ t.rows = b.rows /\ t.legs = b.legs
        /\ t.said.err = "exception" /\ t.tuples.state = "none"
    BY <1>1, <1>5 DEF Caught, HasFields
  <1>7. Update(t) /\ calls # <<>>
    BY DEF Leave, InDriver
  <1> HIDE DEF t
  <1>8. Allocated(t, Len(calls))
    BY <1>6 DEF Allocated, Fails
  <1>9. CallInv(t, Len(calls))
    BY <1>2, <1>3, <1>6, <1>8, NotReturning
  <1> QED
    BY <1>7, <1>9 DEF Goes

\* A search changes the answer and not the rows.
LEMMA FindGoes ==
    ASSUME PathsEndOnce, RowsIInv, Find
    PROVE  Goes
  <1>1. InDriver /\ Drafted(Top)
    BY TopDrafted DEF Find, At
  <1>2. CASE Leave(Caught(Top, "pgr_free"))
    BY <1>1, <1>2, CaughtGoes
  <1>3. CASE \E answer \in AnswersOf(Top.fn) : GoOn([Top EXCEPT !.answer = answer])
    <2>1. PICK answer \in AnswersOf(Top.fn) : GoOn([Top EXCEPT !.answer = answer])
      BY <1>3
    <2> DEFINE t == [[Top EXCEPT !.answer = answer] EXCEPT !.at = @ + 1]
    <2>2. CallInv(Top, Len(calls)) /\ HasFields(Top) /\ ~Fails(Top) /\ Top.pc = "driver"
      BY <1>1 DEF Drafted, CallInv
    <2>3. Top.nth = 0 /\ Top.fn \in DOMAIN Catalogue /\ Allocated(Top, Len(calls))
      BY <2>2 DEF CallInv
    <2>4. Top.out = <<>> /\ AreRowsOf(Top.fn, Top.legs, Top.rows)
      BY <2>2, <2>3, BeforeRows
    <2>5. /\ HasFields(t) /\ t.fn = Top.fn /\ t.answer = answer /\ t.pc = Top.pc
          /\ t.nth = Top.nth /\ t.out = Top.out /\ t.rows = Top.rows /\ t.said = Top.said
          /\ t.tuples = Top.tuples /\ t.count = Top.count /\ t.legs = Top.legs
      BY <2>2 DEF HasFields
    <2>6. Update(t) /\ calls # <<>>
      BY <1>1, <2>1 DEF GoOn, InDriver
    <2> HIDE DEF t
    <2>7. IsAnswerOf(Top.fn, answer)
      BY <2>1, AnswersFit
    <2>8. ~Fails(t) /\ Allocated(t, Len(calls))
      BY <2>2, <2>3, <2>5 DEF Fails, Allocated
    <2>9. CallInv(t, Len(calls))
      BY <2>3, <2>4, <2>5, <2>7, <2>8, NotReturning
    <2> QED
      BY <2>6, <2>9 DEF Goes
  <1> QED
    BY <1>2, <1>3 DEF Find

\* Tuples are allocated and filled, or the copy throws.
LEMMA FillGoes ==
    ASSUME FreesItsOwn, RowsIInv, FillTuples
    PROVE  Goes
  <1>1. InDriver /\ Drafted(Filled(Top)) /\ Drafted(Top)
    BY TopDrafted, FilledDrafted DEF FillTuples, At
  <1> DEFINE c == Filled(Top)
  <1>2. Alikes(c, c) /\ ~Fails(c)
    BY <1>1 DEF Drafted
  <1>3. CASE GoOn(c)
    <2> HIDE DEF c
    <2> QED BY <1>1, <1>2, <1>3, GoOnGoes DEF c
  <1>4. CASE Leave(Caught(c, Step.catch)) /\ (Step.catch = "free" => OutOfMemory)
    <2>1. Top.fn \in DOMAIN Catalogue
      BY <1>1 DEF Drafted, CallInv
    <2>2. Top.at \in DOMAIN ProcessOf(Top).driver /\ Step.do = "fill"
      BY DEF FillTuples, At
    <2>3. Step.catch # "free"
      BY <1>4, <2>1, <2>2 DEF FreesItsOwn, ProcessOf, Step
    <2> QED
      BY <1>1, <1>4, <2>3, CaughtGoes
  <1> QED
    BY <1>3, <1>4 DEF FillTuples

\* Each step of a driver keeps the invariant, or unwinds everything.
LEMMA RowsDriven ==
    ASSUME PathsEndOnce, FreesItsOwn, RowsIInv, DriverNext
    PROVE  Goes \/ Unwinds
  <1>1. InDriver /\ Drafted(Top) /\ Drafted(Filled(Top))
    <2>1. InDriver
      BY DEF DriverNext, ReadRows, ReadNothing, ReadThrows, ReadArrays, Abort, Forgotten,
             StopEarly, NoteOnly, ThrowEarly, CheckData, Find, NothingFound,
             FillTuples, FillFirst, TellMessages, Return, At
    <2> QED
      BY <2>1, TopDrafted, FilledDrafted
  <1>2. HasFields(Top) /\ ~Fails(Top) /\ Alikes(Top, Top)
    BY <1>1 DEF Drafted, CallInv
  <1>3. CASE ReadRows
    <2> DEFINE c == [Top EXCEPT !.hint = HintOf(Top, Step.of), !.found = @ \union {Step.of}]
    <2>1. Alikes(Top, c) /\ ~Fails(c)
      BY <1>2 DEF Alikes, HasFields, Fails
    <2>2. GoOn(c)
      BY <1>3 DEF ReadRows
    <2> QED
      BY <1>1, <2>1, <2>2, GoOnGoes
  <1>4. CASE ReadNothing
    <2> DEFINE c == [Top EXCEPT !.hint = IF Asked(Step.of) THEN HintOf(Top, Step.of) ELSE "none"]
    <2>1. Alikes(Top, c) /\ ~Fails(c)
      BY <1>2 DEF Alikes, HasFields, Fails
    <2>2. GoOn(c)
      BY <1>4 DEF ReadNothing
    <2> QED
      BY <1>1, <2>1, <2>2, GoOnGoes
  <1>5. CASE ReadThrows
    <2> DEFINE c == Thrown([Top EXCEPT !.hint = HintOf(Top, Step.of)], Step.of)
    <2>1. Alikes(Top, c)
      BY <1>2 DEF Alikes, HasFields, Thrown
    <2>2. Leave(c)
      BY <1>5 DEF ReadThrows
    <2> QED
      BY <1>1, <2>1, <2>2, LeaveGoes
  <1>6. CASE ReadArrays
    <2> DEFINE c == Thrown(Top, "none")
    <2>1. Alikes(Top, c)
      BY <1>2 DEF Alikes, HasFields, Thrown
    <2>2. GoOn(Top) \/ Leave(c)
      BY <1>6 DEF ReadArrays
    <2> QED
      BY <1>1, <1>2, <2>1, <2>2, GoOnGoes, LeaveGoes
  <1>7. CASE Abort
    BY <1>7, RaiseDrives DEF Abort
  <1>8. CASE Forgotten
    <2> DEFINE c == [Top EXCEPT !.hint = "none"]
    <2>1. Alikes(Top, c) /\ ~Fails(c)
      BY <1>2 DEF Alikes, HasFields, Fails
    <2>2. GoOn(c)
      BY <1>8 DEF Forgotten
    <2> QED
      BY <1>1, <2>1, <2>2, GoOnGoes
  <1>9. CASE StopEarly
    <2> DEFINE c == [Top EXCEPT !.said.notice = Step.notice, !.said.log = Resolved(Step.log)]
    <2>1. Alikes(Top, c)
      BY <1>2 DEF Alikes, HasFields
    <2>2. Leave(c) \/ GoOn(Top)
      BY <1>9 DEF StopEarly
    <2> QED
      BY <1>1, <1>2, <2>1, <2>2, GoOnGoes, LeaveGoes
  <1>10. CASE NoteOnly
    <2> DEFINE c == [Top EXCEPT !.said.notice = Step.notice, !.said.log = Step.log]
    <2>1. Alikes(Top, c) /\ ~Fails(c)
      BY <1>2 DEF Alikes, HasFields, Fails
    <2>2. GoOn(c) \/ GoOn(Top)
      BY <1>10 DEF NoteOnly
    <2> QED
      BY <1>1, <1>2, <2>1, <2>2, GoOnGoes
  <1>11. CASE ThrowEarly
    <2> DEFINE c == [Top EXCEPT !.said.err = "No edges", !.said.log = Top.hint]
    <2>1. Alikes(Top, c)
      BY <1>2 DEF Alikes, HasFields
    <2>2. Leave(c) \/ GoOn(Top)
      BY <1>11 DEF ThrowEarly
    <2> QED
      BY <1>1, <1>2, <2>1, <2>2, GoOnGoes, LeaveGoes
  <1>12. CASE CheckData
    <2> DEFINE c == [Top EXCEPT !.said.err = "bad data"]
    <2>1. Alikes(Top, c)
      BY <1>2 DEF Alikes, HasFields
    <2>2. Leave(c) \/ GoOn(Top)
      BY <1>12 DEF CheckData
    <2> QED
      BY <1>1, <1>2, <2>1, <2>2, GoOnGoes, LeaveGoes
  <1>13. CASE NothingFound
    <2> DEFINE c == [Top EXCEPT !.said.notice = Replaced(@, Step.notice),
                                !.said.log = Replaced(@, Step.log),
                                !.said.err = Replaced(@, Step.err)]
    <2>1. Alikes(Top, c)
      BY <1>2 DEF Alikes, HasFields
    <2>2. Leave(c) \/ GoOn(Top)
      BY <1>13 DEF NothingFound
    <2> QED
      BY <1>1, <1>2, <2>1, <2>2, GoOnGoes, LeaveGoes
  <1>14. CASE FillFirst
    <2>1. Alikes(Filled(Top), Filled(Top))
      BY <1>1 DEF Drafted
    <2>2. Leave(Filled(Top)) \/ GoOn(Top)
      BY <1>14 DEF FillFirst
    <2> QED
      BY <1>1, <1>2, <2>1, <2>2, GoOnGoes, LeaveGoes
  <1>15. CASE TellMessages
    <2> DEFINE c == [Top EXCEPT !.said.notice = "none", !.said.log = "none"]
    <2>1. Alikes(Top, c) /\ ~Fails(c)
      BY <1>2 DEF Alikes, HasFields, Fails
    <2>2. GoOn(c)
      BY <1>15 DEF TellMessages
    <2> QED
      BY <1>1, <2>1, <2>2, GoOnGoes
  <1>16. CASE Return
    BY <1>1, <1>2, <1>16, LeaveGoes DEF Return
  <1>17. CASE Find
    BY <1>17, FindGoes
  <1>18. CASE FillTuples
    BY <1>18, FillGoes
  <1> QED
    BY <1>3, <1>4, <1>5, <1>6, <1>7, <1>8, <1>9, <1>10, <1>11, <1>12, <1>13,
       <1>14, <1>15, <1>16, <1>17, <1>18 DEF DriverNext

-----------------------------------------------------------------------------
(* The steps of a process.                                                 *)

\* One that leaves the tuples and the rows alone.
LEMMA PassesGoes ==
    ASSUME RowsIInv, calls # <<>>, ~Fails(Top), Top.pc # "rows",
           NEW p, Update([Top EXCEPT !.pc = p])
    PROVE  Goes
  <1> DEFINE t == [Top EXCEPT !.pc = p]
  <1>1. CallInv(Top, Len(calls)) /\ HasFields(Top)
    BY TopInv DEF CallInv
  <1>2. Alikes(Top, t) /\ ~Fails(t)
    BY <1>1 DEF Alikes, HasFields, Fails
  <1> HIDE DEF t
  <1>3. CallInv(t, Len(calls))
    BY <1>1, <1>2, AlikesKeeps
  <1> QED
    BY <1>3 DEF Goes, t

\* if (err_msg && (*result_tuples)) pfree(*result_tuples): no one has freed them before.
LEMMA DropGoes ==
    ASSUME RowsIInv, Drop
    PROVE  Goes
  <1> DEFINE b == Dropped(Top)
             t == [b EXCEPT !.pc = "report"]
  <1>1. /\ CallInv(Top, Len(calls)) /\ HasFields(Top) /\ Top.pc = "drop"
        /\ Update(t) /\ calls # <<>>
    BY TopInv DEF Drop, CallInv
  <1>2. /\ Top.nth = 0 /\ IsAnswerOf(Top.fn, Top.answer) /\ Top.fn \in DOMAIN Catalogue
        /\ Allocated(Top, Len(calls))
    BY <1>1 DEF CallInv
  <1>3. Top.out = <<>> /\ AreRowsOf(Top.fn, Top.legs, Top.rows)
    BY <1>1, <1>2, BeforeRows
  <1>4. CASE ~Fails(Top)
    <2>1. b = Top
      BY <1>4 DEF Dropped, Fails
    <2> QED
      BY <1>1, <1>4, <2>1, PassesGoes
  <1>5. CASE Fails(Top)
    <2>1. Top.tuples.state \in {"none", "held"}
      BY <1>1, <1>2 DEF Allocated, NoTuples
    <2>2. Released(Top.tuples) \in {"none", "dangling"}
      BY <2>1 DEF Released
    <2>3. /\ HasFields(b) /\ b.fn = Top.fn /\ b.answer = Top.answer /\ b.nth = Top.nth
          /\ b.out = Top.out /\ b.rows = Top.rows /\ b.legs = Top.legs /\ b.said = Top.said
          /\ b.tuples.state \in {"none", "dangling"}
      BY <1>1, <1>5, <2>2 DEF Dropped, HasFields, Fails
    <2> HIDE DEF b
    <2>4. /\ HasFields(t) /\ t.fn = Top.fn /\ t.answer = Top.answer /\ t.nth = Top.nth
          /\ t.out = Top.out /\ t.rows = Top.rows /\ t.legs = Top.legs /\ t.said = Top.said
          /\ t.tuples.state \in {"none", "dangling"} /\ t.pc = "report"
      BY <2>3 DEF HasFields
    <2> HIDE DEF t
    <2>5. Allocated(t, Len(calls))
      BY <1>5, <2>4 DEF Allocated, Fails
    <2>6. CallInv(t, Len(calls))
      BY <1>2, <1>3, <2>4, <2>5, NotReturning
    <2> QED
      BY <1>1, <2>6 DEF Goes, t
  <1> QED
    BY <1>4, <1>5

-----------------------------------------------------------------------------
(* One row per call.                                                       *)

\* The next row gets its place and its path, though it counts from what the row before
\* was overwritten with, and it is overwritten with what the row after it needs.
LEMMA NumberedRight ==
    ASSUME NEW c, LeftOver(c), CountedOn(c), c.nth < Len(c.rows)
    PROVE  LET k == c.nth + 1
               n == Numbered(c)
           IN  /\ n.start \in Int /\ n.end \in Int
               /\ NumbersOf(c) \in NumberPaths => IsPlace(c.rows, k, n.seq)
               /\ NumbersOf(c) \in {"path_id", "disjoint"} => n.path = PathNo(c.rows, k)
               /\ NumbersOf(c) = "path_seq" => IsPlace(c.rows, k + 1, n.start)
               /\ NumbersOf(c) = "path_id" =>
                    n.start = PathNo(c.rows, k) /\ IsPlace(c.rows, k + 1, n.end)
               /\ NumbersOf(c) = "disjoint" =>
                    n.start = PathNo(c.rows, k) /\ IsPlace(c.rows, k, n.end)
               /\ NumbersOf(c) = "stored" =>
                    n.path = This(c).start /\ n.start = This(c).start /\ n.end = This(c).end
  <1>0. PICK k, n, b, r : k = c.nth + 1 /\ n = Numbered(c) /\ b = Before(c) /\ r = This(c)
    OBVIOUS
  <1>1. c.rows \in Seq(Row) /\ c.nth \in Nat /\ Len(c.rows) \in Nat
    BY DEF LeftOver
  <1>2. k \in 1..Len(c.rows) /\ k \in Nat \ {0} /\ k - 1 = c.nth
    BY <1>0, <1>1
  <1>3. r = c.rows[k] /\ r \in Row
    BY <1>0, <1>1, <1>2 DEF This
  <1>4. r.edge \in Int /\ r.start \in Int /\ r.end \in Int
    BY <1>3 DEF Row
  <1>5. ASSUME ~Starts(c)
        PROVE  /\ c.nth \in Nat \ {0} /\ c.nth \in 1..Len(c.rows) /\ b = c.rows[c.nth] /\ b \in Row
               /\ b.edge \in Int /\ b.start \in Int /\ b.end \in Int
    <2>1. c.nth \in Nat \ {0} /\ c.nth \in 1..Len(c.rows)
      BY <1>1, <1>5 DEF Starts
    <2>2. b = c.rows[c.nth] /\ b \in Row
      BY <1>0, <1>1, <2>1 DEF Before
    <2> QED
      BY <2>1, <2>2 DEF Row
  <1>6. NumbersOf(c) \in CountPaths => (r.edge < 0 <=> r.edge = -1)
    BY <1>1, <1>2, <1>3, <1>4 DEF LeftOver, Ended
  <1>7. Starts(c) => k = 1
    BY <1>0 DEF Starts
  <1>8. ASSUME NEW seq, IsPlace(c.rows, k, seq), NumbersOf(c) \in CountPaths
        PROVE  IsPlace(c.rows, k + 1, IF r.edge < 0 THEN 1 ELSE seq + 1)
    BY <1>2, <1>3, <1>6, <1>8, NextPlace
  <1>9. CASE NumbersOf(c) = "path_seq"
    <2> DEFINE seq == IF Starts(c) THEN 1 ELSE b.start
    <2>1. /\ n.seq = seq /\ n.end = r.end
          /\ n.start = IF r.edge < 0 THEN 1 ELSE seq + 1
      BY <1>0, <1>9 DEF Numbered, path_seq
    <2>2. IsPlace(c.rows, k, seq)
      <3>1. CASE Starts(c)
        BY <1>7, <3>1, FirstPlace
      <3>2. CASE ~Starts(c)
        BY <1>0, <1>1, <1>5, <1>9, <3>2 DEF CountedOn
      <3> QED
        BY <3>1, <3>2
    <2>3. seq \in Int
      BY <1>5
    <2> HIDE DEF seq
    <2>4. IsPlace(c.rows, k + 1, n.start) /\ n.start \in Int
      BY <1>8, <1>9, <2>1, <2>2, <2>3 DEF CountPaths
    <2> QED
      BY <1>0, <1>4, <1>9, <2>1, <2>2, <2>4
  <1>10. NumbersOf(c) \in {"path_id", "disjoint"} => PathOf(c) = PathNo(c.rows, k)
    <2> SUFFICES ASSUME NumbersOf(c) \in {"path_id", "disjoint"} PROVE PathOf(c) = PathNo(c.rows, k)
      OBVIOUS
    <2>1. CASE Starts(c)
      BY <1>2, <1>7, <2>1, EndsCounted DEF PathOf
    <2>2. CASE ~Starts(c)
      <3>1. b.start = PathNo(c.rows, c.nth)
        BY <1>0, <1>5, <2>2 DEF CountedOn
      <3>2. PathNo(c.rows, c.nth + 1) = IF b.edge = -1 THEN b.start + 1 ELSE b.start
        BY <1>5, <2>2, <3>1, EndsCounted
      <3> QED
        BY <1>0, <2>2, <3>2 DEF PathOf
    <2> QED
      BY <2>1, <2>2
  <1>11. PathNo(c.rows, k) \in Int
    BY <1>2, EndsCounted
  <1>12. CASE NumbersOf(c) = "path_id"
    <2> DEFINE seq == IF Starts(c) THEN 1 ELSE b.end
    <2>1. /\ n.seq = seq /\ n.path = PathOf(c) /\ n.start = PathOf(c)
          /\ n.end = IF r.edge < 0 THEN 1 ELSE seq + 1
      BY <1>0, <1>12 DEF Numbered, path_id
    <2>2. IsPlace(c.rows, k, seq)
      <3>1. CASE Starts(c)
        BY <1>7, <3>1, FirstPlace
      <3>2. CASE ~Starts(c)
        BY <1>0, <1>1, <1>5, <1>12, <3>2 DEF CountedOn
      <3> QED
        BY <3>1, <3>2
    <2>3. seq \in Int
      BY <1>5
    <2> HIDE DEF seq
    <2>4. IsPlace(c.rows, k + 1, n.end) /\ n.end \in Int
      BY <1>8, <1>12, <2>1, <2>2, <2>3 DEF CountPaths
    <2> QED
      BY <1>0, <1>10, <1>11, <1>12, <2>1, <2>2, <2>4
  <1>13. CASE NumbersOf(c) = "disjoint"
    <2> DEFINE seq == IF Starts(c) \/ b.edge = -1 THEN 1 ELSE b.end + 1
    <2>1. n.seq = seq /\ n.end = seq /\ n.path = PathOf(c) /\ n.start = PathOf(c)
      BY <1>0, <1>13 DEF Numbered, disjoint
    <2>2. IsPlace(c.rows, k, seq)
      <3>1. CASE Starts(c)
        BY <1>7, <3>1, FirstPlace
      <3>2. CASE ~Starts(c)
        <4>1. IsPlace(c.rows, c.nth, b.end)
          BY <1>0, <1>5, <1>13, <3>2 DEF CountedOn
        <4> QED
          BY <1>0, <1>5, <3>2, <4>1, NextPlace
      <3> QED
        BY <3>1, <3>2
    <2>3. seq \in Int
      BY <1>5
    <2> HIDE DEF seq
    <2> QED
      BY <1>0, <1>10, <1>11, <1>13, <2>1, <2>2, <2>3
  <1>14. CASE NumbersOf(c) = "stored"
    <2>1. n = [path |-> r.start, seq |-> r.end + 1, start |-> r.start, end |-> r.end]
      BY <1>0, <1>14 DEF Numbered, stored
    <2>2. IsPlace(c.rows, k, r.end + 1)
      BY <1>2, <1>3, <1>14 DEF LeftOver, Stored, IsOfLeg
    <2> QED
      BY <1>0, <1>4, <1>14, <2>1, <2>2
  <1>15. CASE NumbersOf(c) \notin NumberPaths
    <2>1. n = [path |-> 0, seq |-> c.nth + 1, start |-> r.start, end |-> r.end]
      BY <1>0, <1>15 DEF Numbered, counter, NumberPaths
    <2> QED
      BY <1>0, <1>4, <1>15, <2>1 DEF NumberPaths
  <1> QED
    BY <1>9, <1>12, <1>13, <1>14, <1>15 DEF NumberPaths

\* The rows, the numbers in the k-th.
LEMMA OverwrittenRows ==
    ASSUME NEW c, c.rows \in Seq(Row), NEW k \in Nat, k = c.nth + 1,
           NEW n, n.start \in Int, n.end \in Int,
           NEW rows, rows = Overwritten(c, n)
    PROVE  /\ rows \in Seq(Row) /\ Len(rows) = Len(c.rows)
           /\ \A i \in 1..Len(c.rows) :
                /\ rows[i].edge = c.rows[i].edge
                /\ i # k => rows[i].start = c.rows[i].start /\ rows[i].end = c.rows[i].end
                             /\ rows[i].own = c.rows[i].own
                /\ i = k => rows[i].start = n.start /\ rows[i].end = n.end
  <1> DEFINE Now(i) ==
        [c.rows[i] EXCEPT !.start = IF i = k THEN n.start ELSE @,
                          !.end = IF i = k THEN n.end ELSE @,
                          !.own = IF NumbersOf(c) = "nested" /\ i \in ArraysFreed(c)
                                  THEN "freed" ELSE @]
  <1>1. DOMAIN c.rows = 1..Len(c.rows) /\ Len(c.rows) \in Nat
    OBVIOUS
  <1>2. rows = [i \in 1..Len(c.rows) |-> Now(i)]
    BY <1>1 DEF Overwritten
  <1>3. ASSUME NEW i \in 1..Len(c.rows)
        PROVE  /\ Now(i) \in Row /\ Now(i).edge = c.rows[i].edge
               /\ i # k => Now(i).start = c.rows[i].start /\ Now(i).end = c.rows[i].end
                            /\ Now(i).own = c.rows[i].own
               /\ i = k => Now(i).start = n.start /\ Now(i).end = n.end
    <2>0. PICK r : r = c.rows[i]
      OBVIOUS
    <2>1. r \in Row
      BY <1>1, <2>0
    <2>2. /\ DOMAIN r = {"edge", "own", "start", "end"} /\ r.edge \in Int
          /\ r.own \in {"held", "freed"} /\ r.start \in Int /\ r.end \in Int
      BY <2>1 DEF Row
    <2>3. PICK x, y, z :
            /\ x = IF i = k THEN n.start ELSE r.start
            /\ y = IF i = k THEN n.end ELSE r.end
            /\ z = IF NumbersOf(c) = "nested" /\ i \in ArraysFreed(c) THEN "freed" ELSE r.own
      OBVIOUS
    <2>4. x \in Int /\ y \in Int /\ z \in {"held", "freed"}
      BY <2>2, <2>3
    <2>5. PICK s : s = [r EXCEPT !.start = x, !.end = y, !.own = z]
      OBVIOUS
    <2>6. Now(i) = s
      BY <2>0, <2>2, <2>3, <2>5
    <2>7. s \in Row
      BY <2>1, <2>4, <2>5 DEF Row
    <2>8. s.edge = r.edge /\ s.start = x /\ s.end = y /\ s.own = z
      BY <2>2, <2>5
    <2>9. i # k => z = r.own
      BY <2>3 DEF ArraysFreed
    <2> HIDE DEF Now
    <2> QED
      BY <2>0, <2>3, <2>6, <2>7, <2>8, <2>9
  <1> HIDE DEF Now
  <1>4. rows \in [1..Len(c.rows) -> Row]
    BY <1>2, <1>3
  <1>5. rows \in Seq(Row) /\ Len(rows) = Len(c.rows)
    BY <1>1, <1>4
  <1>6. \A i \in 1..Len(c.rows) : rows[i] = Now(i)
    BY <1>2
  <1> QED
    BY <1>3, <1>5, <1>6

\* One row more is returned, and it is numbered.
LEMMA NextRowGoes ==
    ASSUME RowsIInv, SRF_RETURN_NEXT
    PROVE  Goes
  <1>1. /\ calls # <<>> /\ CallInv(Top, Len(calls)) /\ Top.pc = "rows"
        /\ Top.nth < Top.count
    BY TopInv DEF SRF_RETURN_NEXT, Returning, MoreRows
  <1>2. PICK c : c = Top
    OBVIOUS
  <1>3. /\ HasFields(c) /\ c.fn \in DOMAIN Catalogue /\ IsAnswerOf(c.fn, c.answer)
        /\ ~Fails(c) /\ Allocated(c, Len(calls)) /\ LeftOver(c) /\ CountedOn(c) /\ Returned(c)
        /\ c.pc = "rows"
    BY <1>1, <1>2 DEF CallInv
  <1>4. c.rows \in Seq(Row) /\ Len(c.rows) \in Nat /\ c.nth \in 0..Len(c.rows)
    BY <1>3 DEF LeftOver
  <1>5. c.nth < Len(c.rows)
    <2>1. c.count = 0 \/ c.count = Len(c.rows)
      BY <1>3 DEF Allocated
    <2> QED
      BY <1>1, <1>2, <1>4, <2>1
  <1>6. PICK n : n = Numbered(c)
    OBVIOUS
  <1>7. PICK k : k = c.nth + 1
    OBVIOUS
  <1>8. k \in 1..Len(c.rows) /\ k \in Nat \ {0} /\ k + 1 \in Nat \ {0} /\ c.nth = k - 1
    BY <1>4, <1>5, <1>7
  <1>9. /\ n.start \in Int /\ n.end \in Int
        /\ NumbersOf(c) \in NumberPaths => IsPlace(c.rows, k, n.seq)
        /\ NumbersOf(c) \in {"path_id", "disjoint"} => n.path = PathNo(c.rows, k)
        /\ NumbersOf(c) = "path_seq" => IsPlace(c.rows, k + 1, n.start)
        /\ NumbersOf(c) = "path_id" => n.start = PathNo(c.rows, k) /\ IsPlace(c.rows, k + 1, n.end)
        /\ NumbersOf(c) = "disjoint" => n.start = PathNo(c.rows, k) /\ IsPlace(c.rows, k, n.end)
        /\ NumbersOf(c) = "stored" =>
             n.path = This(c).start /\ n.start = This(c).start /\ n.end = This(c).end
    BY <1>3, <1>5, <1>6, <1>7, NumberedRight
  <1>10. PICK rows : rows = Overwritten(c, n)
    OBVIOUS
  <1>11. PICK row : row = [path |-> n.path, seq |-> n.seq, own |-> This(c).own]
    OBVIOUS
  <1>12. PICK out : out = Append(c.out, row)
    OBVIOUS
  <1> DEFINE t == [c EXCEPT !.nth = k, !.out = out, !.rows = rows]
  <1>13. Update(t)
    <2>1. Update([c EXCEPT
            !.nth = @ + 1,
            !.out = Append(@, [path |-> n.path, seq |-> n.seq, own |-> This(c).own]),
            !.rows = Overwritten(c, n)])
      BY <1>2, <1>6 DEF SRF_RETURN_NEXT
    <2> QED
      BY <1>7, <1>10, <1>11, <1>12, <2>1
  <1>14. /\ HasFields(t) /\ t.fn = c.fn /\ t.answer = c.answer /\ t.said = c.said /\ t.pc = "rows"
         /\ t.tuples = c.tuples /\ t.count = c.count /\ t.nth = k /\ t.out = out /\ t.rows = rows
         /\ t.legs = c.legs
    BY <1>3 DEF HasFields
  <1> HIDE DEF t
  <1>15. /\ rows \in Seq(Row) /\ Len(rows) = Len(c.rows)
         /\ \A i \in 1..Len(c.rows) :
              /\ rows[i].edge = c.rows[i].edge
              /\ i # k => rows[i].start = c.rows[i].start /\ rows[i].end = c.rows[i].end
                           /\ rows[i].own = c.rows[i].own
              /\ i = k => rows[i].start = n.start /\ rows[i].end = n.end
    <2>1. k \in Nat /\ k = c.nth + 1 /\ c.rows \in Seq(Row) /\ n.start \in Int /\ n.end \in Int
      BY <1>4, <1>7, <1>8, <1>9
    <2> QED
      BY <1>10, <2>1, OverwrittenRows
  <1>16. NumbersOf(t) = NumbersOf(c)
    BY <1>14 DEF NumbersOf
  <1>17. ASSUME NEW i \in 1..(Len(c.rows) + 1)
         PROVE  /\ Ends(rows, i) = Ends(c.rows, i) /\ PathNo(rows, i) = PathNo(c.rows, i)
                /\ \A p : IsPlace(c.rows, i, p) => IsPlace(rows, i, p)
    <2>1. i \in Nat \ {0} /\ \A j \in 1..(i - 1) : c.rows[j].edge = rows[j].edge
      BY <1>4, <1>15
    <2> QED
      BY <2>1, SameEnds
  <1>18. k \in 1..(Len(c.rows) + 1) /\ k + 1 \in 1..(Len(c.rows) + 1)
    BY <1>4, <1>8
  <1>19. LeftOver(t)
    <2>1. \A i \in (k + 1)..Len(rows) : rows[i].own = "held"
      <3> SUFFICES ASSUME NEW i \in (k + 1)..Len(rows) PROVE rows[i].own = "held"
        OBVIOUS
      <3>1. i \in 1..Len(c.rows) /\ i # k /\ i \in (c.nth + 1)..Len(c.rows)
        BY <1>4, <1>8, <1>15
      <3> QED
        BY <1>3, <1>15, <3>1 DEF LeftOver
    <2>2. NumbersOf(c) \in CountPaths => Ended(rows)
      BY <1>3, <1>15 DEF LeftOver, Ended
    <2>3. ASSUME NumbersOf(c) = "stored" PROVE Stored(c.legs, rows)
      <3> SUFFICES ASSUME NEW i \in 1..Len(rows) PROVE IsOfLeg(c.legs, rows, i)
        BY DEF Stored
      <3>1. i \in 1..Len(c.rows) /\ i \in 1..(Len(c.rows) + 1)
        BY <1>4, <1>15
      <3>2. rows[i].start = c.rows[i].start /\ rows[i].end = c.rows[i].end
        BY <1>7, <1>9, <1>15, <2>3, <3>1 DEF This
      <3>3. IsOfLeg(c.legs, c.rows, i)
        BY <1>3, <2>3, <3>1 DEF LeftOver, Stored
      <3>4. PathNo(rows, i) = PathNo(c.rows, i) /\ IsPlace(rows, i, c.rows[i].end + 1)
        BY <1>17, <3>1, <3>3 DEF IsOfLeg
      <3> QED
        BY <3>2, <3>3, <3>4 DEF IsOfLeg
    <2> QED
      BY <1>4, <1>8, <1>14, <1>15, <1>16, <2>1, <2>2, <2>3 DEF LeftOver
  <1>20. CountedOn(t)
    <2>1. rows[k].start = n.start /\ rows[k].end = n.end
      BY <1>8, <1>15
    <2>2. /\ PathNo(rows, k) = PathNo(c.rows, k)
          /\ \A p : IsPlace(c.rows, k, p) => IsPlace(rows, k, p)
          /\ \A p : IsPlace(c.rows, k + 1, p) => IsPlace(rows, k + 1, p)
      BY <1>17, <1>18
    <2> QED
      BY <1>9, <1>14, <1>16, <2>1, <2>2 DEF CountedOn
  <1>21. Returned(t)
    <2>1. IsStack(c.out) /\ Len(c.out) = c.nth
      BY <1>3 DEF Returned
    <2>2. Pushed(c.out, out, row)
      BY <1>12, <2>1, Pushing
    <2>3. IsStack(out) /\ Len(out) = k /\ out[k] = row /\ \A i \in 1..c.nth : out[i] = c.out[i]
      BY <1>7, <2>1, <2>2 DEF Pushed
    <2>4. ASSUME NEW i \in 1..(Len(c.rows) + 1)
          PROVE  EndsBefore(t, i) = Ends(c.rows, i) /\ EndsBefore(c, i) = Ends(c.rows, i)
      BY <1>14, <1>17 DEF EndsBefore, Ends
    <2>5. ASSUME NEW i \in 1..c.nth PROVE out[i].own = "held" /\ IsNumbered(t, i)
      <3>1. c.out[i].own = "held" /\ IsNumbered(c, i)
        BY <1>3, <2>1 DEF Returned
      <3>2. i \in 1..(Len(c.rows) + 1)
        BY <1>4
      <3> QED
        BY <1>14, <1>16, <2>3, <2>4, <3>1, <3>2 DEF IsNumbered
    <2>6. out[k].own = "held" /\ IsNumbered(t, k)
      <3>1. This(c).own = "held"
        BY <1>3, <1>7, <1>8 DEF LeftOver, This
      <3>2. row.own = "held" /\ row.path = n.path /\ row.seq = n.seq
        BY <1>11, <3>1
      <3>3. NumbersOf(c) \in NumberPaths => n.seq = k - Max(Ends(c.rows, k) \union {0})
        BY <1>8, <1>9, PlaceIsCounted
      <3>4. NumbersOf(c) \in {"path_id", "disjoint"} =>
              n.path = 1 + Cardinality(Ends(c.rows, k))
        BY <1>9 DEF PathNo
      <3>5. EndsBefore(t, k) = Ends(c.rows, k)
        BY <1>18, <2>4
      <3>6. NumbersOf(c) = "stored" =>
              /\ n.path \in 1..Len(c.legs) /\ c.legs[n.path] # <<>>
              /\ Cardinality(FoundBefore(c.legs, n.path)) = Cardinality(Ends(c.rows, k))
        <4> SUFFICES ASSUME NumbersOf(c) = "stored"
                     PROVE  /\ n.path \in 1..Len(c.legs) /\ c.legs[n.path] # <<>>
                            /\ Cardinality(FoundBefore(c.legs, n.path))
                                 = Cardinality(Ends(c.rows, k))
          OBVIOUS
        <4>1. n.path = c.rows[k].start /\ IsOfLeg(c.legs, c.rows, k)
          BY <1>3, <1>7, <1>8, <1>9 DEF LeftOver, Stored, This
        <4>2. n.path \in 1..Len(c.legs) /\ c.legs[n.path] # <<>>
              /\ FoundNo(c.legs, n.path) = PathNo(c.rows, k)
          BY <4>1 DEF IsOfLeg
        <4>3. Cardinality(FoundBefore(c.legs, n.path)) \in Nat
          BY <4>2, FoundCounted
        <4>4. Cardinality(Ends(c.rows, k)) \in Nat
          BY <1>8, EndsCounted
        <4> QED
          BY <4>2, <4>3, <4>4 DEF FoundNo, PathNo
      <3> QED
        BY <1>14, <1>16, <2>3, <3>2, <3>3, <3>4, <3>5, <3>6 DEF IsNumbered, NumberPaths
    <2>7. \A i \in 1..k : i \in 1..c.nth \/ i = k
      BY <1>4, <1>8
    <2> QED
      BY <1>14, <2>3, <2>5, <2>6, <2>7 DEF Returned
  <1>22. Allocated(t, Len(calls)) /\ ~Fails(t)
    BY <1>3, <1>14, <1>15 DEF Allocated, Fails
  <1>23. CallInv(t, Len(calls))
    BY <1>3, <1>14, <1>19, <1>20, <1>21, <1>22 DEF CallInv
  <1> QED
    BY <1>1, <1>13, <1>23 DEF Goes

\* A new call has nothing, and the others are what they were.
LEMMA CallKeepsRows ==
    ASSUME PathsEndOnce, RowsIInv, Call
    PROVE  RowsInv'
  <1>0. PICK f \in DOMAIN Catalogue : \E g \in Catalogue[f].forms : calls' = Append(calls, New(f, g))
    BY DEF Call
  <1>1. PICK g \in Catalogue[f].forms : calls' = Append(calls, New(f, g))
    BY <1>0
  <1>2. IsStack(calls) /\ Len(calls) \in Nat
    BY DEF RowsIInv, LevelsIInv, CallsInv, IsStack
  <1>3. Pushed(calls, calls', New(f, g))
    BY <1>1, <1>2, Pushing
  <1>4. ASSUME NEW d \in 1..Len(calls') PROVE CallInv(calls'[d], d)
    <2>1. CASE d \in 1..Len(calls)
      BY <1>3, <2>1 DEF Pushed, RowsIInv, RowsInv
    <2>2. CASE d \notin 1..Len(calls)
      <3>1. d = Len(calls) + 1
        BY <1>2, <1>3, <2>2 DEF Pushed
      <3>2. calls'[d] = New(f, g)
        BY <1>3, <3>1 DEF Pushed
      <3> QED
        BY <3>2, NewCall
    <2> QED
      BY <2>1, <2>2
  <1> QED
    BY <1>4 DEF RowsInv

\* A call that returns leaves the calls below it alone.
LEMMA ReturnKeepsRows ==
    ASSUME RowsIInv, SRF_RETURN_DONE
    PROVE  RowsInv'
  <1>1. IsStack(calls) /\ Len(calls) \in Nat /\ calls # <<>> /\ calls' = Front(calls)
    BY DEF SRF_RETURN_DONE, RowsIInv, LevelsIInv, CallsInv, IsStack
  <1>2. Popped(calls, calls')
    BY <1>1, Popping
  <1>3. ASSUME NEW d \in 1..Len(calls') PROVE CallInv(calls'[d], d)
    <2>1. d \in 1..(Len(calls) - 1) /\ d \in 1..Len(calls)
      BY <1>1, <1>2 DEF Popped
    <2> QED
      BY <1>2, <2>1 DEF Popped, RowsIInv, RowsInv
  <1> QED
    BY <1>3 DEF RowsInv

\* So do the connection, the report and the ways to leave.
LEMMA ProcessGoes ==
    ASSUME RowsIInv,
           \/ pgr_SPI_connect \/ LeaveUnconnected \/ LeaveConnected
           \/ pgr_global_report \/ pgr_SPI_finish
    PROVE  Goes \/ Unwinds
  <1>1. calls # <<>> /\ CallInv(Top, Len(calls))
    BY TopInv DEF pgr_SPI_connect, LeaveUnconnected, LeaveConnected, pgr_global_report,
                  pgr_SPI_finish, Called, Starting, InDriver
  <1>2. Fails(Top) => Top.pc \in {"drop", "report"}
    BY <1>1 DEF CallInv
  <1>3. CASE pgr_SPI_connect
    <2>1. Top.pc = "called" /\ Update([Top EXCEPT !.pc = "driver"])
      BY <1>3 DEF pgr_SPI_connect, Called
    <2> QED
      BY <1>1, <1>2, <2>1, PassesGoes
  <1>4. CASE LeaveUnconnected
    <2>1. Top.pc = "called" /\ Update([Top EXCEPT !.pc = "rows"])
      BY <1>4 DEF LeaveUnconnected, Called
    <2> QED
      BY <1>1, <1>2, <2>1, PassesGoes
  <1>5. CASE LeaveConnected
    <2>1. Top.pc = "driver" /\ Update([Top EXCEPT !.pc = "left"])
      BY <1>5 DEF LeaveConnected, Starting, InDriver
    <2> QED
      BY <1>1, <1>2, <2>1, PassesGoes
  <1>6. CASE pgr_global_report
    <2>1. CASE ~Fails(Top)
      <3>1. Top.pc = "report" /\ Update([Top EXCEPT !.pc = "finish"])
        BY <1>6, <2>1 DEF pgr_global_report, Fails
      <3> QED
        BY <1>1, <2>1, <3>1, PassesGoes
    <2>2. CASE Fails(Top)
      BY <1>6, <2>2, RaiseDrives DEF pgr_global_report, Fails
    <2> QED
      BY <2>1, <2>2
  <1>7. CASE pgr_SPI_finish
    <2>1. Top.pc = "finish" /\ Update([Top EXCEPT !.pc = "rows"])
      BY <1>7 DEF pgr_SPI_finish
    <2> QED
      BY <1>1, <1>2, <2>1, PassesGoes
  <1> QED
    BY <1>3, <1>4, <1>5, <1>6, <1>7

\* An ERROR leaves no call.
LEMMA UnwindsKeepsRows == Unwinds => RowsInv'
  BY EmptyIsStack DEF Unwinds, RowsInv

\* Every step keeps the invariant.
LEMMA RowsNext ==
    ASSUME InnerFinish, PathsEndOnce, FreesItsOwn, RowsIInv, [Next]_vars
    PROVE  RowsIInv'
  <1>1. LevelsIInv'
    BY NextKeeps DEF RowsIInv
  <1>2. CASE Call
    BY <1>1, <1>2, CallKeepsRows DEF RowsIInv
  <1>3. CASE RefuseArguments \/ RefuseArgumentsLate
    BY <1>1, <1>3, RaiseDrives, UnwindsKeepsRows DEF RefuseArguments, RefuseArgumentsLate, RowsIInv
  <1>4. CASE \/ pgr_SPI_connect \/ LeaveUnconnected \/ LeaveConnected
             \/ pgr_global_report \/ pgr_SPI_finish
    BY <1>1, <1>4, ProcessGoes, GoesKeeps, UnwindsKeepsRows DEF RowsIInv
  <1>5. CASE DriverNext
    BY <1>1, <1>5, RowsDriven, GoesKeeps, UnwindsKeepsRows DEF RowsIInv
  <1>6. CASE Drop
    BY <1>1, <1>6, DropGoes, GoesKeeps DEF RowsIInv
  <1>7. CASE SRF_RETURN_NEXT
    BY <1>1, <1>7, NextRowGoes, GoesKeeps DEF RowsIInv
  <1>8. CASE SRF_RETURN_DONE
    BY <1>1, <1>8, ReturnKeepsRows DEF RowsIInv
  <1>9. CASE UNCHANGED vars
    BY <1>1, <1>9 DEF vars, RowsIInv, RowsInv
  <1> QED
    BY <1>2, <1>3, <1>4, <1>5, <1>6, <1>7, <1>8, <1>9 DEF Next

-----------------------------------------------------------------------------

\* The rows that a call returns were allocated for it and freed by nobody, they are as
\* many as it counts, and each has the number of its path and its place in it (a via
\* function's path has the number of its leg, and legs that were not found count, see
\* to_postgres.cpp:99-104): for every
\* catalogue of drivers, whatever they read, refuse, throw and allocate and however the
\* calls are nested.  No function that a query calls leaves while it is connected
\* (ksp.c:65-68); what a search finds are paths, missing or with the last edge -1 and no
\* other negative, for that is how the set returning functions tell where a path ends
\* (ksp.c:173-194); and memory does not run out where a catch block calls free() on memory of PostgreSQL
\* (pickDeliver_driver.cpp), for it would be freed twice then.
THEOREM RowsAreWholeTheorem ==
    ASSUME InnerFinish, PathsEndOnce, FreesItsOwn
    PROVE  Spec => []RowsAreWhole
  <1>1. Init => RowsIInv
    BY InitHolds, EmptyIsStack DEF Init, RowsIInv, RowsInv
  <1>2. RowsIInv /\ [Next]_vars => RowsIInv'
    BY RowsNext
  <1>3. RowsIInv => RowsAreWhole
    BY RowsInvImplies
  <1> QED
    BY <1>1, <1>2, <1>3, PTL DEF Spec

-----------------------------------------------------------------------------
(* What a call tells.                                                      *)

DriverOf(c) == ProcessOf(c).driver
IsRead(d, j, q) == d[j].do = "read" /\ d[j].of = q

Told(c) ==
    /\ "pc" \in DOMAIN c /\ "fn" \in DOMAIN c /\ "at" \in DOMAIN c /\ "found" \in DOMAIN c
    /\ "hint" \in DOMAIN c /\ "failed" \in DOMAIN c /\ "said" \in DOMAIN c
    /\ "notice" \in DOMAIN c.said /\ "log" \in DOMAIN c.said /\ "err" \in DOMAIN c.said
    /\ c.fn \in DOMAIN Catalogue /\ c.at \in Nat \ {0}

\* The hint is the query that was run last, and it has not been forgotten.
HintHolds(c) ==
    c.hint # "none" =>
      \E j \in DOMAIN DriverOf(c) :
        /\ j < c.at /\ IsRead(DriverOf(c), j, c.hint)
        /\ \A k \in DOMAIN DriverOf(c) : j < k /\ k < c.at => DriverOf(c)[k].do # "forget"
LogHolds(c) ==
    c.said.log \in Queries =>
      \E j \in DOMAIN DriverOf(c) : j <= c.at /\ IsRead(DriverOf(c), j, c.said.log)
FoundHolds(c) ==
    \A q \in c.found : \E j \in DOMAIN DriverOf(c) : j < c.at /\ IsRead(DriverOf(c), j, q)
\* Once "No edges" is said no query for edges follows.
NoEdgesAfter(c, n) ==
    \A j \in DOMAIN DriverOf(c) :
        j >= n => ~(DriverOf(c)[j].do = "read" /\ DriverOf(c)[j].of \in EdgeQueries)
NoticeHolds(c) ==
    c.said.notice = "No edges" /\ c.fn \notin Misleading => NoEdgesAfter(c, c.at)
HasWork(c) == c.found \intersect Essential # {}
\* Past a guard there is something to work on.
GuardsHold(c) ==
    \A i \in DOMAIN DriverOf(c) : IsGuard(DriverOf(c), i) /\ i < c.at => HasWork(c)
Blames(c) == c.said.err = "bad query" => c.said.log = c.failed

\* The driver runs ...
Running(c) ==
    /\ Told(c) /\ ~Fails(c)
    /\ HintHolds(c) /\ LogHolds(c) /\ FoundHolds(c)
    /\ NoticeIsTrue(c) /\ NoticeHolds(c) /\ GuardsHold(c)
\* ... and it has run.
HasRun(c) ==
    /\ Told(c) /\ LogHolds(c) /\ NoticeIsTrue(c) /\ Blames(c)
    /\ HasWork(c) \/ c.said.notice # "none" \/ Fails(c) \/ c.fn \in Quiet

TellInv(c) ==
    /\ Told(c)
    /\ Fails(c) => c.pc \in {"drop", "report"}
    /\ c.pc = "called" => c.at = 1 /\ c.found = {} /\ c.hint = "none" /\ c.said = Noticed
    /\ c.pc = "driver" => Running(c)
    /\ c.pc \in {"drop", "report", "finish"} => HasRun(c)
TellsInv ==
    /\ IsStack(calls)
    /\ \A d \in 1..Len(calls) : TellInv(calls[d])
    /\ BlameIsRight

\* The drivers are lists.
LEMMA DriverIsList ==
    ASSUME DriversAreTruthful, NEW f \in DOMAIN Catalogue
    PROVE  LET d == Catalogue[f].process.driver
           IN  /\ Len(d) \in Nat /\ DOMAIN d = 1..Len(d)
               /\ \A j \in DOMAIN d : j \in Nat
  <1>0. PICK d : d = Catalogue[f].process.driver
    OBVIOUS
  <1>1. d \in Seq({d[i] : i \in DOMAIN d})
    BY <1>0 DEF DriversAreTruthful, IsDriver
  <1>2. Len(d) \in Nat /\ DOMAIN d = 1..Len(d)
    BY <1>1
  <1>3. \A j \in 1..Len(d) : j \in Nat
    BY <1>2
  <1> QED
    BY <1>0, <1>2, <1>3

\* The invariant implies the property.
LEMMA TellsImplies == DriversAreTruthful /\ TellsInv => MessagesAreTrue
  <1> SUFFICES ASSUME DriversAreTruthful, TellsInv PROVE MessagesAreTrue
    OBVIOUS
  <1>1. ASSUME NEW d \in DOMAIN calls, calls[d].pc \in {"report", "finish"}
        PROVE  NoticeIsTrue(calls[d]) /\ HintWasRead(calls[d]) /\ EmptinessIsTold(calls[d])
    <2>0. PICK c : c = calls[d]
      OBVIOUS
    <2>1. TellInv(c)
      BY <2>0 DEF TellsInv, IsStack
    <2>2. HasRun(c) /\ (c.pc = "finish" => ~Fails(c))
      BY <1>1, <2>0, <2>1 DEF TellInv
    <2>3. HintWasRead(c)
      <3> SUFFICES ASSUME c.said.log \in Queries PROVE c.said.log \in ReadBy(c)
        BY DEF HintWasRead
      <3>1. PICK j \in DOMAIN DriverOf(c) : j <= c.at /\ IsRead(DriverOf(c), j, c.said.log)
        BY <2>2 DEF HasRun, LogHolds
      <3>2. DOMAIN DriverOf(c) = 1..Len(DriverOf(c))
        BY <2>2, DriverIsList DEF HasRun, Told, DriverOf, ProcessOf
      <3>3. j \in {k \in 1..Len(ProcessOf(c).driver) :
                     k <= c.at /\ ProcessOf(c).driver[k].do = "read"}
        BY <3>1, <3>2 DEF IsRead, DriverOf
      <3> QED
        BY <3>1, <3>3 DEF ReadBy, IsRead, DriverOf
    <2>4. EmptinessIsTold(c)
      BY <2>2 DEF EmptinessIsTold, HasRun, HasWork
    <2> QED
      BY <2>0, <2>2, <2>3, <2>4 DEF HasRun
  <1> QED
    BY <1>1 DEF MessagesAreTrue, TellsInv

\* A call that has just begun has told nothing.
LEMMA NewTells ==
    ASSUME NEW f \in DOMAIN Catalogue, NEW g
    PROVE  TellInv(New(f, g))
  <1> DEFINE c == New(f, g)
  <1>1. /\ c.fn = f /\ c.pc = "called" /\ c.at = 1 /\ c.found = {} /\ c.hint = "none"
        /\ c.said = Noticed
    BY DEF New
  <1>2. Told(c) /\ ~Fails(c)
    BY DEF New, Told, Noticed, Fails
  <1> HIDE DEF c
  <1> QED
    BY <1>1, <1>2 DEF TellInv, c

\* When its driver begins, the invariant of the driver holds.
LEMMA BeginsRunning ==
    ASSUME DriversAreTruthful, NEW c, TellInv(c), c.pc = "called"
    PROVE  TellInv([c EXCEPT !.pc = "driver"])
  <1> DEFINE t == [c EXCEPT !.pc = "driver"]
  <1>1. /\ Told(c) /\ ~Fails(c)
        /\ c.at = 1 /\ c.found = {} /\ c.hint = "none" /\ c.said = Noticed
    BY DEF TellInv
  <1>2. /\ Told(t) /\ ~Fails(t) /\ t.pc = "driver" /\ t.fn = c.fn
        /\ t.at = 1 /\ t.found = {} /\ t.hint = "none" /\ t.said = Noticed
    BY <1>1 DEF Told, Fails
  <1> HIDE DEF t
  <1>3. t.said.notice = "none" /\ t.said.log = "none"
    BY <1>2 DEF Noticed
  <1>4. HintHolds(t) /\ FoundHolds(t) /\ NoticeIsTrue(t) /\ NoticeHolds(t)
    BY <1>2, <1>3 DEF HintHolds, FoundHolds, NoticeIsTrue, NoticeHolds
  <1>5. LogHolds(t)
    BY <1>3 DEF LogHolds, Queries, EdgeQueries
  <1>6. DOMAIN DriverOf(t) = 1..Len(DriverOf(t)) /\ Len(DriverOf(t)) \in Nat
    BY <1>2, DriverIsList DEF Told, DriverOf, ProcessOf
  <1>7. GuardsHold(t)
    BY <1>2, <1>6 DEF GuardsHold
  <1> QED
    BY <1>2, <1>4, <1>5, <1>7 DEF TellInv, Running, t

-----------------------------------------------------------------------------
(* The steps of a driver, and what they tell.                              *)

\* The step that runs is one of the driver.
Runs(b, i) ==
    /\ Running(b) /\ b.pc = "driver" /\ b.at = i
    /\ i \in DOMAIN DriverOf(b)

\* c is b, but for what it knows and tells, before the driver turns to its next step.
Alters(b, c) == Told(c) /\ c.fn = b.fn /\ c.pc = b.pc /\ c.at = b.at

\* The hint stays if it is not forgotten, or it is none, or the query that runs.
HintGoesOn(b, i, c) ==
    \/ c.hint = "none"
    \/ c.hint = b.hint /\ DriverOf(b)[i].do # "forget"
    \/ IsRead(DriverOf(b), i, c.hint)
FoundGoesOn(b, i, c) ==
    \/ c.found = b.found
    \/ DriverOf(b)[i].do = "read" /\ c.found = b.found \union {DriverOf(b)[i].of}
NoticeGoesOn(b, i, c) ==
    \/ c.said.notice = b.said.notice
    \/ c.said.notice = "No edges" /\ c.fn \notin Misleading =>
         c.found \intersect EdgeQueries = {} /\ NoEdgesAfter(b, i)

\* The driver turns to its next step.
LEMMA TellsOn ==
    ASSUME DriversAreTruthful, NEW b, NEW i, Runs(b, i), NEW c, Alters(b, c), ~Fails(c),
           HintGoesOn(b, i, c), LogHolds(c), FoundGoesOn(b, i, c), NoticeGoesOn(b, i, c),
           IsGuard(DriverOf(b), i) => HasWork(c)
    PROVE  TellInv([c EXCEPT !.at = @ + 1])
  <1> DEFINE t == [c EXCEPT !.at = @ + 1]
  <1>0. PICK d : d = DriverOf(b)
    OBVIOUS
  <1>1. /\ DriverOf(c) = d /\ i \in Nat \ {0} /\ i \in DOMAIN d
        /\ Len(d) \in Nat /\ DOMAIN d = 1..Len(d)
    BY <1>0, DriverIsList DEF Runs, Running, Told, Alters, DriverOf, ProcessOf
  <1>2. /\ Told(t) /\ t.at = i + 1 /\ t.fn = c.fn /\ t.pc = "driver" /\ t.hint = c.hint
        /\ t.said = c.said /\ t.found = c.found /\ DriverOf(t) = d
    BY <1>1 DEF Told, Alters, Runs, DriverOf, ProcessOf
  <1> HIDE DEF t
  <1>3. ~Fails(t)
    BY <1>2 DEF Fails
  <1>4. HintHolds(t)
    <2> SUFFICES ASSUME c.hint # "none"
                 PROVE  \E j \in DOMAIN d :
                          /\ j < i + 1 /\ IsRead(d, j, c.hint)
                          /\ \A k \in DOMAIN d : j < k /\ k < i + 1 => d[k].do # "forget"
      BY <1>2 DEF HintHolds
    <2>1. CASE IsRead(d, i, c.hint)
      <3>1. \A k \in DOMAIN d : ~(i < k /\ k < i + 1)
        BY <1>1
      <3> QED
        BY <1>1, <2>1, <3>1
    <2>2. CASE c.hint = b.hint /\ d[i].do # "forget"
      <3>1. PICK j \in DOMAIN d :
              /\ j < i /\ IsRead(d, j, c.hint)
              /\ \A k \in DOMAIN d : j < k /\ k < i => d[k].do # "forget"
        BY <1>0, <2>2 DEF Runs, Running, HintHolds
      <3>2. j < i + 1
        BY <1>1, <3>1
      <3>3. ASSUME NEW k \in DOMAIN d, j < k, k < i + 1 PROVE d[k].do # "forget"
        <4>1. k < i \/ k = i
          BY <1>1, <3>3
        <4> QED
          BY <2>2, <3>1, <3>3, <4>1
      <3> QED
        BY <3>1, <3>2, <3>3
    <2> QED
      BY <1>0, <2>1, <2>2 DEF HintGoesOn
  <1>5. LogHolds(t)
    <2> SUFFICES ASSUME c.said.log \in Queries
                 PROVE  \E j \in DOMAIN d : j <= i + 1 /\ IsRead(d, j, c.said.log)
      BY <1>2 DEF LogHolds
    <2>1. PICK j \in DOMAIN d : j <= c.at /\ IsRead(d, j, c.said.log)
      BY <1>1 DEF LogHolds
    <2>2. c.at = i
      BY DEF Alters, Runs
    <2>3. j <= i + 1
      BY <1>1, <2>1, <2>2
    <2> QED
      BY <2>1, <2>3
  <1>6. FoundHolds(t)
    <2> SUFFICES ASSUME NEW q \in c.found
                 PROVE  \E j \in DOMAIN d : j < i + 1 /\ IsRead(d, j, q)
      BY <1>2 DEF FoundHolds
    <2>1. CASE q \in b.found
      <3>1. PICK j \in DOMAIN d : j < i /\ IsRead(d, j, q)
        BY <1>0, <2>1 DEF Runs, Running, FoundHolds
      <3>2. j < i + 1
        BY <1>1, <3>1
      <3> QED
        BY <3>1, <3>2
    <2>2. CASE q \notin b.found
      <3>1. IsRead(d, i, q)
        BY <1>0, <2>2 DEF FoundGoesOn, IsRead
      <3>2. i < i + 1
        BY <1>1
      <3> QED
        BY <1>1, <3>1, <3>2
    <2> QED
      BY <2>1, <2>2
  <1>7. i >= i /\ \A j \in DOMAIN d : j >= i + 1 => j >= i
    BY <1>1
  <1>8. NoticeIsTrue(t) /\ NoticeHolds(t)
    <2> SUFFICES ASSUME c.said.notice = "No edges", c.fn \notin Misleading
                 PROVE  c.found \intersect EdgeQueries = {} /\ NoEdgesAfter(t, i + 1)
      BY <1>2 DEF NoticeIsTrue, NoticeHolds
    <2>1. NoEdgesAfter(b, i) /\ c.found \intersect EdgeQueries = {}
      <3>1. CASE c.found \intersect EdgeQueries = {} /\ NoEdgesAfter(b, i)
        BY <3>1
      <3>2. CASE c.said.notice = b.said.notice
        <4>1. NoEdgesAfter(b, i) /\ b.found \intersect EdgeQueries = {}
          BY <3>2 DEF Runs, Running, NoticeIsTrue, NoticeHolds, Alters
        <4>2. ~(d[i].do = "read" /\ d[i].of \in EdgeQueries)
          BY <1>0, <1>1, <1>7, <4>1 DEF NoEdgesAfter
        <4> QED
          BY <1>0, <4>1, <4>2 DEF FoundGoesOn
      <3> QED
        BY <3>1, <3>2 DEF NoticeGoesOn
    <2>2. ASSUME NEW j \in DOMAIN d, j >= i + 1
          PROVE  ~(d[j].do = "read" /\ d[j].of \in EdgeQueries)
      <3>1. j >= i
        BY <1>7, <2>2
      <3> QED
        BY <1>0, <2>1, <3>1 DEF NoEdgesAfter
    <2> QED
      BY <1>2, <2>1, <2>2 DEF NoEdgesAfter
  <1>9. GuardsHold(t)
    <2> SUFFICES ASSUME NEW k \in DOMAIN d, IsGuard(d, k), k < i + 1
                 PROVE  HasWork(c)
      BY <1>2 DEF GuardsHold, HasWork
    <2>1. k < i \/ k = i
      BY <1>1
    <2>2. CASE k < i
      <3>1. HasWork(b)
        BY <1>0, <2>2 DEF Runs, Running, GuardsHold
      <3> QED
        BY <3>1 DEF HasWork, FoundGoesOn
    <2> QED
      BY <1>0, <2>1, <2>2
  <1>10. Running(t)
    BY <1>2, <1>3, <1>4, <1>5, <1>6, <1>8, <1>9 DEF Running
  <1> QED
    BY <1>2, <1>3, <1>10 DEF TellInv, t

\* The driver leaves: it has found something, or it says why.
LEMMA TellsLast ==
    ASSUME DriversAreTruthful, NEW b, Running(b), b.pc = "driver", NEW c, Alters(b, c),
           c.found = b.found, LogHolds(c), Blames(c), NoticeIsTrue(c),
           \/ Fails(c) \/ c.said.notice # "none"
           \/ \A j \in DOMAIN DriverOf(b) : IsGuard(DriverOf(b), j) => j < b.at
    PROVE  TellInv([c EXCEPT !.pc = "drop"])
  <1> DEFINE t == [c EXCEPT !.pc = "drop"]
  <1>1. /\ Told(t) /\ t.at = c.at /\ t.fn = c.fn /\ t.pc = "drop" /\ t.said = c.said
        /\ t.found = c.found /\ t.failed = c.failed /\ DriverOf(t) = DriverOf(c)
    BY DEF Told, Alters, DriverOf, ProcessOf
  <1> HIDE DEF t
  <1>2. LogHolds(t) /\ Blames(t) /\ NoticeIsTrue(t)
    BY <1>1 DEF LogHolds, Blames, NoticeIsTrue
  <1>3. HasWork(t) \/ t.said.notice # "none" \/ Fails(t) \/ t.fn \in Quiet
    <2>1. CASE Fails(c) \/ c.said.notice # "none"
      BY <1>1, <2>1 DEF Fails
    <2>2. CASE \A j \in DOMAIN DriverOf(b) : IsGuard(DriverOf(b), j) => j < b.at
      <3> SUFFICES ASSUME c.fn \notin Quiet PROVE HasWork(t)
        BY <1>1
      <3>1. TellsEmptiness(DriverOf(b))
        BY DEF Alters, Told, DriversAreTruthful, DriverOf, ProcessOf
      <3>2. PICK j \in DOMAIN DriverOf(b) : IsGuard(DriverOf(b), j)
        BY <3>1 DEF TellsEmptiness
      <3>3. HasWork(b)
        BY <2>2, <3>2 DEF Running, GuardsHold
      <3> QED
        BY <1>1, <3>3 DEF HasWork
    <2> QED
      BY <2>1, <2>2
  <1> QED
    BY <1>1, <1>2, <1>3 DEF TellInv, HasRun, t

\* The last call is replaced by one that satisfies the invariant ...
Says == calls # <<>> /\ UNCHANGED error /\ \E t : TellInv(t) /\ Update(t)
\* ... or all calls are thrown away, and the blame is right.
Fell == calls' = <<>> /\ BlameIsRight'

\* The last call satisfies the invariant.
LEMMA TopTells ==
    ASSUME TellsInv, calls # <<>>
    PROVE  TellInv(Top)
  BY StackHasTop DEF TellsInv, Top

\* The step that runs.
LEMMA StepRuns ==
    ASSUME TellsInv, NEW kind, At(kind)
    PROVE  /\ calls # <<>> /\ Runs(Top, Top.at) /\ Alters(Top, Top) /\ Told(Top)
           /\ Top.fn \in DOMAIN Catalogue /\ ~Fails(Top)
           /\ Step = DriverOf(Top)[Top.at] /\ Step.do = kind
  <1>1. calls # <<>> /\ Top.pc = "driver" /\ TellInv(Top)
    BY TopTells DEF At, InDriver
  <1>2. Running(Top)
    BY <1>1 DEF TellInv
  <1>3. Told(Top) /\ ~Fails(Top)
    BY <1>2 DEF Running
  <1>4. Top.fn \in DOMAIN Catalogue
    BY <1>3 DEF Told
  <1> QED
    BY <1>1, <1>2, <1>3, <1>4 DEF At, Runs, Alters, DriverOf, Step

\* The driver goes on as it is.
LEMMA SaysOn ==
    ASSUME DriversAreTruthful, TellsInv, calls # <<>>,
           NEW c, Runs(Top, Top.at), Alters(Top, c), ~Fails(c),
           HintGoesOn(Top, Top.at, c), LogHolds(c), FoundGoesOn(Top, Top.at, c),
           NoticeGoesOn(Top, Top.at, c),
           IsGuard(DriverOf(Top), Top.at) => HasWork(c), GoOn(c)
    PROVE  Says
  <1>0. PICK b, i : b = Top /\ i = Top.at
    OBVIOUS
  <1>1. TellInv([c EXCEPT !.at = @ + 1])
    BY <1>0, TellsOn
  <1> QED
    BY <1>1 DEF GoOn, Says

\* The driver leaves.
LEMMA SaysLast ==
    ASSUME DriversAreTruthful, TellsInv, calls # <<>>,
           NEW c, Running(Top), Top.pc = "driver", Alters(Top, c),
           c.found = Top.found, LogHolds(c), Blames(c), NoticeIsTrue(c),
           \/ Fails(c) \/ c.said.notice # "none"
           \/ \A j \in DOMAIN DriverOf(Top) : IsGuard(DriverOf(Top), j) => j < Top.at,
           Leave(c)
    PROVE  Says
  <1>0. PICK b : b = Top
    OBVIOUS
  <1>1. TellInv([c EXCEPT !.pc = "drop"])
    BY <1>0, TellsLast
  <1> QED
    BY <1>1 DEF Leave, Says

\* A step that is no guard, and changes neither the hint nor what is told or found.
LEMMA SaysNothing ==
    ASSUME DriversAreTruthful, TellsInv, NEW kind, At(kind), kind # "forget",
           NEW c, Alters(Top, c), c.said = Top.said, c.hint = Top.hint, c.found = Top.found,
           IsGuard(DriverOf(Top), Top.at) => HasWork(c), GoOn(c)
    PROVE  Says
  <1>1. /\ calls # <<>> /\ Runs(Top, Top.at) /\ Running(Top) /\ ~Fails(Top)
        /\ DriverOf(Top)[Top.at].do # "forget"
    BY StepRuns DEF Runs
  <1>2. ~Fails(c)
    BY <1>1 DEF Fails
  <1>3. LogHolds(c)
    <2>1. LogHolds(Top) /\ DriverOf(c) = DriverOf(Top) /\ c.at = Top.at
      BY <1>1 DEF Running, Alters, DriverOf, ProcessOf
    <2> QED
      BY <2>1 DEF LogHolds
  <1>4. HintGoesOn(Top, Top.at, c) /\ FoundGoesOn(Top, Top.at, c) /\ NoticeGoesOn(Top, Top.at, c)
    BY <1>1 DEF HintGoesOn, FoundGoesOn, NoticeGoesOn
  <1> QED
    BY <1>1, <1>2, <1>3, <1>4, SaysOn

\* Only a test for emptiness is a guard.
LEMMA NoGuard ==
    ASSUME NEW d, NEW i, d[i].do \notin {"stop", "throw"}
    PROVE  ~IsGuard(d, i)
  BY DEF IsGuard

\* A step without a guard after it or at it.
LEMMA GuardsBefore ==
    ASSUME DriversAreTruthful, TellsInv, NEW kind, At(kind),
           \/ kind \in {"nothing", "answer"}
           \/ kind = "stop" /\ Step.notice = "none"
    PROVE  \A j \in DOMAIN DriverOf(Top) : IsGuard(DriverOf(Top), j) => j < Top.at
  <1>0. PICK d, i : d = DriverOf(Top) /\ i = Top.at
    OBVIOUS
  <1>1. d[i].do = kind /\ d[i] = Step /\ i \in DOMAIN d /\ Top.fn \in DOMAIN Catalogue
    BY <1>0, StepRuns DEF Runs
  <1>2. DOMAIN d = 1..Len(d) /\ Len(d) \in Nat
    BY <1>0, <1>1, DriverIsList DEF DriverOf, ProcessOf
  <1> SUFFICES ASSUME NEW j \in DOMAIN d, IsGuard(d, j), ~(j < i) PROVE FALSE
    BY <1>0
  <1>3. i \in 1..j
    BY <1>1, <1>2
  <1>4. d[i].do \notin {"nothing", "answer"} /\ (d[i].do = "stop" => d[i].notice # "none")
    BY <1>3 DEF IsGuard
  <1> QED
    BY <1>1, <1>4

\* Queries are read.
LEMMA ReadTells ==
    ASSUME DriversAreTruthful, TellsInv, ReadRows \/ ReadNothing \/ ReadThrows
    PROVE  Says
  <1>1. At("read")
    BY DEF ReadRows, ReadNothing, ReadThrows
  <1>2. /\ calls # <<>> /\ Runs(Top, Top.at) /\ Told(Top) /\ ~Fails(Top)
        /\ Step = DriverOf(Top)[Top.at] /\ Step.do = "read"
    BY <1>1, StepRuns
  <1>3. /\ Running(Top) /\ Top.pc = "driver"
        /\ ~IsGuard(DriverOf(Top), Top.at) /\ IsRead(DriverOf(Top), Top.at, Step.of)
        /\ Top.at \in DOMAIN DriverOf(Top) /\ Top.at \in Nat
    BY <1>2, NoGuard DEF Runs, IsRead, Told
  <1>4. LogHolds(Top) /\ NoticeIsTrue(Top)
    BY <1>3 DEF Running
  <1>5. CASE ReadRows
    <2> DEFINE c == [Top EXCEPT !.hint = HintOf(Top, Step.of), !.found = @ \union {Step.of}]
    <2>1. /\ Alters(Top, c) /\ c.said = Top.said /\ c.hint = Step.of
          /\ c.found = Top.found \union {Step.of} /\ DriverOf(c) = DriverOf(Top)
      BY <1>2 DEF Alters, Told, HintOf, DriverOf, ProcessOf
    <2>2. GoOn(c)
      BY <1>5 DEF ReadRows
    <2> HIDE DEF c
    <2>3. ~Fails(c) /\ LogHolds(c)
      BY <1>2, <1>4, <2>1 DEF Fails, LogHolds, Alters
    <2>4. HintGoesOn(Top, Top.at, c) /\ FoundGoesOn(Top, Top.at, c) /\ NoticeGoesOn(Top, Top.at, c)
      BY <1>2, <1>3, <2>1 DEF HintGoesOn, FoundGoesOn, NoticeGoesOn
    <2> QED
      BY <1>2, <1>3, <2>1, <2>2, <2>3, <2>4, SaysOn
  <1>6. CASE ReadNothing
    <2> DEFINE c == [Top EXCEPT !.hint = IF Asked(Step.of) THEN HintOf(Top, Step.of) ELSE "none"]
    <2>1. /\ Alters(Top, c) /\ c.said = Top.said /\ c.hint \in {"none", Step.of}
          /\ c.found = Top.found /\ DriverOf(c) = DriverOf(Top)
      BY <1>2 DEF Alters, Told, HintOf, DriverOf, ProcessOf
    <2>2. GoOn(c)
      BY <1>6 DEF ReadNothing
    <2> HIDE DEF c
    <2>3. ~Fails(c) /\ LogHolds(c)
      BY <1>2, <1>4, <2>1 DEF Fails, LogHolds, Alters
    <2>4. HintGoesOn(Top, Top.at, c) /\ FoundGoesOn(Top, Top.at, c) /\ NoticeGoesOn(Top, Top.at, c)
      BY <1>2, <1>3, <2>1 DEF HintGoesOn, FoundGoesOn, NoticeGoesOn
    <2> QED
      BY <1>2, <1>3, <2>1, <2>2, <2>3, <2>4, SaysOn
  <1>7. CASE ReadThrows
    <2> DEFINE c == Thrown([Top EXCEPT !.hint = HintOf(Top, Step.of)], Step.of)
    <2>1. /\ Alters(Top, c) /\ c.said.notice = Top.said.notice /\ c.said.err = "bad query"
          /\ c.said.log = Step.of /\ c.failed = Step.of
          /\ c.found = Top.found /\ DriverOf(c) = DriverOf(Top)
      BY <1>2 DEF Alters, Told, HintOf, Thrown, DriverOf, ProcessOf
    <2>2. Leave(c)
      BY <1>7 DEF ReadThrows
    <2> HIDE DEF c
    <2>3. Fails(c) /\ Blames(c) /\ NoticeIsTrue(c)
      BY <1>4, <2>1 DEF Fails, Blames, NoticeIsTrue, Alters
    <2>4. LogHolds(c)
      <3>0. PICK i : i = Top.at
        OBVIOUS
      <3>1. i \in Nat
        BY <1>3, <3>0
      <3>2. i <= i
        BY <3>1
      <3>3. c.at = i
        BY <2>1, <3>0 DEF Alters
      <3> QED
        BY <1>3, <2>1, <3>0, <3>2, <3>3 DEF LogHolds
    <2> QED
      BY <1>2, <1>3, <2>1, <2>2, <2>3, <2>4, SaysLast
  <1> QED
    BY <1>5, <1>6, <1>7

\* Arrays are read when the hint has been forgotten.
LEMMA ArraysTell ==
    ASSUME DriversAreTruthful, TellsInv, ReadArrays
    PROVE  Says
  <1>1. At("arrays")
    BY DEF ReadArrays
  <1>2. /\ calls # <<>> /\ Runs(Top, Top.at) /\ Told(Top) /\ Alters(Top, Top)
        /\ Top.fn \in DOMAIN Catalogue
        /\ Step = DriverOf(Top)[Top.at] /\ Step.do = "arrays"
    BY <1>1, StepRuns
  <1>3. Running(Top) /\ Top.pc = "driver" /\ Top.at \in DOMAIN DriverOf(Top)
    BY <1>2 DEF Runs
  <1>4. LogHolds(Top) /\ NoticeIsTrue(Top) /\ HintHolds(Top)
    BY <1>3 DEF Running
  <1>5. CASE GoOn(Top)
    <2>1. ~IsGuard(DriverOf(Top), Top.at)
      BY <1>2, NoGuard
    <2> QED
      BY <1>1, <1>2, <1>5, <2>1, SaysNothing
  <1>6. CASE Leave(Thrown(Top, "none"))
    <2>1. Top.hint = "none"
      <3>0. PICK d, i : d = DriverOf(Top) /\ i = Top.at
        OBVIOUS
      <3> SUFFICES ASSUME Top.hint # "none" PROVE FALSE
        OBVIOUS
      <3>1. PICK j \in DOMAIN d :
              /\ j < i /\ IsRead(d, j, Top.hint)
              /\ \A k \in DOMAIN d : j < k /\ k < i => d[k].do # "forget"
        BY <1>4, <3>0 DEF HintHolds
      <3>2. DOMAIN d = 1..Len(d) /\ Len(d) \in Nat
        BY <1>2, <3>0, DriverIsList DEF DriverOf, ProcessOf
      <3>3. i \in DOMAIN d /\ d[i].do = "arrays" /\ j \in 1..i
        BY <1>2, <1>3, <3>0, <3>1, <3>2
      <3>4. BlamesItsOwn(d)
        BY <1>2, <3>0 DEF DriversAreTruthful, DriverOf, ProcessOf
      <3>5. d[j].do = "read"
        BY <3>1 DEF IsRead
      <3>6. PICK k \in j..i : d[k].do = "forget"
        BY <3>3, <3>4, <3>5 DEF BlamesItsOwn
      <3>7. k # j /\ k # i
        BY <3>3, <3>5, <3>6
      <3>8. k \in DOMAIN d /\ j < k /\ k < i
        BY <3>2, <3>3, <3>6, <3>7
      <3> QED
        BY <3>1, <3>6, <3>8
    <2> DEFINE c == Thrown(Top, "none")
    <2>2. /\ Alters(Top, c) /\ c.said.notice = Top.said.notice /\ c.said.err = "bad query"
          /\ c.said.log = "none" /\ c.failed = "none" /\ c.found = Top.found
      BY <1>2, <2>1 DEF Alters, Told, Thrown
    <2>3. Leave(c)
      BY <1>6
    <2> HIDE DEF c
    <2>4. Fails(c) /\ Blames(c) /\ NoticeIsTrue(c)
      BY <1>4, <2>2 DEF Fails, Blames, NoticeIsTrue, Alters
    <2>5. LogHolds(c)
      BY <2>2 DEF LogHolds, Queries, EdgeQueries
    <2> QED
      BY <1>2, <1>3, <2>2, <2>3, <2>4, <2>5, SaysLast
  <1> QED
    BY <1>5, <1>6 DEF ReadArrays

\* The hint is a query that was run.
LEMMA HintIsRead ==
    ASSUME DriversAreTruthful, NEW b, Running(b), b.hint \in Queries
    PROVE  \E j \in DOMAIN DriverOf(b) : j <= b.at /\ IsRead(DriverOf(b), j, b.hint)
  <1>1. b.hint # "none" /\ HintHolds(b)
    BY DEF Running, Queries, EdgeQueries
  <1>2. PICK j \in DOMAIN DriverOf(b) : j < b.at /\ IsRead(DriverOf(b), j, b.hint)
    BY <1>1 DEF HintHolds
  <1>0. PICK i : i = b.at
    OBVIOUS
  <1>3. i \in Nat /\ j \in Nat
    <2>1. Told(b)
      BY DEF Running
    <2>2. DOMAIN DriverOf(b) = 1..Len(DriverOf(b)) /\ Len(DriverOf(b)) \in Nat
      BY <2>1, DriverIsList DEF Told, DriverOf, ProcessOf
    <2> QED
      BY <1>0, <2>1, <2>2 DEF Told
  <1>4. j <= i
    BY <1>0, <1>2, <1>3
  <1> QED
    BY <1>0, <1>2, <1>4

\* Steps are in order.
LEMMA NotBefore ==
    ASSUME NEW i \in Nat, NEW j \in Nat, j >= i
    PROVE  ~(j < i)
  OBVIOUS

\* "No edges" is said when none of the edges that were asked for came.
LEMMA NoEdgesIsTrue ==
    ASSUME DriversAreTruthful, NEW b, NEW i, Runs(b, i), b.fn \notin Misleading,
           DriverOf(b)[i].do \in {"stop", "note"}, DriverOf(b)[i].notice = "No edges",
           (b.found \intersect DriverOf(b)[i].of) \intersect EdgeQueries = {}
    PROVE  /\ b.found \intersect EdgeQueries = {}
           /\ DriverOf(b)[i].do = "note" => NoEdgesAfter(b, i)
  <1>0. PICK d : d = DriverOf(b)
    OBVIOUS
  <1>1. NoticesAreMeant(d)
    BY <1>0 DEF Runs, Running, Told, DriversAreTruthful, DriverOf, ProcessOf
  <1>2. /\ i \in DOMAIN d /\ Speaks(d, i)
        /\ \A j \in DOMAIN d : d[j].do = "read" /\ d[j].of \in EdgeQueries =>
             IF j < i THEN d[j].of \in d[i].of ELSE d[i].do = "stop"
    BY <1>0, <1>1 DEF NoticesAreMeant, Speaks, Runs
  <1>3. ASSUME NEW q \in b.found, q \in EdgeQueries PROVE FALSE
    <2>1. PICK j \in DOMAIN d : j < i /\ IsRead(d, j, q)
      BY <1>0 DEF Runs, Running, FoundHolds
    <2>2. q \in d[i].of
      BY <1>2, <1>3, <2>1 DEF IsRead
    <2> QED
      BY <1>0, <1>3, <2>2
  <1>4. \A j \in DOMAIN d : j >= i => ~(j < i)
    <2>1. \A j \in DOMAIN d : j \in Nat
      BY <1>0, DriverIsList DEF Runs, Running, Told, DriverOf, ProcessOf
    <2>2. i \in Nat
      BY DEF Runs, Running, Told
    <2> QED
      BY <2>1, <2>2, NotBefore
  <1>5. ASSUME d[i].do = "note", NEW j \in DOMAIN d, j >= i
        PROVE  ~(d[j].do = "read" /\ d[j].of \in EdgeQueries)
    BY <1>2, <1>4, <1>5
  <1> QED
    BY <1>0, <1>3, <1>5 DEF NoEdgesAfter

\* A message names a query that was run.
LEMMA LogIsRead ==
    ASSUME DriversAreTruthful, NEW b, NEW i, Runs(b, i), Speaks(DriverOf(b), i),
           DriverOf(b)[i].log \in Queries
    PROVE  \E j \in DOMAIN DriverOf(b) : j <= i /\ IsRead(DriverOf(b), j, DriverOf(b)[i].log)
  <1>0. PICK d : d = DriverOf(b)
    OBVIOUS
  <1>1. LogsWereRead(d) /\ DOMAIN d = 1..Len(d) /\ Len(d) \in Nat
    BY <1>0, DriverIsList DEF Runs, Running, Told, DriversAreTruthful, DriverOf, ProcessOf
  <1>2. i \in DOMAIN d
    BY <1>0 DEF Runs
  <1>3. PICK j \in 1..i : d[j].do = "read" /\ d[j].of = d[i].log
    BY <1>0, <1>1, <1>2 DEF LogsWereRead
  <1>4. j \in DOMAIN d /\ j <= i
    BY <1>1, <1>2, <1>3
  <1> QED
    BY <1>0, <1>3, <1>4 DEF IsRead

\* The driver stops with a message, or there is something to work on.
LEMMA StopTells ==
    ASSUME DriversAreTruthful, TellsInv, StopEarly
    PROVE  Says
  <1>1. At("stop")
    BY DEF StopEarly
  <1>2. /\ calls # <<>> /\ Runs(Top, Top.at) /\ Told(Top) /\ Alters(Top, Top) /\ ~Fails(Top)
        /\ Step = DriverOf(Top)[Top.at] /\ Step.do = "stop"
    BY <1>1, StepRuns
  <1>3. Running(Top) /\ Top.pc = "driver" /\ Top.at \in DOMAIN DriverOf(Top)
    BY <1>2 DEF Runs
  <1>4. CASE ~NoneFound(Step) /\ GoOn(Top)
    <2>1. IsGuard(DriverOf(Top), Top.at) => HasWork(Top)
      <3> SUFFICES ASSUME IsGuard(DriverOf(Top), Top.at) PROVE HasWork(Top)
        OBVIOUS
      <3>1. Step.of \subseteq Essential /\ {} \in Step.when
        BY <1>2 DEF IsGuard
      <3>2. \A q \in Step.of : Asked(q)
        BY <3>1 DEF Asked, Essential
      <3>3. Top.found \intersect Step.of # {}
        BY <1>4, <3>1, <3>2 DEF NoneFound
      <3> QED
        BY <3>1, <3>3 DEF HasWork
    <2> QED
      BY <1>1, <1>2, <1>4, <2>1, SaysNothing
  <1>5. CASE /\ NoneFound(Step)
             /\ Leave([Top EXCEPT !.said.notice = Step.notice, !.said.log = Resolved(Step.log)])
    <2> DEFINE c == [Top EXCEPT !.said.notice = Step.notice, !.said.log = Resolved(Step.log)]
    <2>1. /\ Alters(Top, c) /\ c.said.notice = Step.notice /\ c.said.err = Top.said.err
          /\ c.said.log = Resolved(Step.log) /\ c.found = Top.found /\ DriverOf(c) = DriverOf(Top)
      BY <1>2 DEF Alters, Told, DriverOf, ProcessOf
    <2>2. Leave(c)
      BY <1>5
    <2> HIDE DEF c
    <2>3. Blames(c)
      BY <1>2, <2>1 DEF Fails, Blames
    <2>4. LogHolds(c)
      <3> SUFFICES ASSUME c.said.log \in Queries
                   PROVE  \E j \in DOMAIN DriverOf(Top) :
                            j <= Top.at /\ IsRead(DriverOf(Top), j, c.said.log)
        BY <2>1 DEF LogHolds, Alters
      <3>1. CASE Step.log = "hint"
        BY <1>3, <2>1, <3>1, HintIsRead DEF Resolved
      <3>2. CASE Step.log # "hint"
        <4>1. c.said.log = Step.log /\ Speaks(DriverOf(Top), Top.at)
          BY <1>2, <2>1, <3>2 DEF Resolved, Speaks
        <4> QED
          BY <1>2, <4>1, LogIsRead
      <3> QED
        BY <3>1, <3>2
    <2>5. NoticeIsTrue(c)
      <3> SUFFICES ASSUME Step.notice = "No edges", Top.fn \notin Misleading
                   PROVE  Top.found \intersect EdgeQueries = {}
        BY <2>1 DEF NoticeIsTrue, Alters
      <3>1. NoticesAreMeant(DriverOf(Top)) /\ Speaks(DriverOf(Top), Top.at)
        BY <1>2 DEF Told, DriversAreTruthful, DriverOf, ProcessOf, Speaks
      <3>2. \A x \in Step.when : x \intersect EdgeQueries = {}
        BY <1>2, <1>3, <3>1 DEF NoticesAreMeant
      <3>3. (Top.found \intersect Step.of) \intersect EdgeQueries = {}
        BY <1>5, <3>2 DEF NoneFound
      <3> QED
        BY <1>2, <3>3, NoEdgesIsTrue
    <2>6. \/ c.said.notice # "none"
          \/ \A j \in DOMAIN DriverOf(Top) : IsGuard(DriverOf(Top), j) => j < Top.at
      BY <1>1, <2>1, GuardsBefore
    <2> QED
      BY <1>2, <1>3, <2>1, <2>2, <2>3, <2>4, <2>5, <2>6, SaysLast
  <1> QED
    BY <1>4, <1>5 DEF StopEarly

\* The messages are set, and the driver goes on.
LEMMA NoteTells ==
    ASSUME DriversAreTruthful, TellsInv, NoteOnly
    PROVE  Says
  <1>1. At("note")
    BY DEF NoteOnly
  <1>2. /\ calls # <<>> /\ Runs(Top, Top.at) /\ Told(Top) /\ Alters(Top, Top) /\ ~Fails(Top)
        /\ Step = DriverOf(Top)[Top.at] /\ Step.do = "note"
        /\ ~IsGuard(DriverOf(Top), Top.at)
    BY <1>1, StepRuns, NoGuard
  <1>3. CASE GoOn(Top)
    BY <1>1, <1>2, <1>3, SaysNothing
  <1>4. CASE /\ Top.found \intersect Step.of = {}
             /\ GoOn([Top EXCEPT !.said.notice = Step.notice, !.said.log = Step.log])
    <2> DEFINE c == [Top EXCEPT !.said.notice = Step.notice, !.said.log = Step.log]
    <2>1. /\ Alters(Top, c) /\ c.said.notice = Step.notice /\ c.said.err = Top.said.err
          /\ c.said.log = Step.log /\ c.hint = Top.hint
          /\ c.found = Top.found /\ DriverOf(c) = DriverOf(Top)
      BY <1>2 DEF Alters, Told, DriverOf, ProcessOf
    <2>2. GoOn(c)
      BY <1>4
    <2> HIDE DEF c
    <2>3. ~Fails(c) /\ HintGoesOn(Top, Top.at, c) /\ FoundGoesOn(Top, Top.at, c)
      BY <1>2, <2>1 DEF Fails, HintGoesOn, FoundGoesOn
    <2>4. LogHolds(c)
      <3> SUFFICES ASSUME Step.log \in Queries
                   PROVE  \E j \in DOMAIN DriverOf(Top) :
                            j <= Top.at /\ IsRead(DriverOf(Top), j, Step.log)
        BY <2>1 DEF LogHolds, Alters
      <3>1. Speaks(DriverOf(Top), Top.at)
        BY <1>2 DEF Speaks
      <3> QED
        BY <1>2, <3>1, LogIsRead
    <2>5. NoticeGoesOn(Top, Top.at, c)
      <3> SUFFICES ASSUME Step.notice = "No edges", Top.fn \notin Misleading
                   PROVE  Top.found \intersect EdgeQueries = {} /\ NoEdgesAfter(Top, Top.at)
        BY <2>1 DEF NoticeGoesOn, Alters
      <3>1. (Top.found \intersect Step.of) \intersect EdgeQueries = {}
        BY <1>4
      <3> QED
        BY <1>2, <3>1, NoEdgesIsTrue
    <2> QED
      BY <1>2, <2>1, <2>2, <2>3, <2>4, <2>5, SaysOn
  <1> QED
    BY <1>3, <1>4 DEF NoteOnly

\* An ERROR throws the calls away; the blame of "bad query" is that of the last one.
LEMMA RaiseFells ==
    ASSUME NEW text, NEW hint, Raise(text, hint),
           text = "bad query" => hint = Top.failed
    PROVE  Fell
  BY DEF Raise, Fell, BlameIsRight

\* What is told with an error that the data or the search raises.
LEMMA FailsTells ==
    ASSUME DriversAreTruthful, TellsInv, NEW kind, At(kind), NEW c, Alters(Top, c),
           c.found = Top.found, c.said.notice = Top.said.notice,
           c.said.err \notin {"none", "bad query"},
           c.said.log \in {"none", Top.said.log, Top.hint}, Leave(c)
    PROVE  Says
  <1>1. calls # <<>> /\ Runs(Top, Top.at) /\ Told(Top)
    BY StepRuns
  <1>2. Running(Top) /\ Top.pc = "driver"
    BY <1>1 DEF Runs
  <1>3. DriverOf(c) = DriverOf(Top) /\ c.at = Top.at
    BY DEF Alters, DriverOf, ProcessOf
  <1>4. NoticeIsTrue(c) /\ Blames(c) /\ Fails(c)
    BY <1>2 DEF NoticeIsTrue, Blames, Fails, Running, Alters
  <1>5. LogHolds(c)
    <2> SUFFICES ASSUME c.said.log \in Queries
                 PROVE  \E j \in DOMAIN DriverOf(Top) :
                          j <= Top.at /\ IsRead(DriverOf(Top), j, c.said.log)
      BY <1>3 DEF LogHolds
    <2>1. CASE c.said.log = "none"
      BY <2>1 DEF Queries, EdgeQueries
    <2>2. CASE c.said.log = Top.said.log
      BY <1>2, <2>2 DEF Running, LogHolds
    <2>3. CASE c.said.log = Top.hint
      BY <1>2, <2>3, HintIsRead
    <2> QED
      BY <2>1, <2>2, <2>3
  <1> QED
    BY <1>1, <1>2, <1>4, <1>5, SaysLast

\* "No edges found" is thrown, or there are edges.
LEMMA ThrowTells ==
    ASSUME DriversAreTruthful, TellsInv, ThrowEarly
    PROVE  Says
  <1>1. At("throw")
    BY DEF ThrowEarly
  <1>2. /\ Told(Top) /\ Alters(Top, Top)
        /\ Step = DriverOf(Top)[Top.at] /\ Step.do = "throw"
    BY <1>1, StepRuns
  <1>3. CASE Top.found \intersect Step.of # {} /\ GoOn(Top)
    <2>1. IsGuard(DriverOf(Top), Top.at) => HasWork(Top)
      BY <1>2, <1>3 DEF IsGuard, HasWork
    <2> QED
      BY <1>1, <1>2, <1>3, <2>1, SaysNothing
  <1>4. CASE Leave([Top EXCEPT !.said.err = "No edges", !.said.log = Top.hint])
    <2> DEFINE c == [Top EXCEPT !.said.err = "No edges", !.said.log = Top.hint]
    <2>1. /\ Alters(Top, c) /\ c.said.notice = Top.said.notice /\ c.said.err = "No edges"
          /\ c.said.log = Top.hint /\ c.found = Top.found
      BY <1>2 DEF Alters, Told
    <2>2. Leave(c)
      BY <1>4
    <2> HIDE DEF c
    <2> QED
      BY <1>1, <2>1, <2>2, FailsTells
  <1> QED
    BY <1>3, <1>4 DEF ThrowEarly

\* The data are refused.
LEMMA CheckTells ==
    ASSUME DriversAreTruthful, TellsInv, CheckData
    PROVE  Says
  <1>1. At("check")
    BY DEF CheckData
  <1>2. /\ Told(Top) /\ Alters(Top, Top) /\ ~IsGuard(DriverOf(Top), Top.at)
    BY <1>1, StepRuns, NoGuard
  <1>3. CASE GoOn(Top)
    BY <1>1, <1>2, <1>3, SaysNothing
  <1>4. CASE Leave([Top EXCEPT !.said.err = "bad data"])
    <2> DEFINE c == [Top EXCEPT !.said.err = "bad data"]
    <2>1. /\ Alters(Top, c) /\ c.said.notice = Top.said.notice /\ c.said.err = "bad data"
          /\ c.said.log = Top.said.log /\ c.found = Top.found
      BY <1>2 DEF Alters, Told
    <2>2. Leave(c)
      BY <1>4
    <2> HIDE DEF c
    <2> QED
      BY <1>1, <2>1, <2>2, FailsTells
  <1> QED
    BY <1>3, <1>4 DEF CheckData

\* catch (...), from a call that has its tuples or none.
LEMMA CaughtTells ==
    ASSUME DriversAreTruthful, TellsInv, NEW kind, At(kind), NEW b, Alters(Top, b),
           b.said = Top.said, b.found = Top.found, NEW how, Leave(Caught(b, how))
    PROVE  Says
  <1> DEFINE c == Caught(b, how)
  <1>1. /\ Alters(Top, c) /\ c.said.notice = Top.said.notice /\ c.said.err = "exception"
        /\ c.said.log = "none" /\ c.found = Top.found
    BY DEF Alters, Told, Caught
  <1> HIDE DEF c
  <1> QED
    BY <1>1, FailsTells DEF c

\* A search and the tuples say nothing, unless they throw.
LEMMA FindTells ==
    ASSUME DriversAreTruthful, TellsInv, Find \/ FillTuples
    PROVE  Says
  <1>1. PICK kind \in {"search", "fill"} : At(kind)
    BY DEF Find, FillTuples
  <1>2. Told(Top) /\ Alters(Top, Top) /\ ~IsGuard(DriverOf(Top), Top.at)
    BY <1>1, StepRuns, NoGuard
  <1>3. ASSUME Find PROVE Says
    <2>1. CASE Leave(Caught(Top, "pgr_free"))
      BY <1>1, <1>2, <2>1, CaughtTells
    <2>2. CASE \E answer \in AnswersOf(Top.fn) : GoOn([Top EXCEPT !.answer = answer])
      <3>1. PICK answer \in AnswersOf(Top.fn) : GoOn([Top EXCEPT !.answer = answer])
        BY <2>2
      <3> DEFINE c == [Top EXCEPT !.answer = answer]
      <3>2. Alters(Top, c) /\ c.said = Top.said /\ c.hint = Top.hint /\ c.found = Top.found
        BY <1>2 DEF Alters, Told
      <3>3. GoOn(c)
        BY <3>1
      <3> HIDE DEF c
      <3> QED
        BY <1>1, <1>2, <3>2, <3>3, SaysNothing
    <2> QED
      BY <1>3, <2>1, <2>2 DEF Find
  <1>4. ASSUME FillTuples PROVE Says
    <2>1. /\ Alters(Top, Filled(Top)) /\ Filled(Top).said = Top.said
          /\ Filled(Top).hint = Top.hint /\ Filled(Top).found = Top.found
      BY <1>2 DEF Alters, Told, Filled
    <2>2. CASE GoOn(Filled(Top))
      BY <1>1, <1>2, <2>1, <2>2, SaysNothing
    <2>3. CASE Leave(Caught(Filled(Top), Step.catch))
      BY <1>1, <2>1, <2>3, CaughtTells
    <2> QED
      BY <1>4, <2>2, <2>3 DEF FillTuples
  <1> QED
    BY <1>3, <1>4

\* Nothing was found, and a driver may say so or not.
LEMMA NothingTells ==
    ASSUME DriversAreTruthful, TellsInv, NothingFound
    PROVE  Says
  <1>1. At("nothing")
    BY DEF NothingFound
  <1>2. /\ calls # <<>> /\ Runs(Top, Top.at) /\ Told(Top) /\ Alters(Top, Top) /\ ~Fails(Top)
        /\ Top.fn \in DOMAIN Catalogue
        /\ Step = DriverOf(Top)[Top.at] /\ Step.do = "nothing"
        /\ ~IsGuard(DriverOf(Top), Top.at)
    BY <1>1, StepRuns, NoGuard
  <1>3. /\ Running(Top) /\ Top.pc = "driver" /\ Top.at \in DOMAIN DriverOf(Top)
        /\ Speaks(DriverOf(Top), Top.at)
    BY <1>2 DEF Runs, Speaks
  <1>4. CASE GoOn(Top)
    BY <1>1, <1>2, <1>4, SaysNothing
  <1>5. CASE Leave([Top EXCEPT !.said.notice = Replaced(@, Step.notice),
                              !.said.log = Replaced(@, Step.log),
                              !.said.err = Replaced(@, Step.err)])
    <2> DEFINE c == [Top EXCEPT !.said.notice = Replaced(@, Step.notice),
                                !.said.log = Replaced(@, Step.log),
                                !.said.err = Replaced(@, Step.err)]
    <2>1. /\ Alters(Top, c) /\ c.found = Top.found /\ DriverOf(c) = DriverOf(Top)
          /\ c.said.notice \in {Top.said.notice, Step.notice}
          /\ c.said.log \in {Top.said.log, Step.log}
          /\ c.said.err \in {Top.said.err, Step.err}
      BY <1>2 DEF Alters, Told, DriverOf, ProcessOf, Replaced
    <2>2. Leave(c)
      BY <1>5
    <2> HIDE DEF c
    <2>3. Blames(c)
      <3>1. BlamesItsOwn(DriverOf(Top))
        BY <1>2 DEF DriversAreTruthful, DriverOf, ProcessOf
      <3>2. Step.err # "bad query"
        BY <1>2, <1>3, <3>1 DEF BlamesItsOwn
      <3> QED
        BY <1>2, <2>1, <3>2 DEF Blames, Fails
    <2>4. LogHolds(c)
      <3> SUFFICES ASSUME c.said.log \in Queries
                   PROVE  \E j \in DOMAIN DriverOf(Top) :
                            j <= Top.at /\ IsRead(DriverOf(Top), j, c.said.log)
        BY <2>1 DEF LogHolds, Alters
      <3>1. CASE c.said.log = Top.said.log
        BY <1>3, <3>1 DEF Running, LogHolds
      <3>2. CASE c.said.log = Step.log
        BY <1>2, <1>3, <3>2, LogIsRead
      <3> QED
        BY <2>1, <3>1, <3>2
    <2>5. NoticeIsTrue(c)
      <3>1. CASE c.said.notice = Top.said.notice
        BY <1>3, <2>1, <3>1 DEF NoticeIsTrue, Running, Alters
      <3>2. CASE c.said.notice = Step.notice
        <4>1. c.fn \notin Misleading => NoticesAreMeant(DriverOf(Top))
          BY <1>2, <2>1 DEF DriversAreTruthful, DriverOf, ProcessOf, Alters
        <4>2. c.fn \notin Misleading => Step.notice # "No edges"
          BY <1>2, <1>3, <4>1 DEF NoticesAreMeant
        <4> QED
          BY <3>2, <4>2 DEF NoticeIsTrue
      <3> QED
        BY <2>1, <3>1, <3>2
    <2>6. \A j \in DOMAIN DriverOf(Top) : IsGuard(DriverOf(Top), j) => j < Top.at
      BY <1>1, GuardsBefore
    <2> QED
      BY <1>2, <1>3, <2>1, <2>2, <2>3, <2>4, <2>5, <2>6, SaysLast
  <1> QED
    BY <1>4, <1>5 DEF NothingFound

\* A driver leaves with what it told while it ran.
LEMMA LeavesAsItIs ==
    ASSUME DriversAreTruthful, TellsInv, calls # <<>>, Running(Top), Top.pc = "driver",
           NEW c, Alters(Top, c), c.said = Top.said, c.found = Top.found,
           \A j \in DOMAIN DriverOf(Top) : IsGuard(DriverOf(Top), j) => j < Top.at,
           Leave(c)
    PROVE  Says
  <1>1. DriverOf(c) = DriverOf(Top) /\ c.at = Top.at /\ c.fn = Top.fn
    BY DEF Alters, DriverOf, ProcessOf
  <1>2. LogHolds(c) /\ NoticeIsTrue(c) /\ Blames(c)
    BY <1>1 DEF Running, LogHolds, NoticeIsTrue, Blames, Fails
  <1> QED
    BY <1>2, SaysLast

\* Without restrictions the first answer is the answer.
LEMMA FirstTells ==
    ASSUME DriversAreTruthful, TellsInv, FillFirst
    PROVE  Says
  <1>1. At("answer")
    BY DEF FillFirst
  <1>2. /\ calls # <<>> /\ Runs(Top, Top.at) /\ Told(Top) /\ Alters(Top, Top)
        /\ ~IsGuard(DriverOf(Top), Top.at)
    BY <1>1, StepRuns, NoGuard
  <1>3. Running(Top) /\ Top.pc = "driver"
    BY <1>2 DEF Runs
  <1>4. CASE GoOn(Top)
    BY <1>1, <1>2, <1>4, SaysNothing
  <1>5. CASE Leave(Filled(Top))
    <2>1. /\ Alters(Top, Filled(Top)) /\ Filled(Top).said = Top.said
          /\ Filled(Top).found = Top.found
      BY <1>2 DEF Alters, Told, Filled
    <2>2. \A j \in DOMAIN DriverOf(Top) : IsGuard(DriverOf(Top), j) => j < Top.at
      BY <1>1, GuardsBefore
    <2> QED
      BY <1>2, <1>3, <1>5, <2>1, <2>2, LeavesAsItIs
  <1> QED
    BY <1>4, <1>5 DEF FillFirst

\* The hint is forgotten, or the messages are.
LEMMA ForgetsTells ==
    ASSUME DriversAreTruthful, TellsInv, Forgotten \/ TellMessages
    PROVE  Says
  <1>1. PICK kind \in {"forget", "tell"} : At(kind)
    BY DEF Forgotten, TellMessages
  <1>2. /\ calls # <<>> /\ Runs(Top, Top.at) /\ Told(Top) /\ ~Fails(Top)
        /\ DriverOf(Top)[Top.at].do = kind /\ ~IsGuard(DriverOf(Top), Top.at)
    BY <1>1, StepRuns, NoGuard
  <1>3. LogHolds(Top)
    BY <1>2 DEF Runs, Running
  <1>4. ASSUME Forgotten PROVE Says
    <2> DEFINE c == [Top EXCEPT !.hint = "none"]
    <2>1. /\ Alters(Top, c) /\ c.said = Top.said /\ c.hint = "none"
          /\ c.found = Top.found /\ DriverOf(c) = DriverOf(Top)
      BY <1>2 DEF Alters, Told, DriverOf, ProcessOf
    <2>2. GoOn(c)
      BY <1>4 DEF Forgotten
    <2> HIDE DEF c
    <2>3. ~Fails(c) /\ LogHolds(c)
      BY <1>2, <1>3, <2>1 DEF Fails, LogHolds, Alters
    <2>4. HintGoesOn(Top, Top.at, c) /\ FoundGoesOn(Top, Top.at, c) /\ NoticeGoesOn(Top, Top.at, c)
      BY <2>1 DEF HintGoesOn, FoundGoesOn, NoticeGoesOn
    <2> QED
      BY <1>2, <2>1, <2>2, <2>3, <2>4, SaysOn
  <1>5. ASSUME TellMessages PROVE Says
    <2> DEFINE c == [Top EXCEPT !.said.notice = "none", !.said.log = "none"]
    <2>1. /\ Alters(Top, c) /\ c.said.notice = "none" /\ c.said.log = "none"
          /\ c.said.err = Top.said.err /\ c.hint = Top.hint /\ c.found = Top.found
      BY <1>2 DEF Alters, Told
    <2>2. GoOn(c)
      BY <1>5 DEF TellMessages
    <2> HIDE DEF c
    <2>3. ~Fails(c) /\ LogHolds(c)
      BY <1>2, <2>1 DEF Fails, LogHolds, Queries, EdgeQueries
    <2>4. DriverOf(Top)[Top.at].do # "forget"
      <3>1. At("tell")
        BY <1>5 DEF TellMessages
      <3>2. DriverOf(Top)[Top.at].do = "tell"
        BY <3>1, StepRuns
      <3> QED
        BY <3>2
    <2>5. HintGoesOn(Top, Top.at, c) /\ FoundGoesOn(Top, Top.at, c) /\ NoticeGoesOn(Top, Top.at, c)
      BY <2>1, <2>4 DEF HintGoesOn, FoundGoesOn, NoticeGoesOn
    <2> QED
      BY <1>2, <2>1, <2>2, <2>3, <2>5, SaysOn
  <1> QED
    BY <1>4, <1>5

\* The driver returns after its last step, and so after every guard.
LEMMA ReturnTells ==
    ASSUME DriversAreTruthful, TellsInv, Return
    PROVE  Says
  <1>1. /\ calls # <<>> /\ Top.pc = "driver" /\ Leave(Top)
        /\ Top.at = Len(DriverOf(Top)) + 1
    BY DEF Return, InDriver, DriverOf
  <1>2. Running(Top)
    BY <1>1, TopTells DEF TellInv
  <1>3. Told(Top) /\ Alters(Top, Top) /\ Top.fn \in DOMAIN Catalogue
    BY <1>2 DEF Running, Told, Alters
  <1>4. DOMAIN DriverOf(Top) = 1..Len(DriverOf(Top)) /\ Len(DriverOf(Top)) \in Nat
    BY <1>3, DriverIsList DEF DriverOf, ProcessOf
  <1>5. \A j \in DOMAIN DriverOf(Top) : j < Top.at
    BY <1>1, <1>4
  <1> QED
    BY <1>1, <1>2, <1>3, <1>5, LeavesAsItIs

\* Each step of a driver keeps the invariant, or raises an ERROR.
LEMMA DriverTells ==
    ASSUME DriversAreTruthful, TellsInv, DriverNext
    PROVE  Says \/ Fell
  <1>1. CASE ReadRows \/ ReadNothing \/ ReadThrows
    BY <1>1, ReadTells
  <1>2. CASE ReadArrays
    BY <1>2, ArraysTell
  <1>3. CASE Abort
    BY <1>3, RaiseFells DEF Abort
  <1>4. CASE Forgotten \/ TellMessages
    BY <1>4, ForgetsTells
  <1>5. CASE StopEarly
    BY <1>5, StopTells
  <1>6. CASE NoteOnly
    BY <1>6, NoteTells
  <1>7. CASE ThrowEarly
    BY <1>7, ThrowTells
  <1>8. CASE CheckData
    BY <1>8, CheckTells
  <1>9. CASE Find \/ FillTuples
    BY <1>9, FindTells
  <1>10. CASE NothingFound
    BY <1>10, NothingTells
  <1>11. CASE FillFirst
    BY <1>11, FirstTells
  <1>12. CASE Return
    BY <1>12, ReturnTells
  <1> QED
    BY <1>1, <1>2, <1>3, <1>4, <1>5, <1>6, <1>7, <1>8, <1>9, <1>10, <1>11, <1>12
       DEF DriverNext

-----------------------------------------------------------------------------
(* The steps of a process, and what they tell.                             *)

\* What was told stays.
LEMMA PassesTells ==
    ASSUME NEW c, TellInv(c), NEW t, Told(t), t.fn = c.fn, t.at = c.at, t.found = c.found,
           t.said = c.said, t.failed = c.failed,
           \/ t.pc \in {"rows", "left"} /\ ~Fails(c)
           \/ t.pc = "report" /\ c.pc = "drop"
           \/ t.pc = "finish" /\ c.pc = "report" /\ ~Fails(c)
    PROVE  TellInv(t)
  <1>1. Fails(t) <=> Fails(c)
    BY DEF Fails
  <1>2. ASSUME HasRun(c) PROVE HasRun(t)
    <2>1. DriverOf(t) = DriverOf(c)
      BY DEF DriverOf, ProcessOf
    <2>2. LogHolds(t) /\ NoticeIsTrue(t) /\ Blames(t)
      BY <1>2, <2>1 DEF HasRun, LogHolds, NoticeIsTrue, Blames
    <2> QED
      BY <1>1, <1>2, <2>2 DEF HasRun, HasWork
  <1> QED
    BY <1>1, <1>2 DEF TellInv

\* From one place to the next.
LEMMA ProcessTells ==
    ASSUME DriversAreTruthful, TellsInv,
           \/ pgr_SPI_connect \/ LeaveUnconnected \/ LeaveConnected
           \/ pgr_SPI_finish \/ Drop \/ SRF_RETURN_NEXT
    PROVE  Says
  <1>1. calls # <<>> /\ UNCHANGED error
    BY DEF pgr_SPI_connect, LeaveUnconnected, LeaveConnected, pgr_SPI_finish, Drop,
           SRF_RETURN_NEXT, Called, Starting, InDriver, Returning
  <1>2. TellInv(Top) /\ Told(Top) /\ (Fails(Top) => Top.pc \in {"drop", "report"})
    BY <1>1, TopTells DEF TellInv
  <1>3. CASE pgr_SPI_connect
    <2>1. Top.pc = "called" /\ Update([Top EXCEPT !.pc = "driver"])
      BY <1>3 DEF pgr_SPI_connect, Called
    <2> QED
      BY <1>1, <1>2, <2>1, BeginsRunning DEF Says
  <1>4. CASE LeaveUnconnected \/ LeaveConnected \/ pgr_SPI_finish
    <2>1. PICK p \in {"rows", "left"} :
            Top.pc \in {"called", "driver", "finish"} /\ Update([Top EXCEPT !.pc = p])
      BY <1>4 DEF LeaveUnconnected, LeaveConnected, pgr_SPI_finish, Called, Starting, InDriver
    <2> DEFINE t == [Top EXCEPT !.pc = p]
    <2>2. /\ Told(t) /\ t.pc = p /\ t.fn = Top.fn /\ t.at = Top.at /\ t.found = Top.found
          /\ t.said = Top.said /\ t.failed = Top.failed
      BY <1>2 DEF Told
    <2>3. Update(t)
      BY <2>1
    <2> HIDE DEF t
    <2>4. TellInv(t)
      BY <1>2, <2>1, <2>2, PassesTells
    <2> QED
      BY <1>1, <2>3, <2>4 DEF Says
  <1>5. CASE Drop
    <2>0. Top.pc = "drop"
      BY <1>5 DEF Drop
    <2> DEFINE b == Dropped(Top)
               t == [b EXCEPT !.pc = "report"]
    <2>1. /\ Told(b) /\ b.fn = Top.fn /\ b.at = Top.at /\ b.found = Top.found
          /\ b.said = Top.said /\ b.failed = Top.failed
      BY <1>2 DEF Told, Dropped
    <2>2. Update(t)
      BY <1>5 DEF Drop
    <2> HIDE DEF b
    <2>3. /\ Told(t) /\ t.pc = "report" /\ t.fn = Top.fn /\ t.at = Top.at
          /\ t.found = Top.found /\ t.said = Top.said /\ t.failed = Top.failed
      BY <2>1 DEF Told
    <2> HIDE DEF t
    <2>4. TellInv(t)
      BY <1>2, <2>0, <2>3, PassesTells
    <2> QED
      BY <1>1, <2>2, <2>4 DEF Says
  <1>6. CASE SRF_RETURN_NEXT
    <2>1. PICK n \in {Numbered(Top)} :
            Update([Top EXCEPT
              !.nth = @ + 1,
              !.out = Append(@, [path |-> n.path, seq |-> n.seq, own |-> This(Top).own]),
              !.rows = Overwritten(Top, n)])
      BY <1>6 DEF SRF_RETURN_NEXT
    <2> DEFINE t == [Top EXCEPT
              !.nth = @ + 1,
              !.out = Append(@, [path |-> n.path, seq |-> n.seq, own |-> This(Top).own]),
              !.rows = Overwritten(Top, n)]
    <2>2. Top.pc = "rows"
      BY <1>6 DEF SRF_RETURN_NEXT, Returning
    <2>3. /\ Told(t) /\ t.pc = "rows" /\ t.fn = Top.fn /\ t.at = Top.at
          /\ t.found = Top.found /\ t.said = Top.said /\ t.failed = Top.failed
      BY <1>2, <2>2 DEF Told
    <2>4. Update(t)
      BY <2>1
    <2> HIDE DEF t
    <2>5. TellInv(t)
      BY <1>2, <2>2, <2>3, PassesTells
    <2> QED
      BY <1>1, <2>4, <2>5 DEF Says
  <1> QED
    BY <1>3, <1>4, <1>5, <1>6

\* The messages are reported, and an error is raised with its hint.
LEMMA ReportTells ==
    ASSUME DriversAreTruthful, TellsInv, pgr_global_report
    PROVE  Says \/ Fell
  <1>1. calls # <<>> /\ Top.pc = "report" /\ TellInv(Top) /\ Told(Top) /\ HasRun(Top)
    BY TopTells DEF pgr_global_report, TellInv
  <1>2. CASE Fails(Top)
    <2>1. Raise(Top.said.err, Top.said.log)
      BY <1>2 DEF pgr_global_report, Fails
    <2>2. Top.said.err = "bad query" => Top.said.log = Top.failed
      BY <1>1 DEF HasRun, Blames
    <2> QED
      BY <2>1, <2>2, RaiseFells
  <1>3. CASE ~Fails(Top)
    <2> DEFINE t == [Top EXCEPT !.pc = "finish"]
    <2>1. /\ Told(t) /\ t.pc = "finish" /\ t.fn = Top.fn /\ t.at = Top.at
          /\ t.found = Top.found /\ t.said = Top.said /\ t.failed = Top.failed
      BY <1>1 DEF Told
    <2>2. Update(t) /\ UNCHANGED error
      BY <1>3 DEF pgr_global_report, Fails
    <2> HIDE DEF t
    <2>3. TellInv(t)
      BY <1>1, <1>3, <2>1, PassesTells
    <2> QED
      BY <1>1, <2>2, <2>3 DEF Says
  <1> QED
    BY <1>2, <1>3

\* A new last call, or none.
LEMMA SaysKeeps == TellsInv /\ Says => TellsInv'
  <1> SUFFICES ASSUME TellsInv, Says PROVE TellsInv'
    OBVIOUS
  <1>1. PICK t : TellInv(t) /\ Update(t)
    BY DEF Says
  <1>2. IsStack(calls) /\ calls # <<>> /\ Len(calls) \in Nat
    BY DEF TellsInv, Says, IsStack
  <1>3. TopReplaced(calls, calls', t)
    BY <1>1, <1>2, Replacing DEF Update
  <1>4. ASSUME NEW d \in 1..Len(calls') PROVE TellInv(calls'[d])
    <2>1. CASE d = Len(calls)
      BY <1>1, <1>3, <2>1 DEF TopReplaced
    <2>2. CASE d # Len(calls)
      <3>1. d \in 1..(Len(calls) - 1) /\ d \in 1..Len(calls)
        BY <1>2, <1>3, <2>2 DEF TopReplaced
      <3> QED
        BY <1>3, <3>1 DEF TopReplaced, TellsInv
    <2> QED
      BY <2>1, <2>2
  <1>5. BlameIsRight'
    BY DEF TellsInv, Says, BlameIsRight
  <1> QED
    BY <1>3, <1>4, <1>5 DEF TellsInv, TopReplaced

\* An ERROR leaves no call.
LEMMA FellKeeps == Fell => TellsInv'
  BY EmptyIsStack DEF Fell, TellsInv

\* A new call has told nothing.
LEMMA CallKeepsTold == TellsInv /\ Call => TellsInv'
  <1> SUFFICES ASSUME TellsInv, Call PROVE TellsInv'
    OBVIOUS
  <1>0. PICK f \in DOMAIN Catalogue :
          \E g \in Catalogue[f].forms : calls' = Append(calls, New(f, g))
    BY DEF Call
  <1>1. PICK g \in Catalogue[f].forms : calls' = Append(calls, New(f, g))
    BY <1>0
  <1>2. IsStack(calls) /\ Len(calls) \in Nat
    BY DEF TellsInv, IsStack
  <1>3. Pushed(calls, calls', New(f, g))
    BY <1>1, <1>2, Pushing
  <1>4. ASSUME NEW d \in 1..Len(calls') PROVE TellInv(calls'[d])
    <2>1. CASE d \in 1..Len(calls)
      BY <1>3, <2>1 DEF Pushed, TellsInv
    <2>2. CASE d \notin 1..Len(calls)
      <3>1. d = Len(calls) + 1
        BY <1>2, <1>3, <2>2 DEF Pushed
      <3>2. calls'[d] = New(f, g)
        BY <1>3, <3>1 DEF Pushed
      <3> QED
        BY <3>2, NewTells
    <2> QED
      BY <2>1, <2>2
  <1>5. BlameIsRight'
    BY DEF Call, None, BlameIsRight
  <1> QED
    BY <1>3, <1>4, <1>5 DEF TellsInv, Pushed

\* The calls below one that returns are what they were.
LEMMA ReturnKeepsTold == TellsInv /\ SRF_RETURN_DONE => TellsInv'
  <1> SUFFICES ASSUME TellsInv, SRF_RETURN_DONE PROVE TellsInv'
    OBVIOUS
  <1>1. IsStack(calls) /\ Len(calls) \in Nat /\ calls # <<>> /\ calls' = Front(calls)
    BY DEF SRF_RETURN_DONE, TellsInv, IsStack
  <1>2. Popped(calls, calls')
    BY <1>1, Popping
  <1>3. ASSUME NEW d \in 1..Len(calls') PROVE TellInv(calls'[d])
    <2>1. d \in 1..(Len(calls) - 1) /\ d \in 1..Len(calls)
      BY <1>1, <1>2 DEF Popped
    <2> QED
      BY <1>2, <2>1 DEF Popped, TellsInv
  <1>4. BlameIsRight'
    BY DEF SRF_RETURN_DONE, TellsInv, BlameIsRight
  <1> QED
    BY <1>2, <1>3, <1>4 DEF TellsInv, Popped

\* Every step keeps the invariant.
LEMMA TellsNext ==
    ASSUME DriversAreTruthful, TellsInv, [Next]_vars
    PROVE  TellsInv'
  <1>1. CASE Call
    BY <1>1, CallKeepsTold
  <1>2. CASE RefuseArguments \/ RefuseArgumentsLate
    BY <1>2, RaiseFells, FellKeeps DEF RefuseArguments, RefuseArgumentsLate
  <1>3. CASE \/ pgr_SPI_connect \/ LeaveUnconnected \/ LeaveConnected
             \/ pgr_SPI_finish \/ Drop \/ SRF_RETURN_NEXT
    BY <1>3, ProcessTells, SaysKeeps
  <1>4. CASE pgr_global_report
    BY <1>4, ReportTells, SaysKeeps, FellKeeps
  <1>5. CASE DriverNext
    BY <1>5, DriverTells, SaysKeeps, FellKeeps
  <1>6. CASE SRF_RETURN_DONE
    BY <1>6, ReturnKeepsTold
  <1>7. CASE UNCHANGED vars
    BY <1>7 DEF vars, TellsInv, BlameIsRight
  <1> QED
    BY <1>1, <1>2, <1>3, <1>4, <1>5, <1>6, <1>7 DEF Next

-----------------------------------------------------------------------------

\* What the client is told is true of the call: for every catalogue whose drivers name a
\* query only after they ran it, say "No edges" of all the queries for edges and before no
\* other, test somewhere for nothing to work on, with a message on every way out before,
\* and forget the hint before they read arrays; whatever the queries give, whichever of
\* them is wrong, and however the calls are nested.  The drivers set and reset three
\* messages and one pointer named hint (e_report.c:59 reports them); the functions that
\* say "No edges" of edges that came, or nothing at all, are in Misleading and in Quiet.
THEOREM MessagesAreTrueTheorem ==
    ASSUME DriversAreTruthful
    PROVE  Spec => []MessagesAreTrue
  <1>1. Init => TellsInv
    BY EmptyIsStack DEF Init, TellsInv, BlameIsRight, None
  <1>2. TellsInv /\ [Next]_vars => TellsInv'
    BY TellsNext
  <1>3. TellsInv => MessagesAreTrue
    BY TellsImplies
  <1> QED
    BY <1>1, <1>2, <1>3, PTL DEF Spec
=============================================================================
