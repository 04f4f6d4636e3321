-------------------------- MODULE OrderAssignment --------------------------
(***************************************************************************)
(* What the pick and deliver solver does to the orders, whatever route a   *)
(* vehicle takes: orders wait, are loaded on vehicles one by one, and      *)
(* then change vehicles one by one or two crosswise; once nothing waits,   *)
(* the assignment can be kept, and what was kept last is the result.       *)
(* An assignment is the set of the non-empty loads of the vehicles.        *)
(***************************************************************************)
EXTENDS FiniteSets

VARIABLES orders,    \* the orders of the call
          waiting,   \* those not assigned yet
          loads,     \* what the vehicles carry
          kept       \* the loads of the best solution

vars == <<orders, waiting, loads, kept>>

\* The loads after two vehicles that carried a and b carry c and d.
Exchanged(a, b, c, d) == ((loads \ {a, b}) \cup {c, d}) \ {{}}

Init ==
  /\ waiting = orders
  /\ loads = {} /\ kept = {}

Load ==
  /\ \E o \in waiting, a \in loads \cup {{}} :
       waiting' = waiting \ {o} /\ loads' = (loads \ {a}) \cup {a \cup {o}}
  /\ UNCHANGED <<orders, kept>>

\* Also to a vehicle that was emptied in the same pass of decrease_truck.
Move ==
  /\ waiting = {}
  /\ \E a \in loads, b \in loads \cup {{}} : \E o \in a :
       a # b /\ loads' = Exchanged(a, b, a \ {o}, b \cup {o})
  /\ UNCHANGED <<orders, waiting, kept>>

Swap ==
  /\ waiting = {}
  /\ \E a, b \in loads : \E o \in a, p \in b :
       a # b /\ loads' = Exchanged(a, b, (a \ {o}) \cup {p}, (b \ {p}) \cup {o})
  /\ UNCHANGED <<orders, waiting, kept>>

Keep ==
  /\ waiting = {}
  /\ kept' = loads
  /\ UNCHANGED <<orders, waiting, loads>>

Restore ==
  /\ kept # {}
  /\ loads' = kept
  /\ UNCHANGED <<orders, waiting, kept>>

Next == Load \/ Move \/ Swap \/ Keep \/ Restore

Spec == Init /\ [][Next]_vars
=============================================================================
