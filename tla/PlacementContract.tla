------------------------- MODULE PlacementContract -------------------------
(***************************************************************************)
(* What schedule_plan_blocks promises to the transactions that call it:    *)
(* it moves minutes that tasks still need into periods that have room for  *)
(* them, one block for a task in a period, never back, and goes through    *)
(* the periods in the order of time.                                       *)
(***************************************************************************)
EXTENDS Integers

CONSTANTS Tasks, Slots

VARIABLES
    left,   \* minutes a task still needs
    room,   \* minutes a period still has
    plan    \* minutes of the new block of a task in a period, 0 for none

vars == << left, room, plan >>

Init ==
    /\ left \in [Tasks -> Nat]
    /\ room \in [Slots -> Nat]
    /\ plan = [t \in Tasks |-> [p \in Slots |-> 0]]

Place(t, p, minutes) ==
    /\ plan[t][p] = 0
    /\ \A u \in Tasks, q \in Slots : q > p => plan[u][q] = 0
    /\ minutes <= room[p]
    /\ plan' = [plan EXCEPT ![t][p] = minutes]
    /\ left' = [left EXCEPT ![t] = @ - minutes]
    /\ room' = [room EXCEPT ![p] = @ - minutes]

Next == \E t \in Tasks, p \in Slots : \E minutes \in 1 .. left[t] : Place(t, p, minutes)

Spec == Init /\ [][Next]_vars

=============================================================================
