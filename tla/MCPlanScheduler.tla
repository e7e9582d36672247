--------------------------- MODULE MCPlanScheduler ---------------------------
(***************************************************************************)
(* Small instances of PlanScheduler for TLC: periods of three minutes, of  *)
(* which a plan may take two.                                              *)
(***************************************************************************)
EXTENDS PlanScheduler

CONSTANT none

OneTask == {1}
TwoTasks == {1, 2}

(* Fixed schedules: none, one minute, a period, most of a date.            *)
BusySets == {{}, {1}, 3 .. 5, 6 .. 9, {0, 4, 8, 10}}

Unchecked == [t \in Tasks |-> 0]
NoUnits == [t \in Tasks |-> 0]
NoHistory == [t \in Tasks |-> FALSE]

(* Deadlines in the middle of periods, at their ends and after the cycle.  *)
Contended ==
    [now : {0, 2}, busy : BusySets, remaining : [Tasks -> 0 .. 4], checked : {Unchecked}, checkedAll : {0},
     deadline : [Tasks -> {2, 4, 7, 9, 20, NoDeadline}], units : {NoUnits}, history : {NoHistory}]

(* Blocks checked in the current period, and amounts of a few units.       *)
Continued ==
    {i \in [now : {1}, busy : {{}, 3 .. 5, {2, 7}}, remaining : [Tasks -> {1, 3, 4}], checked : [Tasks -> {0, 1}], checkedAll : {0, 1, 2},
            deadline : [Tasks -> {8, NoDeadline}], units : [Tasks -> {0, 1, 3}], history : [Tasks -> BOOLEAN]] :
        \A t \in Tasks : i.checked[t] > 0 => i.history[t] /\ i.checkedAll >= i.checked[t]}

FreshOrContinued == Contended \union Continued

OneContended ==
    [now : {0}, busy : BusySets, remaining : [Tasks -> 1 .. 4], checked : {Unchecked}, checkedAll : {0},
     deadline : [Tasks -> {8, NoDeadline}], units : {NoUnits}, history : {NoHistory}]

=============================================================================
