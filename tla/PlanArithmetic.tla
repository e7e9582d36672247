--------------------------- MODULE PlanArithmetic ---------------------------
(***************************************************************************)
(* The integer arithmetic of a plan: app/services/plan_block_service.py    *)
(* shares minutes out over dates, a task's amount out over its blocks, and *)
(* counts the minutes that overlapping fixed schedules take.               *)
(*                                                                         *)
(* Dates and periods are integers in the order of time; what is shared out *)
(* is a function from them.                                                *)
(***************************************************************************)
EXTENDS Integers, FiniteSets, FiniteSetsExt, SequencesExt

Least(a, b) == IF a <= b THEN a ELSE b
AtLeastZero(n) == IF n < 0 THEN 0 ELSE n
Total(f) == MapThenSumSet(LAMBDA i : f[i], DOMAIN f)
Nothing == [i \in {} |-> 0]

(* The place of d among the elements of a set, counted from 0.             *)
IndexIn(d, dates) == Cardinality({x \in dates : x < d})

(* Equal quotas; the minutes left over go to the first dates.              *)
DailyQuotas(need, dates) ==
    IF need <= 0 \/ dates = {} THEN Nothing
    ELSE [d \in dates |->
             need \div Cardinality(dates)
             + (IF IndexIn(d, dates) < need % Cardinality(dates) THEN 1 ELSE 0)]

(* count of the dates, spread over all of them.                            *)
EvenlySpaced(dates, count) ==
    LET bounded == Least(count, Cardinality(dates))
    IN  {d \in dates :
            \E order \in 0 .. bounded - 1 : IndexIn(d, dates) = (order * Cardinality(dates)) \div bounded}

(* A task of which few units are left is planned on few dates.  The dates  *)
(* after the last of them have a quota of 0: they take what was not placed *)
(* before.                                                                 *)
TaskQuotas(need, dates, units) ==
    LET chosen == EvenlySpaced(dates, units)
        base == DailyQuotas(need, chosen)
        later == {d \in dates : \A c \in chosen : c < d}
    IN  CASE need <= 0 \/ dates = {} -> Nothing
          [] units = 0 -> DailyQuotas(need, dates)
          [] OTHER -> [d \in chosen \union later |-> IF d \in chosen THEN base[d] ELSE 0]

(***************************************************************************)
(* Units of a task's amount                                                *)
(***************************************************************************)
(* Rounding down, then one more for the largest remainders, the earlier    *)
(* block first among equals.                                               *)
LargestRemainder(quantity, minutes) ==
    LET total == Total(minutes)
        base == [b \in DOMAIN minutes |-> (quantity * minutes[b]) \div total]
        remainder == [b \in DOMAIN minutes |-> (quantity * minutes[b]) % total]
        Ahead(a, b) == remainder[a] > remainder[b] \/ (remainder[a] = remainder[b] /\ a < b)
        place == [b \in DOMAIN minutes |-> Cardinality({a \in DOMAIN minutes : Ahead(a, b)})]
    IN  [b \in DOMAIN minutes |->
            base[b] + (IF place[b] < quantity - Total(base) THEN 1 ELSE 0)]

\* Mutant of Shares: a short block may get nothing.
SharesWithZero(quantity, minutes) == LargestRemainder(quantity, minutes)

(* No block goes without a unit: if one would, each gets one and the rest  *)
(* is shared out.                                                          *)
Shares(quantity, minutes) ==
    LET first == LargestRemainder(quantity, minutes)
        extra == LargestRemainder(quantity - Cardinality(DOMAIN minutes), minutes)
    IN  IF \E b \in DOMAIN minutes : first[b] = 0
        THEN [b \in DOMAIN minutes |-> 1 + extra[b]]
        ELSE first

(***************************************************************************)
(* Overlapping intervals                                                   *)
(***************************************************************************)
(* An interval is << start, end >> with the end excluded.                  *)
Clip(i, window) ==
    << IF i[1] > window[1] THEN i[1] ELSE window[1], Least(i[2], window[2]) >>

(* Those of a list that something is left of in the window, by their       *)
(* places in it.                                                           *)
InWindow(intervals, window) ==
    {k \in DOMAIN intervals : Clip(intervals[k], window)[1] < Clip(intervals[k], window)[2]}

(* In the order of their starts, equal ones as they come in the list.      *)
Sorted(intervals, window) ==
    LET kept == InWindow(intervals, window)
        part == [k \in kept |-> Clip(intervals[k], window)]
        Before(a, b) == part[a][1] < part[b][1] \/ (part[a][1] = part[b][1] /\ a < b)
        place == [k \in kept |-> Cardinality({a \in kept : Before(a, k)})]
    IN  [n \in 1 .. Cardinality(kept) |-> part[CHOOSE k \in kept : place[k] = n - 1]]

\* Mutant of Extended: a later interval replaces the end of the merged one.
ExtendedByLast(run, i) ==
    IF i[1] <= run.end
    THEN [run EXCEPT !.end = i[2]]
    ELSE [sum |-> run.sum + run.end - run.start, start |-> i[1], end |-> i[2]]

(* One interval more, in the order of their starts.                        *)
Extended(run, i) ==
    IF i[1] <= run.end
    THEN [run EXCEPT !.end = IF i[2] > @ THEN i[2] ELSE @]
    ELSE [sum |-> run.sum + run.end - run.start, start |-> i[1], end |-> i[2]]

(* The minutes of the window that some interval takes, each counted once.  *)
UnionMinutes(intervals, window) ==
    LET sorted == Sorted(intervals, window)
        run == FoldLeft(Extended, [sum |-> 0, start |-> sorted[1][1], end |-> sorted[1][2]], Tail(sorted))
    IN  IF sorted = << >> THEN 0 ELSE run.sum + run.end - run.start

=============================================================================
