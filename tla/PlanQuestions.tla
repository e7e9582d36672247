---------------------------- MODULE PlanQuestions ----------------------------
(***************************************************************************)
(* The operators of PlanArithmetic, asked about every input within bounds, *)
(* beside what the code means them to return.                              *)
(***************************************************************************)
EXTENDS PlanArithmetic

CONSTANTS
    MaxNeed,    \* minutes or units to share out
    MaxDate,    \* dates
    MaxMinute,  \* minutes of a block, and of the line of time of intervals
    MaxParts    \* blocks of a task, and intervals

\* Bounds of the inputs.
BoundsAssumption == {MaxNeed, MaxDate, MaxMinute, MaxParts} \subseteq Nat
ASSUME BoundsAssumption

VARIABLES asked, answered, answer

Intervals == {i \in (0 .. MaxMinute) \X (0 .. MaxMinute) : i[1] < i[2]}
Lists(S) == UNION {[1 .. n -> S] : n \in 0 .. MaxParts}

Questions ==
    [about : {"quotas"}, need : 0 .. MaxNeed, dates : SUBSET (1 .. MaxDate)]
    \union [about : {"dates"}, count : 1 .. MaxDate + 1, dates : SUBSET (1 .. MaxDate)]
    \union {q \in [about : {"shares"}, quantity : 1 .. MaxNeed, minutes : Lists(1 .. MaxMinute)] :
               DOMAIN q.minutes # {} /\ q.quantity >= Cardinality(DOMAIN q.minutes)}
    \union [about : {"union"}, intervals : Lists(Intervals), window : Intervals]

Answer(q) ==
    CASE q.about = "quotas" -> DailyQuotas(q.need, q.dates)
      [] q.about = "dates" -> EvenlySpaced(q.dates, q.count)
      [] q.about = "shares" -> Shares(q.quantity, q.minutes)
      [] q.about = "union" -> UnionMinutes(q.intervals, q.window)

Ask == asked \in Questions /\ answered = FALSE /\ answer = 0

Compute ==
    /\ ~answered
    /\ answered' = TRUE
    /\ answer' = Answer(asked)
    /\ UNCHANGED asked

Answering == Ask /\ [][Compute]_<< asked, answered, answer >>

Answered(about) == answered /\ asked.about = about

(* No minute of a task is dropped by the division into quotas: they add up *)
(* to the need, and no date gets two minutes more than another or less     *)
(* than a later one.                                                       *)
QuotasAddUp ==
    Answered("quotas") /\ asked.dates # {} =>
        /\ Total(answer) = asked.need
        /\ asked.need > 0 => DOMAIN answer = asked.dates
        /\ \A d, e \in DOMAIN answer : d < e => answer[d] - answer[e] \in {0, 1}

Places(chosen, dates) == {IndexIn(d, dates) : d \in chosen}

(* How far the next place, or the end of n dates, lies behind p.           *)
Gap(p, places, n) ==
    CHOOSE g \in 1 .. n : p + g \in places \union {n} /\ \A h \in 1 .. g - 1 : p + h \notin places

(* The chosen dates are as many as there are units, begin with the first   *)
(* date, and no two neighbours lie more than one date farther apart than   *)
(* two others.                                                             *)
DatesSpread ==
    Answered("dates") /\ asked.dates # {} =>
        LET n == Cardinality(asked.dates)
            places == Places(answer, asked.dates)
        IN  /\ Cardinality(answer) = Least(asked.count, n)
            /\ 0 \in places
            /\ \A p, r \in places : Gap(p, places, n) - Gap(r, places, n) \in -1 .. 1

(* The units of the blocks of a task add up to its amount, every block has *)
(* one, and a longer block never has fewer than a shorter one.  The code   *)
(* checks the first two as valid_distribution and falls back to the title. *)
SharesAddUp ==
    Answered("shares") =>
        /\ Total(answer) = asked.quantity
        /\ \A b \in DOMAIN answer : answer[b] >= 1
        /\ \A a, b \in DOMAIN answer : asked.minutes[a] > asked.minutes[b] => answer[a] >= answer[b]

(* Sharing out loses nothing, adds nothing and is as even as integers go.  *)
DivisionsExact == QuotasAddUp /\ DatesSpread /\ SharesAddUp

(* Merging the sorted intervals counts each minute that some interval      *)
(* covers, and counts it once.                                             *)
UnionCountsOnce ==
    Answered("union") =>
        answer = Cardinality({m \in asked.window[1] .. asked.window[2] - 1 :
                                 \E k \in DOMAIN asked.intervals :
                                     asked.intervals[k][1] <= m /\ m < asked.intervals[k][2]})

=============================================================================
