------------------------ MODULE PlanArithmeticProofs ------------------------
(***************************************************************************)
(* Theorems about the operators of PlanArithmetic, for any need, dates,    *)
(* amount, blocks and intervals.                                           *)
(***************************************************************************)
EXTENDS PlanQuestions, FiniteSetTheorems, TLAPS

(***************************************************************************)
(* Totals                                                                  *)
(***************************************************************************)
(* Sums are folds of addition.                                             *)
Plus(a, b) == b + a
IsInteger(v) == v \in Int
Adding == INSTANCE FoldFacts WITH Op <- Plus, Good <- IsInteger

Part(f, S) == [i \in S |-> f[i]]
Member(s) == CHOOSE x \in s : TRUE
Members(S) == [s \in SUBSET S |-> Member(s)]

(* The library picks a member of every set it folds over.                  *)
LEMMA MembersPick ==
    ASSUME NEW S
    PROVE  Adding!Picks(Members(S), S)
<1>1. \A s \in SUBSET S : s # {} => Member(s) \in s
    BY DEF Member
<1> QED
    BY <1>1 DEF Adding!Picks, Members

(* A total is the result of a fold: an instance of what is proved of folds.*)
LEMMA TotalFolds ==
    ASSUME NEW g, NEW S, DOMAIN g = S, IsFiniteSet(S)
    PROVE  \E k : Adding!Unfolds(k, S, 0, g, Members(S)) /\ Total(g) = k[S]
<1> DEFINE Steps(k) == k = [s \in SUBSET S |->
                       IF s = {} THEN 0 ELSE g[CHOOSE x \in s : TRUE] + k[s \ {CHOOSE x \in s : TRUE}]]
           iter == CHOOSE k : Steps(k)
<1>1. \E k : Adding!Unfolds(k, S, 0, g, Members(S))
    <2> DEFINE pick == Members(S)
    <2>1. Adding!IsFiniteSet(S)
        BY DEF IsFiniteSet, Adding!IsFiniteSet
    <2>2. Adding!Picks(pick, S)
        BY MembersPick
    <2> HIDE DEF pick
    <2>3. \E k : Adding!Unfolds(k, S, 0, g, pick)
        BY <2>1, <2>2, Adding!UnfoldsExists
    <2> QED
        BY <2>3 DEF pick
<1>2. ASSUME NEW k
      PROVE  Adding!Unfolds(k, S, 0, g, Members(S)) <=> Steps(k)
    <2>1. \A s \in SUBSET S : Members(S)[s] = CHOOSE x \in s : TRUE
        BY DEF Members, Member
    <2>2. [s \in SUBSET S |-> IF s = {} THEN 0 ELSE Plus(k[s \ {Members(S)[s]}], g[Members(S)[s]])]
          = [s \in SUBSET S |->
                IF s = {} THEN 0 ELSE g[CHOOSE x \in s : TRUE] + k[s \ {CHOOSE x \in s : TRUE}]]
        BY <2>1 DEF Plus
    <2> QED
        BY <2>2 DEF Adding!Unfolds
<1>3. Adding!Unfolds(iter, S, 0, g, Members(S))
    <2> HIDE DEF Steps
    <2>1. \E k : Steps(k)
        BY <1>1, <1>2
    <2>2. Steps(iter)
        BY <2>1
    <2> HIDE DEF iter
    <2> QED
        BY <1>2, <2>2
<1>4. Total(g) = iter[S]
    BY DEF Total, MapThenSumSet, MapThenFoldSet
<1> HIDE DEF iter
<1> QED
    BY <1>3, <1>4

(* What holds of the empty set, and of every set of which it holds without *)
(* any one of its members, holds of every finite set.                      *)
LEMMA FiniteInduction ==
    ASSUME NEW D, IsFiniteSet(D), NEW B, {} \in B,
           \A S \in SUBSET D : S # {} /\ (\A x \in S : S \ {x} \in B) => S \in B
    PROVE  D \in B
<1> DEFINE Bad == {S \in SUBSET D : S \notin B}
<1>1. SUFFICES ASSUME Bad # {} PROVE FALSE
    OBVIOUS
<1>2. PICK S \in Bad : \A T \in Bad : T \subseteq S => T = S
    <2>1. Bad \in SUBSET (SUBSET D) /\ Adding!IsFiniteSet(D)
        BY DEF IsFiniteSet, Adding!IsFiniteSet
    <2> HIDE DEF Bad
    <2> QED
        BY <1>1, <2>1, Adding!LeastSubset
<1>3. S # {}
    BY <1>2
<1>4. \A x \in S : S \ {x} \in B
    BY <1>2
<1> QED
    BY <1>2, <1>3, <1>4

(* The total of a part of a function is what the fold of the whole has on  *)
(* the way.                                                                *)
LEMMA TotalParts ==
    ASSUME NEW D, IsFiniteSet(D), NEW f, DOMAIN f = D,
           NEW h, Adding!Unfolds(h, D, 0, f, Members(D)), NEW S \in SUBSET D
    PROVE  h[S] = Total(Part(f, S))
<1> DEFINE g == Part(f, S)
<1>1. DOMAIN g = S /\ IsFiniteSet(S)
    BY FS_Subset DEF Part
<1>2. \A i \in S : g[i] = f[i]
    BY DEF Part
<1> HIDE DEF g
<1>3. PICK k : Adding!Unfolds(k, S, 0, g, Members(S)) /\ Total(g) = k[S]
    BY <1>1, TotalFolds
<1>4. Adding!Unfolds(k, S, 0, f, Members(D))
    <2>1. \A s \in SUBSET S : s # {} => Members(S)[s] \in s /\ Members(D)[s] = Members(S)[s]
        BY DEF Members, Member
    <2>2. [s \in SUBSET S |-> IF s = {} THEN 0 ELSE Plus(k[s \ {Members(S)[s]}], g[Members(S)[s]])]
          = [s \in SUBSET S |-> IF s = {} THEN 0 ELSE Plus(k[s \ {Members(D)[s]}], f[Members(D)[s]])]
        BY <1>2, <2>1
    <2> QED
        BY <1>3, <2>2 DEF Adding!Unfolds
<1>5. Adding!IsFiniteSet(D) /\ Adding!Picks(Members(D), D)
    BY MembersPick DEF IsFiniteSet, Adding!IsFiniteSet
<1> DEFINE pick == Members(D)
<1>6. Adding!Unfolds(h, D, 0, f, pick) /\ Adding!Unfolds(k, S, 0, f, pick) /\ Adding!Picks(pick, D)
    BY <1>4, <1>5
<1> HIDE DEF pick
<1>7. S \in SUBSET D /\ D \in SUBSET D /\ S \subseteq S /\ S \subseteq D
    OBVIOUS
<1>8. h[S] = k[S]
    BY <1>5, <1>6, <1>7, Adding!UnfoldsOnce
<1> QED
    BY <1>3, <1>8 DEF g

(* One member of a total, whichever it is.                                 *)
LEMMA TotalSplits ==
    ASSUME NEW D, IsFiniteSet(D), NEW f, DOMAIN f = D, \A i \in D : f[i] \in Int
    PROVE  /\ Total(Part(f, {})) = 0
           /\ \A S \in SUBSET D : Total(Part(f, S)) \in Int
           /\ \A S \in SUBSET D : \A x \in S : Total(Part(f, S)) = Total(Part(f, S \ {x})) + f[x]
<1>1. PICK h : Adding!Unfolds(h, D, 0, f, Members(D))
    BY TotalFolds
<1>2. \A S \in SUBSET D : h[S] = Total(Part(f, S))
    BY <1>1, TotalParts
<1>3. \A S \in SUBSET D : S # {} => Member(S) \in S /\ h[S] = f[Member(S)] + h[S \ {Member(S)}]
    BY <1>1 DEF Adding!Unfolds, Members, Member, Plus
<1>4. h[{}] = 0
    BY <1>1 DEF Adding!Unfolds
<1>5. ASSUME NEW S \in SUBSET D
      PROVE  h[S] \in Int
    <2> DEFINE B == {T \in SUBSET D : h[T] \in Int}
    <2>1. {} \in B
        BY <1>4
    <2>2. ASSUME NEW T \in SUBSET S, T # {}, \A x \in T : T \ {x} \in B
          PROVE  T \in B
        <3>1. Member(T) \in T /\ h[T] = f[Member(T)] + h[T \ {Member(T)}]
            BY <1>3, <2>2
        <3>2. h[T \ {Member(T)}] \in Int /\ f[Member(T)] \in Int
            BY <2>2, <3>1
        <3> QED
            BY <3>1, <3>2
    <2>3. IsFiniteSet(S)
        BY FS_Subset
    <2> HIDE DEF B
    <2>4. S \in B
        BY <2>1, <2>2, <2>3, FiniteInduction
    <2> QED
        BY <2>4 DEF B
<1>6. ASSUME NEW S \in SUBSET D, NEW x \in S
      PROVE  h[S] = h[S \ {x}] + f[x]
    <2> DEFINE B == {T \in SUBSET D : \A y \in T : h[T] = h[T \ {y}] + f[y]}
    <2>1. {} \in B
        OBVIOUS
    <2>2. ASSUME NEW T \in SUBSET S, T # {}, \A y \in T : T \ {y} \in B
          PROVE  T \in B
        <3> DEFINE m == Member(T)
        <3>1. m \in T /\ h[T] = f[m] + h[T \ {m}]
            BY <1>3, <2>2
        <3> HIDE DEF m
        <3>2. ASSUME NEW y \in T, y # m
              PROVE  h[T] = h[T \ {y}] + f[y]
            <4> DEFINE U == (T \ {m}) \ {y}
            <4>1. h[T \ {m}] = h[U] + f[y]
                BY <2>2, <3>1, <3>2
            <4>2. U = (T \ {y}) \ {m}
                OBVIOUS
            <4>3. h[T \ {y}] = h[U] + f[m]
                BY <2>2, <3>1, <3>2, <4>2
            <4>4. h[U] \in Int /\ f[m] \in Int /\ f[y] \in Int
                BY <1>5, <3>1
            <4> HIDE DEF U
            <4> QED
                BY <3>1, <4>1, <4>3, <4>4
        <3>3. h[T] = h[T \ {m}] + f[m]
            BY <1>5, <3>1
        <3>4. \A y \in T : h[T] = h[T \ {y}] + f[y]
            BY <3>2, <3>3
        <3> QED
            BY <3>4 DEF B
    <2>3. IsFiniteSet(S)
        BY FS_Subset
    <2> HIDE DEF B
    <2>4. S \in B
        BY <2>1, <2>2, <2>3, FiniteInduction
    <2> QED
        BY <2>4 DEF B
<1> QED
    BY <1>2, <1>4, <1>5, <1>6, ZenonT(30)

(* The total of the whole.                                                 *)
LEMMA TotalType ==
    ASSUME NEW D, IsFiniteSet(D), NEW f \in [D -> Int]
    PROVE  Total(f) \in Int /\ Total(f) = Total(Part(f, D))
<1>1. f = Part(f, D)
    BY DEF Part
<1> QED
    BY <1>1, TotalSplits

(* More terms that are not negative make a total no smaller.               *)
LEMMA TotalGrows ==
    ASSUME NEW D, IsFiniteSet(D), NEW f \in [D -> Nat], NEW T \in SUBSET D
    PROVE  /\ Total(Part(f, T)) \in Nat
           /\ \A S \in SUBSET T : Total(Part(f, S)) <= Total(Part(f, T))
<1>1. /\ Total(Part(f, {})) = 0
      /\ \A S \in SUBSET D : Total(Part(f, S)) \in Int
      /\ \A S \in SUBSET D : \A x \in S : Total(Part(f, S)) = Total(Part(f, S \ {x})) + f[x]
    BY TotalSplits
<1> DEFINE Sum(S) == Total(Part(f, S))
           B == {T0 \in SUBSET D : Sum(T0) \in Nat /\ \A S \in SUBSET T0 : Sum(S) <= Sum(T0)}
<1> HIDE DEF Sum
<1>2. Sum({}) = 0 /\ (\A S \in SUBSET D : Sum(S) \in Int)
      /\ \A S \in SUBSET D : \A x \in S : Sum(S) = Sum(S \ {x}) + f[x]
    BY <1>1 DEF Sum
<1>3. {} \in B
    BY <1>2
<1>4. ASSUME NEW U \in SUBSET T, U # {}, \A x \in U : U \ {x} \in B
      PROVE  U \in B
    <2>1. PICK x \in U : TRUE
        BY <1>4
    <2>2. Sum(U) = Sum(U \ {x}) + f[x] /\ Sum(U \ {x}) \in Nat /\ f[x] \in Nat
        BY <1>2, <1>4
    <2>3. ASSUME NEW S \in SUBSET U, S # U
          PROVE  Sum(S) <= Sum(U)
        <3>1. PICK y \in U : y \notin S
            BY <2>3
        <3>2. Sum(S) <= Sum(U \ {y}) /\ Sum(S) \in Int /\ Sum(U \ {y}) \in Nat
            BY <1>2, <1>4, <3>1
        <3>3. Sum(U) = Sum(U \ {y}) + f[y] /\ f[y] \in Nat
            BY <1>2, <3>1
        <3> QED
            BY <3>2, <3>3
    <2>4. Sum(U) \in Nat /\ Sum(U) <= Sum(U)
        BY <2>2
    <2>5. \A S \in SUBSET U : Sum(S) <= Sum(U)
        BY <2>3, <2>4
    <2> QED
        BY <2>4, <2>5
<1>5. IsFiniteSet(T)
    BY FS_Subset
<1>6. T \in B
    <2> HIDE DEF B
    <2> QED
        BY <1>3, <1>4, <1>5, FiniteInduction
<1> QED
    BY <1>6 DEF Sum

(* One term that changes changes the total by as much.                     *)
LEMMA TotalChanges ==
    ASSUME NEW D, IsFiniteSet(D), NEW f \in [D -> Int], NEW g \in [D -> Int],
           NEW x \in D, \A i \in D \ {x} : g[i] = f[i]
    PROVE  Total(g) = Total(f) - f[x] + g[x]
<1>1. Part(f, D \ {x}) = Part(g, D \ {x})
    BY DEF Part
<1>2. /\ Total(f) = Total(Part(f, D \ {x})) + f[x] /\ Total(g) = Total(Part(g, D \ {x})) + g[x]
      /\ Total(Part(f, D \ {x})) \in Int
    BY TotalType, TotalSplits
<1> QED
    BY <1>1, <1>2

(* Terms that are 0 may be left out.                                       *)
LEMMA TotalZeros ==
    ASSUME NEW D, IsFiniteSet(D), NEW f \in [D -> Int], NEW S \in SUBSET D, \A i \in D \ S : f[i] = 0
    PROVE  Total(f) = Total(Part(f, S))
<1> DEFINE Sum(T) == Total(Part(f, T))
           B == {T \in SUBSET D : Sum(T) = Sum(T \intersect S)}
<1>1. /\ \A T \in SUBSET D : Sum(T) \in Int
      /\ \A T \in SUBSET D : \A x \in T : Sum(T) = Sum(T \ {x}) + f[x]
    BY TotalSplits
<1> HIDE DEF Sum
<1>2. {} \in B
    <2>1. {} \intersect S = {}
        OBVIOUS
    <2> QED
        BY <2>1
<1>3. ASSUME NEW T \in SUBSET D, T # {}, \A x \in T : T \ {x} \in B
      PROVE  T \in B
    <2>1. PICK x \in T : TRUE
        BY <1>3
    <2>2. Sum(T) = Sum(T \ {x}) + f[x] /\ Sum(T \ {x}) = Sum((T \ {x}) \intersect S)
        BY <1>1, <1>3
    <2>3. CASE x \in S
        <3>1. (T \ {x}) \intersect S = (T \intersect S) \ {x}
            OBVIOUS
        <3>2. Sum(T \intersect S) = Sum((T \intersect S) \ {x}) + f[x]
            BY <1>1, <2>3
        <3> QED
            BY <2>2, <3>1, <3>2
    <2>4. CASE x \notin S
        <3>1. (T \ {x}) \intersect S = T \intersect S /\ f[x] = 0
            BY <2>4
        <3>2. Sum(T \intersect S) \in Int
            BY <1>1
        <3> QED
            BY <2>2, <3>1, <3>2
    <2> QED
        BY <2>3, <2>4
<1>4. D \in B
    <2> HIDE DEF B
    <2> QED
        BY <1>2, <1>3, FiniteInduction
<1>5. D \intersect S = S
    OBVIOUS
<1> QED
    BY <1>4, <1>5, TotalType DEF Sum

(***************************************************************************)
(* Numbers                                                                 *)
(***************************************************************************)
(* Cutting off below zero.                                                 *)
LEMMA AtLeastZeroType ==
    ASSUME NEW a \in Int
    PROVE  AtLeastZero(a) \in Nat /\ (a >= 0 => AtLeastZero(a) = a)
    BY DEF AtLeastZero

(* A number below k windows lies in one of the first k.                    *)
LEMMA QuotientInRange ==
    ASSUME NEW a \in Nat, NEW k \in Nat, NEW w \in Nat \ {0}, a < k * w
    PROVE  a \div w \in 0 .. k - 1
<1>1. a \div w \in Nat /\ (a \div w) * w <= a
    BY SMT
<1>2. ASSUME a \div w >= k
      PROVE  FALSE
    <2>1. (a \div w) * w >= k * w
        BY <1>1, <1>2, SMT
    <2>2. k * w \in Int /\ (a \div w) * w \in Int
        BY <1>1, SMT
    <2> QED
        BY <1>1, <2>1, <2>2
<1> QED
    BY <1>1, <1>2

(* The quotient of a multiple and a rest below the divisor.                *)
LEMMA QuotientIs ==
    ASSUME NEW w \in Nat \ {0}, NEW q \in Int, NEW r \in 0 .. w - 1
    PROVE  (q * w + r) \div w = q
BY SMT

(* A later minute is in the same window or a later one.                    *)
LEMMA QuotientGrows ==
    ASSUME NEW a \in Nat, NEW b \in Nat, NEW w \in Nat \ {0}, a <= b
    PROVE  a \div w <= b \div w
BY SMT

(* Division with its remainder.                                            *)
LEMMA DivisionIs ==
    ASSUME NEW a \in Nat, NEW w \in Nat \ {0}
    PROVE  a \div w \in Nat /\ a % w \in 0 .. w - 1 /\ a = w * (a \div w) + (a % w)
<1> DEFINE q == a \div w
           r == a % w
<1>1. q \in Nat
    BY SMT
<1>2. q \in Int /\ r \in 0 .. w - 1 /\ a = q * w + r
    BY SMT
<1> HIDE DEF q, r
<1>3. q * w = w * q
    BY <1>1, SMT
<1>4. q \in Nat /\ r \in 0 .. w - 1 /\ a = w * q + r
    BY <1>1, <1>2, <1>3
<1> QED
    BY <1>4 DEF q, r

(* Quotas are natural numbers, whatever remainder is shared out.           *)
LEMMA DailyQuotasType ==
    ASSUME NEW need \in Nat, NEW dates, IsFiniteSet(dates), NEW d \in DOMAIN DailyQuotas(need, dates)
    PROVE  DailyQuotas(need, dates)[d] \in Nat /\ d \in dates
<1>1. need > 0 /\ dates # {}
    BY DEF DailyQuotas, Nothing
<1>2. Cardinality(dates) \in Nat \ {0}
    BY <1>1, FS_CardinalityType, FS_EmptySet
<1>3. need \div Cardinality(dates) \in Nat
    BY <1>2
<1> QED
    BY <1>1, <1>3 DEF DailyQuotas

(***************************************************************************)
(* Ranks and quotas                                                        *)
(***************************************************************************)
(* R puts the members of a set in a row.                                   *)
Orders(R, S) ==
    /\ \A x \in S : << x, x >> \notin R
    /\ \A x, y \in S : x # y => (<< x, y >> \in R) # (<< y, x >> \in R)
    /\ \A x, y, z \in S : << x, y >> \in R /\ << y, z >> \in R => << x, z >> \in R

Rank(R, S, d) == Cardinality({x \in S : << x, d >> \in R})

(* A row has an end.                                                       *)
LEMMA LastExists ==
    ASSUME NEW S, IsFiniteSet(S), NEW R, Orders(R, S), S # {}
    PROVE  \E m \in S : \A x \in S \ {m} : << x, m >> \in R
<1> DEFINE Ends(T) == \E m \in T : \A x \in T \ {m} : << x, m >> \in R
           B == {T \in SUBSET S : T = {} \/ Ends(T)}
<1>1. {} \in B
    OBVIOUS
<1>2. ASSUME NEW T \in SUBSET S, T # {}, \A x \in T : T \ {x} \in B
      PROVE  T \in B
    <2>1. PICK y \in T : TRUE
        BY <1>2
    <2>2. CASE T \ {y} = {}
        <3>1. \A x \in T \ {y} : << x, y >> \in R
            BY <2>2
        <3> QED
            BY <3>1
    <2>3. CASE T \ {y} # {}
        <3>1. PICK m \in T \ {y} : \A x \in (T \ {y}) \ {m} : << x, m >> \in R
            BY <1>2, <2>3
        <3>2. CASE << y, m >> \in R
            <4>1. \A x \in T \ {m} : << x, m >> \in R
                BY <3>1, <3>2
            <4> QED
                BY <3>1, <4>1
        <3>3. CASE << y, m >> \notin R
            <4>1. << m, y >> \in R
                BY <3>1, <3>3 DEF Orders
            <4>2. \A x \in T \ {y} : << x, y >> \in R
                BY <3>1, <4>1 DEF Orders
            <4> QED
                BY <4>2
        <3> QED
            BY <3>2, <3>3
    <2> QED
        BY <2>2, <2>3
<1>3. S \in B
    <2> HIDE DEF B
    <2> QED
        BY <1>1, <1>2, FiniteInduction
<1> QED
    BY <1>3

(* The smaller of two numbers is one of them.                              *)
LEMMA LeastType ==
    ASSUME NEW a \in Int, NEW b \in Int
    PROVE  Least(a, b) \in Int /\ Least(a, b) <= a /\ Least(a, b) <= b /\ Least(a, b) \in {a, b}
BY DEF Least

(* One for each member of S among the first k of a row.                    *)
First(R, S, k) == [d \in S |-> IF Rank(R, S, d) < k THEN 1 ELSE 0]

(* The ranks in a row are 0, 1 and so on: k of them, if there are so many, *)
(* are less than k.                                                        *)
LEMMA RanksCount ==
    ASSUME NEW S, IsFiniteSet(S), NEW R, Orders(R, S), NEW k \in Nat
    PROVE  Total(First(R, S, k)) = Least(k, Cardinality(S))
<1> DEFINE B == {T \in SUBSET S : Total(First(R, T, k)) = Least(k, Cardinality(T))}
<1>1. {} \in B
    <2>1. First(R, {}, k) = Part(First(R, {}, k), {}) /\ DOMAIN First(R, {}, k) = {}
        BY DEF First, Part
    <2> DEFINE f == First(R, {}, k)
    <2>2. DOMAIN f = {} /\ \A i \in {} : f[i] \in Int
        BY <2>1
    <2>3. IsFiniteSet({}) /\ Cardinality({}) = 0
        BY FS_EmptySet
    <2> HIDE DEF f
    <2>4. Total(Part(f, {})) = 0
        BY <2>2, <2>3, TotalSplits
    <2> QED
        BY <2>1, <2>3, <2>4 DEF Least, f
<1>2. ASSUME NEW T \in SUBSET S, T # {}, \A x \in T : T \ {x} \in B
      PROVE  T \in B
    <2>1. IsFiniteSet(T) /\ Orders(R, T)
        BY FS_Subset DEF Orders
    <2>2. PICK m \in T : \A x \in T \ {m} : << x, m >> \in R
        BY <1>2, <2>1, LastExists
    <2> DEFINE U == T \ {m}
               f == First(R, T, k)
    <2>3. IsFiniteSet(U) /\ Cardinality(U) = Cardinality(T) - 1 /\ Cardinality(U) \in Nat /\ Cardinality(T) \in Nat
        BY <2>1, FS_RemoveElement, FS_CardinalityType
    <2>4. Rank(R, T, m) = Cardinality(U)
        <3>1. {x \in T : << x, m >> \in R} = U
            BY <2>1, <2>2 DEF Orders
        <3> QED
            BY <3>1 DEF Rank
    <2>5. \A d \in U : Rank(R, T, d) = Rank(R, U, d)
        <3>1. \A d \in U : {x \in T : << x, d >> \in R} = {x \in U : << x, d >> \in R}
            BY <2>1, <2>2 DEF Orders
        <3> QED
            BY <3>1 DEF Rank
    <2>6. Part(f, U) = First(R, U, k)
        BY <2>5 DEF Part, First
    <2>7. f \in [T -> Int] /\ f[m] = IF Cardinality(U) < k THEN 1 ELSE 0
        BY <2>4 DEF First
    <2>8. Total(First(R, U, k)) = Least(k, Cardinality(U))
        BY <1>2
    <2> HIDE DEF f, U
    <2>9. Total(f) = Total(Part(f, T \ {m})) + f[m]
        BY <2>1, <2>7, TotalType, TotalSplits
    <2>10. Total(f) = Least(k, Cardinality(T))
        BY <2>3, <2>6, <2>7, <2>8, <2>9 DEF Least, U
    <2> QED
        BY <2>10 DEF f
<1>3. S \in B
    <2> HIDE DEF B
    <2> QED
        BY <1>1, <1>2, FiniteInduction
<1> QED
    BY <1>3

(* A later member of a row has a higher rank.                              *)
LEMMA RankGrows ==
    ASSUME NEW S, IsFiniteSet(S), NEW R, Orders(R, S), NEW x \in S, NEW y \in S, << x, y >> \in R
    PROVE  Rank(R, S, x) \in Nat /\ Rank(R, S, y) \in Nat /\ Rank(R, S, x) < Rank(R, S, y)
<1> DEFINE Before(d) == {z \in S : << z, d >> \in R}
<1>1. /\ Before(x) \in SUBSET S /\ Before(y) \in SUBSET S
      /\ Before(x) \in SUBSET (Before(y) \ {x}) /\ x \in Before(y)
    BY DEF Orders
<1>2. Rank(R, S, x) = Cardinality(Before(x)) /\ Rank(R, S, y) = Cardinality(Before(y))
    BY DEF Rank
<1> HIDE DEF Before
<1>3. IsFiniteSet(Before(y)) /\ Cardinality(Before(y)) \in Nat /\ IsFiniteSet(Before(y) \ {x})
    BY <1>1, FS_Subset, FS_CardinalityType, FS_RemoveElement
<1>4. Cardinality(Before(y) \ {x}) = Cardinality(Before(y)) - 1
    BY <1>1, <1>3, FS_RemoveElement
<1>5. Cardinality(Before(x)) <= Cardinality(Before(y) \ {x}) /\ Cardinality(Before(x)) \in Nat
    BY <1>1, <1>3, FS_Subset, FS_CardinalityType
<1> QED
    BY <1>2, <1>3, <1>4, <1>5

(* Every rank below the number of members is that of one of them.          *)
LEMMA RankReached ==
    ASSUME NEW S, IsFiniteSet(S), NEW R, Orders(R, S)
    PROVE  /\ Cardinality(S) \in Nat
           /\ \A d \in S : Rank(R, S, d) \in 0 .. Cardinality(S) - 1
           /\ \A k \in 0 .. Cardinality(S) - 1 : \E d \in S : Rank(R, S, d) = k
<1> DEFINE All(T) == /\ Cardinality(T) \in Nat
                     /\ \A d \in T : Rank(R, T, d) \in 0 .. Cardinality(T) - 1
                     /\ \A k \in 0 .. Cardinality(T) - 1 : \E d \in T : Rank(R, T, d) = k
           B == {T \in SUBSET S : All(T)}
<1>1. {} \in B
    <2>1. Cardinality({}) = 0
        BY FS_EmptySet
    <2> QED
        BY <2>1
<1>2. ASSUME NEW T \in SUBSET S, T # {}, \A x \in T : T \ {x} \in B
      PROVE  T \in B
    <2>1. IsFiniteSet(T) /\ Orders(R, T)
        BY FS_Subset DEF Orders
    <2>2. PICK m \in T : \A x \in T \ {m} : << x, m >> \in R
        BY <1>2, <2>1, LastExists
    <2> DEFINE U == T \ {m}
               u == Cardinality(U)
    <2>3. Cardinality(T) = u + 1 /\ u \in Nat
        <3>1. IsFiniteSet(U) /\ Cardinality(U) = Cardinality(T) - 1 /\ Cardinality(T) \in Nat
            BY <2>1, FS_RemoveElement, FS_CardinalityType
        <3>2. Cardinality(U) \in Nat
            BY <3>1, FS_CardinalityType
        <3> QED
            BY <3>1, <3>2
    <2>4. Rank(R, T, m) = u
        <3>1. {x \in T : << x, m >> \in R} = U
            BY <2>1, <2>2 DEF Orders
        <3> QED
            BY <3>1 DEF Rank
    <2>5. \A d \in U : Rank(R, T, d) = Rank(R, U, d)
        <3>1. \A d \in U : {x \in T : << x, d >> \in R} = {x \in U : << x, d >> \in R}
            BY <2>1, <2>2 DEF Orders
        <3> QED
            BY <3>1 DEF Rank
    <2>6. All(U)
        BY <1>2
    <2>7. /\ \A d \in U : Rank(R, U, d) \in 0 .. u - 1
          /\ \A k \in 0 .. u - 1 : \E d \in U : Rank(R, U, d) = k
        BY <2>6
    <2> HIDE DEF u
    <2>8. \A d \in T : Rank(R, T, d) \in 0 .. Cardinality(T) - 1
        <3>1. \A d \in T : d = m \/ d \in U
            OBVIOUS
        <3> HIDE DEF U
        <3> QED
            BY <2>3, <2>4, <2>5, <2>7, <3>1
    <2>9. ASSUME NEW k \in 0 .. Cardinality(T) - 1
          PROVE  \E d \in T : Rank(R, T, d) = k
        <3>1. k = u \/ k \in 0 .. u - 1
            BY <2>3
        <3> QED
            BY <2>4, <2>5, <2>7, <3>1
    <2>10. All(T)
        BY <2>3, <2>8, <2>9
    <2> HIDE DEF All
    <2> QED
        BY <2>10
<1>3. S \in B
    <2> HIDE DEF B
    <2> QED
        BY <1>1, <1>2, FiniteInduction
<1> QED
    BY <1>3

(* Whatever adds up like a total is the total.                             *)
LEMMA TotalOnce ==
    ASSUME NEW D, IsFiniteSet(D), NEW f \in [D -> Int], NEW h,
           h[{}] = 0, \A S \in SUBSET D : S # {} => \E x \in S : h[S] = h[S \ {x}] + f[x]
    PROVE  h[D] = Total(f)
<1> DEFINE B == {T \in SUBSET D : h[T] = Total(Part(f, T))}
<1>1. /\ Total(Part(f, {})) = 0
      /\ \A S \in SUBSET D : \A x \in S : Total(Part(f, S)) = Total(Part(f, S \ {x})) + f[x]
    BY TotalSplits
<1>2. {} \in B
    BY <1>1
<1>3. ASSUME NEW T \in SUBSET D, T # {}, \A x \in T : T \ {x} \in B
      PROVE  T \in B
    <2>1. PICK x \in T : h[T] = h[T \ {x}] + f[x]
        BY <1>3
    <2>2. h[T \ {x}] = Total(Part(f, T \ {x}))
        BY <1>3
    <2> QED
        BY <1>1, <2>1, <2>2
<1>4. D \in B
    <2> HIDE DEF B
    <2> QED
        BY <1>2, <1>3, FiniteInduction
<1> QED
    BY <1>4, TotalType

(* Totals of sums, of multiples and of equal terms.                        *)
LEMMA TotalAdds ==
    ASSUME NEW D, IsFiniteSet(D), NEW f \in [D -> Int], NEW g \in [D -> Int]
    PROVE  Total([i \in D |-> f[i] + g[i]]) = Total(f) + Total(g)
<1> DEFINE sum == [i \in D |-> f[i] + g[i]]
           h == [S \in SUBSET D |-> Total(Part(f, S)) + Total(Part(g, S))]
<1>1. sum \in [D -> Int] /\ \A i \in D : sum[i] = f[i] + g[i]
    OBVIOUS
<1>2. /\ Total(Part(f, {})) = 0 /\ Total(Part(g, {})) = 0
      /\ \A S \in SUBSET D : Total(Part(f, S)) \in Int /\ Total(Part(g, S)) \in Int
    BY TotalSplits
<1>3. ASSUME NEW S \in SUBSET D, NEW x \in S
      PROVE  h[S] = h[S \ {x}] + sum[x]
    <2>1. /\ Total(Part(f, S)) = Total(Part(f, S \ {x})) + f[x]
          /\ Total(Part(g, S)) = Total(Part(g, S \ {x})) + g[x]
        BY TotalSplits
    <2>2. Total(Part(f, S \ {x})) \in Int /\ Total(Part(g, S \ {x})) \in Int /\ f[x] \in Int /\ g[x] \in Int
        BY <1>2
    <2> QED
        BY <1>1, <2>1, <2>2
<1>4. h[{}] = 0 /\ h[D] = Total(f) + Total(g)
    BY <1>2, TotalType
<1> HIDE DEF h, sum
<1>5. h[D] = Total(sum)
    <2>1. \A S \in SUBSET D : S # {} => \E x \in S : h[S] = h[S \ {x}] + sum[x]
        BY <1>3
    <2>2. h[{}] = 0 /\ sum \in [D -> Int]
        BY <1>1, <1>4
    <2> QED
        BY <2>1, <2>2, TotalOnce
<1> QED
    BY <1>4, <1>5 DEF sum

(* Multiplying every part multiplies the total.                            *)
LEMMA TotalScales ==
    ASSUME NEW D, IsFiniteSet(D), NEW f \in [D -> Int], NEW q \in Int
    PROVE  Total([i \in D |-> q * f[i]]) = q * Total(f)
<1> DEFINE product == [i \in D |-> q * f[i]]
           h == [S \in SUBSET D |-> q * Total(Part(f, S))]
<1>0. \A a, b \in Int : q * a \in Int /\ q * (a + b) = q * a + q * b /\ q * 0 = 0
    OBVIOUS
<1>1. product \in [D -> Int] /\ \A i \in D : product[i] = q * f[i]
    BY <1>0
<1>2. /\ Total(Part(f, {})) = 0
      /\ \A S \in SUBSET D : Total(Part(f, S)) \in Int
      /\ \A S \in SUBSET D : \A x \in S : Total(Part(f, S)) = Total(Part(f, S \ {x})) + f[x]
    BY TotalSplits
<1>3. ASSUME NEW S \in SUBSET D, NEW x \in S
      PROVE  h[S] = h[S \ {x}] + product[x]
    <2>1. Total(Part(f, S \ {x})) \in Int /\ f[x] \in Int
        BY <1>2
    <2>2. q * Total(Part(f, S)) = q * Total(Part(f, S \ {x})) + q * f[x]
        BY <1>0, <1>2, <2>1
    <2> QED
        BY <1>1, <2>2
<1>4. h[{}] = 0 /\ h[D] = q * Total(f)
    BY <1>0, <1>2, TotalType
<1> HIDE DEF h, product
<1>5. h[D] = Total(product)
    <2>1. \A S \in SUBSET D : S # {} => \E x \in S : h[S] = h[S \ {x}] + product[x]
        BY <1>3
    <2>2. h[{}] = 0 /\ product \in [D -> Int]
        BY <1>1, <1>4
    <2> QED
        BY <2>1, <2>2, TotalOnce
<1> QED
    BY <1>4, <1>5 DEF product

(* The total of equal parts.                                               *)
LEMMA TotalEqual ==
    ASSUME NEW D, IsFiniteSet(D), NEW q \in Int
    PROVE  Total([i \in D |-> q]) = q * Cardinality(D)
<1> DEFINE f == [i \in D |-> q]
           h == [S \in SUBSET D |-> q * Cardinality(S)]
<1>1. f \in [D -> Int] /\ \A i \in D : f[i] = q
    OBVIOUS
<1>2. \A n \in Int : q * n = q * (n - 1) + q /\ q * 0 = 0
    OBVIOUS
<1>3. ASSUME NEW S \in SUBSET D, NEW x \in S
      PROVE  h[S] = h[S \ {x}] + f[x]
    <2>1. IsFiniteSet(S)
        BY FS_Subset
    <2>2. Cardinality(S \ {x}) = Cardinality(S) - 1 /\ Cardinality(S) \in Int
        BY <2>1, FS_RemoveElement, FS_CardinalityType
    <2> QED
        BY <1>1, <1>2, <2>2
<1>4. h[{}] = 0 /\ h[D] = q * Cardinality(D)
    BY <1>2, FS_EmptySet
<1> HIDE DEF h, f
<1>5. h[D] = Total(f)
    <2>1. \A S \in SUBSET D : S # {} => \E x \in S : h[S] = h[S \ {x}] + f[x]
        BY <1>3
    <2>2. h[{}] = 0 /\ f \in [D -> Int]
        BY <1>1, <1>4
    <2> QED
        BY <2>1, <2>2, TotalOnce
<1> QED
    BY <1>4, <1>5 DEF f

(* Pairs of dates, the earlier one first.                                   *)
Earlier(dates) == {r \in dates \X dates : r[1] < r[2]}

(* Dates are in a row.                                                     *)
LEMMA DatesInRow ==
    ASSUME NEW dates \in SUBSET Int
    PROVE  Orders(Earlier(dates), dates) /\ \A d \in dates : IndexIn(d, dates) = Rank(Earlier(dates), dates, d)
<1>1. \A x, y \in dates : << x, y >> \in Earlier(dates) <=> x < y
    BY DEF Earlier
<1>2. Orders(Earlier(dates), dates)
    BY <1>1 DEF Orders
<1>3. \A d \in dates : {x \in dates : x < d} = {x \in dates : << x, d >> \in Earlier(dates)}
    BY <1>1
<1> QED
    BY <1>2, <1>3 DEF IndexIn, Rank

(* No minute is dropped by the division into quotas.                       *)
LEMMA DailyQuotasAddUp ==
    ASSUME NEW need \in Nat, NEW dates \in SUBSET Int, IsFiniteSet(dates), need > 0, dates # {}
    PROVE  /\ DailyQuotas(need, dates) \in [dates -> Nat]
           /\ Total(DailyQuotas(need, dates)) = need
<1>0. ~(need <= 0 \/ dates = {})
    <2>1. ~(need <= 0)
        OBVIOUS
    <2> QED
        BY <2>1
<1> DEFINE n == Cardinality(dates)
           R == Earlier(dates)
           q == need \div n
           r == need % n
           base == [d \in dates |-> q]
           more == First(R, dates, r)
<1>1. n \in Nat \ {0}
    BY FS_CardinalityType, FS_EmptySet
<1>2. q \in Nat /\ r \in Nat /\ r < n /\ need = q * n + r
    BY <1>1
<1>3. DailyQuotas(need, dates) = [d \in dates |-> base[d] + more[d]]
    <2>1. \A d \in dates : IndexIn(d, dates) = Rank(R, dates, d)
        BY DatesInRow
    <2>2. \A d \in dates : base[d] = q /\ more[d] = IF Rank(R, dates, d) < r THEN 1 ELSE 0
        BY DEF First
    <2>3. DailyQuotas(need, dates) = [d \in dates |-> q + (IF IndexIn(d, dates) < r THEN 1 ELSE 0)]
        <3> HIDE DEF R, base, more
        <3> QED
            BY <1>0 DEF DailyQuotas
    <2> HIDE DEF base, more, q, r, R
    <2> QED
        BY <2>1, <2>2, <2>3
<1> HIDE DEF n
<1>4. base \in [dates -> Int] /\ more \in [dates -> Int] /\ \A d \in dates : base[d] + more[d] \in Nat
    <2> HIDE DEF q
    <2> QED
        BY <1>2 DEF First
<1>5. Total(base) = q * n
    <2>1. q \in Int
        BY <1>2
    <2> HIDE DEF q
    <2> QED
        BY <2>1, TotalEqual DEF n
<1>6. Total(more) = r
    <2>1. Orders(R, dates)
        BY DatesInRow
    <2> HIDE DEF R, r
    <2>2. Total(more) = Least(r, n)
        BY <1>2, <2>1, RanksCount DEF n
    <2> QED
        BY <1>1, <1>2, <2>2 DEF Least
<1> HIDE DEF base, more, q, r
<1>7. Total([d \in dates |-> base[d] + more[d]]) = Total(base) + Total(more)
    BY <1>4, TotalAdds
<1> QED
    BY <1>2, <1>3, <1>4, <1>5, <1>6, <1>7

(* No date gets two minutes more than another, or less than a later one.   *)
LEMMA DailyQuotasEven ==
    ASSUME NEW need \in Nat, NEW dates \in SUBSET Int, IsFiniteSet(dates), need > 0, dates # {},
           NEW d \in dates, NEW e \in dates, d < e
    PROVE  DailyQuotas(need, dates)[d] - DailyQuotas(need, dates)[e] \in {0, 1}
<1> DEFINE n == Cardinality(dates)
           q == need \div n
           r == need % n
           more(x) == IF IndexIn(x, dates) < r THEN 1 ELSE 0
<1>1. n \in Nat \ {0}
    BY FS_CardinalityType, FS_EmptySet
<1>2. q \in Nat /\ r \in Nat
    BY <1>1
<1>3. DailyQuotas(need, dates) = [x \in dates |-> q + more(x)]
    BY DEF DailyQuotas
<1>4. /\ IndexIn(d, dates) \in Nat /\ IndexIn(e, dates) \in Nat
      /\ IndexIn(d, dates) <= IndexIn(e, dates)
    <2>1. \A x \in dates : x < d => x < e
        OBVIOUS
    <2>2. /\ {x \in dates : x < d} \in SUBSET {x \in dates : x < e}
          /\ {x \in dates : x < e} \in SUBSET dates
        BY <2>1
    <2>3. IsFiniteSet({x \in dates : x < e})
        BY <2>2, FS_Subset
    <2> QED
        BY <2>2, <2>3, FS_Subset, FS_CardinalityType DEF IndexIn
<1>5. more(d) \in {0, 1} /\ more(e) \in {0, 1} /\ more(d) >= more(e)
    <2> HIDE DEF r
    <2> QED
        BY <1>2, <1>4
<1> HIDE DEF q, more
<1> QED
    BY <1>2, <1>3, <1>5

(* At least one date is chosen.                                            *)
LEMMA SomeChosen ==
    ASSUME NEW dates \in SUBSET Int, IsFiniteSet(dates), dates # {}, NEW count \in Nat \ {0}
    PROVE  EvenlySpaced(dates, count) # {}
<1> DEFINE Later == {r \in dates \X dates : r[1] > r[2]}
           n == Cardinality(dates)
           bounded == Least(count, n)
<1>1. \A x, y \in dates : << x, y >> \in Later <=> x > y
    OBVIOUS
<1> HIDE DEF Later
<1>2. Orders(Later, dates)
    BY <1>1 DEF Orders
<1>3. PICK m \in dates : \A x \in dates \ {m} : << x, m >> \in Later
    BY <1>2, LastExists
<1>4. IndexIn(m, dates) = 0
    <2>1. \A x \in dates : x # m => x > m
        BY <1>1, <1>3
    <2>2. \A x \in dates : x \in Int
        OBVIOUS
    <2>3. \A x \in dates : ~(x < m)
        BY <2>1, <2>2
    <2>4. {x \in dates : x < m} = {}
        BY <2>3
    <2> QED
        BY <2>4, FS_EmptySet DEF IndexIn
<1>5. n \in Nat \ {0}
    BY FS_CardinalityType, FS_EmptySet
<1>6. bounded \in Nat \ {0}
    <2> HIDE DEF n
    <2> QED
        BY <1>5 DEF Least
<1>7. 0 \in 0 .. bounded - 1 /\ (0 * n) \div bounded = 0
    <2> HIDE DEF bounded, n
    <2> QED
        BY <1>5, <1>6
<1>8. m \in EvenlySpaced(dates, count)
    <2>1. EvenlySpaced(dates, count)
          = {d \in dates : \E order \in 0 .. bounded - 1 : IndexIn(d, dates) = (order * n) \div bounded}
        BY DEF EvenlySpaced
    <2> HIDE DEF bounded, n
    <2> QED
        BY <1>4, <1>7, <2>1
<1> QED
    BY <1>8

(* The n-th multiple of a ratio, rounded down: from one to the next it     *)
(* grows by the ratio rounded down or by one more.                         *)
LEMMA StepsEven ==
    ASSUME NEW n \in Nat, NEW c \in Nat \ {0}, c <= n, NEW k \in Nat
    PROVE  /\ (k * n) \div c \in Nat
           /\ n \div c \in Nat \ {0}
           /\ ((k + 1) * n) \div c - (k * n) \div c \in {n \div c, n \div c + 1}
<1> DEFINE q == n \div c
           r == n % c
           s == (k * r) \div c
           t == (k * r) % c
<1>1. q \in Nat /\ r \in 0 .. c - 1 /\ n = c * q + r
    BY DivisionIs
<1>2. k * r \in Nat
    BY <1>1, SMT
<1>3. s \in Nat /\ t \in 0 .. c - 1 /\ k * r = c * s + t
    <2> HIDE DEF r
    <2> QED
        BY <1>2, DivisionIs
<1> HIDE DEF q, r, s, t
<1>4. q # 0
    <2>1. q = 0 => c * q = 0
        BY SMT
    <2> QED
        BY <1>1, <2>1
<1>5. k * q \in Nat /\ k * q + s \in Nat
    <2>1. k * q \in Nat
        BY <1>1, SMT
    <2> QED
        BY <1>3, <2>1
<1>6. k * n = (k * q + s) * c + t
    <2>1. k * n = k * (c * q) + k * r
        BY <1>1, SMT
    <2>2. (k * q + s) * c = k * (c * q) + c * s
        BY <1>1, <1>3, SMT
    <2>3. k * (c * q) \in Int /\ c * s \in Int
        BY <1>1, <1>3, SMT
    <2> QED
        BY <1>3, <2>1, <2>2, <2>3
<1>7. (k * n) \div c = k * q + s
    <2> DEFINE a == k * q + s
    <2>1. a \in Int /\ k * n = a * c + t
        BY <1>5, <1>6
    <2> HIDE DEF a
    <2>2. (a * c + t) \div c = a
        BY <1>3, <2>1, QuotientIs
    <2> QED
        BY <2>1, <2>2 DEF a
<1>8. (k + 1) * n = (k * q + s + q) * c + (t + r)
    <2> DEFINE a == k * q + s
    <2>1. (k + 1) * n = k * n + n
        BY SMT
    <2>2. (a + q) * c = a * c + c * q
        <3> HIDE DEF a
        <3> QED
            BY <1>1, <1>5, SMT DEF a
    <2>3. a * c \in Int /\ c * q \in Int
        <3>1. a \in Nat
            BY <1>5
        <3> HIDE DEF a
        <3> QED
            BY <1>1, <3>1, SMT
    <2>4. k * n = a * c + t
        BY <1>6
    <2> HIDE DEF a
    <2>5. (k + 1) * n = (a + q) * c + (t + r)
        BY <1>1, <1>3, <2>1, <2>2, <2>3, <2>4
    <2> QED
        BY <2>5 DEF a
<1> DEFINE a == k * q + s
<1>9. a \in Nat /\ (k * n) \div c = a /\ (k + 1) * n = (a + q) * c + (t + r)
    BY <1>5, <1>7, <1>8
<1> HIDE DEF a
<1>10. CASE t + r < c
    <2>1. a + q \in Int /\ t + r \in 0 .. c - 1
        BY <1>1, <1>3, <1>9, <1>10
    <2>2. ((k + 1) * n) \div c = a + q
        BY <1>9, <2>1, QuotientIs
    <2> QED
        BY <1>1, <1>4, <1>9, <2>2 DEF q
<1>11. CASE t + r >= c
    <2>1. a + q + 1 \in Int /\ t + r - c \in 0 .. c - 1
        BY <1>1, <1>3, <1>9, <1>11
    <2>2. (k + 1) * n = (a + q + 1) * c + (t + r - c)
        <3>1. (a + q + 1) * c = (a + q) * c + c /\ (a + q) * c \in Int
            BY <1>1, <1>9, SMT
        <3> QED
            BY <1>1, <1>3, <1>9, <3>1
    <2>3. ((k + 1) * n) \div c = a + q + 1
        BY <2>1, <2>2, QuotientIs
    <2> QED
        BY <1>1, <1>4, <1>9, <2>3 DEF q
<1> QED
    BY <1>1, <1>3, <1>10, <1>11

(* A higher multiple is higher.                                            *)
LEMMA StepsGrow ==
    ASSUME NEW n \in Nat, NEW c \in Nat \ {0}, c <= n, NEW j \in Nat, NEW k \in Nat, j < k
    PROVE  (j * n) \div c < (k * n) \div c
<1>1. j * n \in Nat /\ k * n \in Nat /\ j * n + n <= k * n
    <2>1. k - (j + 1) \in Nat
        OBVIOUS
    <2>2. k * n = j * n + n + (k - (j + 1)) * n
        BY SMT
    <2>3. (k - (j + 1)) * n \in Nat /\ j * n \in Nat
        BY <2>1, SMT
    <2> QED
        BY <2>2, <2>3
<1>2. (j * n + c) \div c = (j * n) \div c + 1
    <2> DEFINE a == j * n
    <2>1. a \in Nat
        BY <1>1
    <2> HIDE DEF a
    <2> DEFINE q == a \div c
               r == a % c
    <2>3. q \in Nat /\ r \in 0 .. c - 1 /\ a = c * q + r
        BY <2>1, DivisionIs
    <2> HIDE DEF q, r
    <2>4. (q + 1) * c = c * q + c /\ c * q \in Int
        BY <2>3, SMT
    <2>5. a + c = (q + 1) * c + r /\ q + 1 \in Int
        BY <2>3, <2>4
    <2>6. (a + c) \div c = q + 1
        BY <2>3, <2>5, QuotientIs
    <2> QED
        BY <2>6 DEF a, q
<1>3. (j * n + c) \div c <= (k * n) \div c
    <2>1. j * n + c \in Nat /\ j * n + c <= k * n
        BY <1>1
    <2> QED
        BY <1>1, <2>1, QuotientGrows
<1>4. (j * n) \div c \in Nat /\ (k * n) \div c \in Nat
    BY <1>1, DivisionIs
<1> QED
    BY <1>2, <1>3, <1>4

(* The place of the k-th of c dates chosen among n.                        *)
PlaceOf(k, n, c) == (k * n) \div c

(* The places are those of different dates, and lie in the order of k.     *)
LEMMA PlacesInRow ==
    ASSUME NEW n \in Nat, NEW c \in Nat \ {0}, c <= n
    PROVE  /\ PlaceOf(0, n, c) = 0 /\ PlaceOf(c, n, c) = n
           /\ \A k \in Nat : PlaceOf(k, n, c) \in Nat
           /\ \A j, k \in Nat : j < k => PlaceOf(j, n, c) < PlaceOf(k, n, c)
           /\ \A k \in 0 .. c - 1 : PlaceOf(k, n, c) \in 0 .. n - 1
<1>1. PlaceOf(0, n, c) = 0
    <2>1. 0 * n = 0 * c + 0 /\ 0 \in 0 .. c - 1
        OBVIOUS
    <2> QED
        BY <2>1, QuotientIs DEF PlaceOf
<1>2. PlaceOf(c, n, c) = n
    <2>1. c * n = n * c + 0 /\ 0 \in 0 .. c - 1
        BY SMT
    <2>2. (n * c + 0) \div c = n
        BY <2>1, QuotientIs
    <2> QED
        BY <2>1, <2>2 DEF PlaceOf
<1>3. \A k \in Nat : PlaceOf(k, n, c) \in Nat
    BY StepsEven DEF PlaceOf
<1>4. \A j, k \in Nat : j < k => PlaceOf(j, n, c) < PlaceOf(k, n, c)
    BY StepsGrow DEF PlaceOf
<1>5. ASSUME NEW k \in 0 .. c - 1
      PROVE  PlaceOf(k, n, c) \in 0 .. n - 1
    <2>1. k \in Nat /\ c \in Nat /\ k < c
        OBVIOUS
    <2>2. PlaceOf(k, n, c) < n /\ PlaceOf(k, n, c) \in Nat
        BY <1>2, <1>3, <1>4, <2>1
    <2> QED
        BY <2>2
<1> QED
    BY <1>1, <1>2, <1>3, <1>4, <1>5

(* From one place to the next it is n \div c dates or one more.            *)
LEMMA GapsEven ==
    ASSUME NEW n \in Nat, NEW c \in Nat \ {0}, c <= n, NEW k \in 0 .. c - 1,
           NEW places, places = {PlaceOf(j, n, c) : j \in 0 .. c - 1}
    PROVE  Gap(PlaceOf(k, n, c), places, n) \in {n \div c, n \div c + 1}
<1> DEFINE p == PlaceOf(k, n, c)
           next == PlaceOf(k + 1, n, c)
           Fits(g) == p + g \in places \union {n} /\ \A h \in 1 .. g - 1 : p + h \notin places
<1>1. /\ PlaceOf(c, n, c) = n
      /\ \A j \in Nat : PlaceOf(j, n, c) \in Nat
      /\ \A i, j \in Nat : i < j => PlaceOf(i, n, c) < PlaceOf(j, n, c)
      /\ \A j \in 0 .. c - 1 : PlaceOf(j, n, c) \in 0 .. n - 1
    BY PlacesInRow
<1>2. k \in Nat /\ k + 1 \in Nat /\ k < k + 1 /\ k + 1 <= c
    OBVIOUS
<1>3. p \in Nat /\ next \in Nat /\ p < next
    BY <1>1, <1>2
<1>4. next - p \in {n \div c, n \div c + 1}
    BY <1>2, StepsEven DEF PlaceOf
<1>5. next <= n /\ next \in places \union {n}
    <2>1. CASE k + 1 = c
        BY <1>1, <2>1
    <2>2. CASE k + 1 # c
        <3>1. k + 1 \in 0 .. c - 1
            BY <2>2
        <3> QED
            BY <1>1, <3>1
    <2> QED
        BY <2>1, <2>2
<1>6. \A h \in Nat : p < h /\ h < next => h \notin places
    <2>1. SUFFICES ASSUME NEW j \in 0 .. c - 1, p < PlaceOf(j, n, c), PlaceOf(j, n, c) < next
                   PROVE  FALSE
        OBVIOUS
    <2>2. j \in Nat /\ PlaceOf(j, n, c) \in Nat
        BY <1>1
    <2>3. ~(j < k) /\ j # k
        BY <1>1, <1>2, <1>3, <2>1, <2>2
    <2>4. ~(k + 1 < j) /\ j # k + 1
        BY <1>1, <1>2, <1>3, <2>1, <2>2
    <2> QED
        BY <1>2, <2>2, <2>3, <2>4
<1>7. \A h \in places : h \in Nat /\ h < n
    BY <1>1
<1>8. next < n => next \in places
    BY <1>5
<1> HIDE DEF p, next
<1>9. next - p \in 1 .. n /\ Fits(next - p)
    <2>1. next - p \in 1 .. n /\ p + (next - p) = next
        BY <1>3, <1>5
    <2>2. \A h \in 1 .. (next - p) - 1 : p + h \in Nat /\ p < p + h /\ p + h < next
        BY <1>3, <2>1
    <2> QED
        BY <1>5, <1>6, <2>1, <2>2
<1>10. ASSUME NEW g \in 1 .. n, Fits(g)
       PROVE  g = next - p
    <2>1. CASE g < next - p
        <3>1. p + g \in Nat /\ p < p + g /\ p + g < next
            BY <1>3, <2>1
        <3>2. p + g \notin places /\ p + g # n
            BY <1>3, <1>5, <1>6, <3>1
        <3> QED
            BY <1>10, <3>2
    <2>2. CASE g > next - p
        <3>1. next - p \in 1 .. g - 1 /\ p + (next - p) = next
            BY <1>3, <2>2
        <3>2. next \notin places
            BY <1>10, <3>1
        <3>3. next = n
            BY <1>3, <1>5, <3>2
        <3>4. p + g > n /\ p + g \in Nat
            BY <1>3, <2>2, <3>3
        <3> QED
            BY <1>7, <1>10, <3>4
    <2> QED
        BY <1>3, <2>1, <2>2
<1>11. Gap(p, places, n) = CHOOSE g \in 1 .. n : Fits(g)
    BY DEF Gap
<1>12. (CHOOSE g \in 1 .. n : Fits(g)) = next - p
    <2> HIDE DEF Fits
    <2> QED
        BY <1>9, <1>10
<1> QED
    BY <1>4, <1>11, <1>12 DEF p

(* _build_task_daily_quotas: the quotas of a task add up to what it needs, *)
(* on dates it may be planned on, however few units are left.              *)
THEOREM TaskQuotasAddUp ==
    ASSUME NEW need \in Nat, NEW dates \in SUBSET Int, IsFiniteSet(dates), NEW units \in Nat,
           NEW quotas, quotas = TaskQuotas(need, dates, units), quotas # Nothing
    PROVE  /\ DOMAIN quotas \subseteq dates
           /\ quotas \in [DOMAIN quotas -> Nat]
           /\ Total(quotas) = need
<1>0. need > 0 /\ dates # {}
    <2>1. CASE need <= 0 \/ dates = {}
        <3>1. DailyQuotas(need, dates) = Nothing
            BY <2>1 DEF DailyQuotas
        <3>2. TaskQuotas(need, dates, units) = Nothing
            BY <2>1, <3>1 DEF TaskQuotas
        <3> QED
            BY <3>2
    <2>2. CASE ~(need <= 0 \/ dates = {})
        BY <2>2
    <2> QED
        BY <2>1, <2>2
<1>1. CASE units = 0
    <2>1. quotas = DailyQuotas(need, dates)
        BY <1>0, <1>1 DEF TaskQuotas
    <2> QED
        BY <1>0, <2>1, DailyQuotasAddUp
<1>2. CASE units # 0
    <2> DEFINE chosen == EvenlySpaced(dates, units)
               base == DailyQuotas(need, chosen)
               later == {d \in dates : \A c \in chosen : c < d}
               D == chosen \union later
    <2>1. quotas = [d \in D |-> IF d \in chosen THEN base[d] ELSE 0]
        BY <1>0, <1>2 DEF TaskQuotas
    <2>2. chosen \subseteq dates /\ chosen # {}
        BY <1>0, <1>2, SomeChosen DEF EvenlySpaced
    <2>3. D \subseteq dates
        BY <2>2
    <2>4. IsFiniteSet(chosen) /\ IsFiniteSet(D)
        BY <2>2, <2>3, FS_Subset
    <2> HIDE DEF chosen
    <2>5. base \in [chosen -> Nat] /\ Total(base) = need
        BY <1>0, <2>2, <2>4, DailyQuotasAddUp
    <2> HIDE DEF base, later
    <2>6. quotas \in [D -> Nat] /\ DOMAIN quotas = D
        BY <2>1, <2>5
    <2>7. Part(quotas, chosen) = base
        BY <2>1, <2>5 DEF Part
    <2>8. quotas \in [D -> Int] /\ chosen \in SUBSET D /\ \A i \in D \ chosen : quotas[i] = 0
        BY <2>1, <2>6
    <2> HIDE DEF D
    <2>9. Total(quotas) = Total(Part(quotas, chosen))
        BY <2>4, <2>8, TotalZeros
    <2> QED
        BY <2>3, <2>5, <2>6, <2>7, <2>9
<1> QED
    BY <1>1, <1>2

(* A total of natural numbers is no less than any of them.                 *)
LEMMA TotalAtLeast ==
    ASSUME NEW D, IsFiniteSet(D), NEW f \in [D -> Nat], NEW x \in D
    PROVE  Total(f) \in Nat /\ Total(f) >= f[x]
<1>1. f \in [D -> Int] /\ DOMAIN f = D /\ \A i \in D : f[i] \in Int
    OBVIOUS
<1>2. Total(f) = Total(Part(f, D))
    BY <1>1, TotalType
<1>3. Total(Part(f, D)) = Total(Part(f, D \ {x})) + f[x]
    BY <1>1, TotalSplits
<1>4. Total(Part(f, D)) \in Nat /\ Total(Part(f, D \ {x})) \in Nat
    BY TotalGrows
<1>5. f[x] \in Nat
    OBVIOUS
<1> QED
    BY <1>2, <1>3, <1>4, <1>5

(***************************************************************************)
(* What an amount gives to its blocks                                      *)
(***************************************************************************)
(* Terms below w have a total below w times their number.                  *)
LEMMA TotalBelow ==
    ASSUME NEW D, IsFiniteSet(D), D # {}, NEW w \in Nat \ {0}, NEW f \in [D -> 0 .. w - 1]
    PROVE  Total(f) \in Nat /\ Total(f) < w * Cardinality(D)
<1> DEFINE gap == [i \in D |-> w - f[i]]
           n == Cardinality(D)
<1>1. \A x \in 0 .. w - 1 : x \in Nat /\ x \in Int /\ w - x \in Nat /\ w - x >= 1 /\ x + (w - x) = w /\ w - x \in Int
    OBVIOUS
<1>2. \A i \in D : f[i] \in 0 .. w - 1
    OBVIOUS
<1>3. f \in [D -> Nat] /\ f \in [D -> Int] /\ gap \in [D -> Nat] /\ gap \in [D -> Int]
    BY <1>1, <1>2
<1>4. PICK x \in D : TRUE
    OBVIOUS
<1>5. [i \in D |-> f[i] + gap[i]] = [i \in D |-> w]
    BY <1>1, <1>2
<1>6. gap[x] >= 1
    BY <1>1, <1>2, <1>4
<1> HIDE DEF gap
<1>7. Total(f) + Total(gap) = w * n
    <2>1. w \in Int
        OBVIOUS
    <2>2. Total([i \in D |-> w]) = w * Cardinality(D)
        BY <2>1, TotalEqual
    <2>3. Total([i \in D |-> f[i] + gap[i]]) = Total(f) + Total(gap)
        BY <1>3, TotalAdds
    <2> QED
        BY <1>5, <2>2, <2>3
<1>8. Total(f) \in Nat
    BY <1>3, TotalType, TotalGrows
<1>9. Total(gap) \in Nat /\ Total(gap) >= 1
    BY <1>3, <1>4, <1>6, TotalAtLeast
<1>10. w * n \in Int
    BY FS_CardinalityType
<1> HIDE DEF n
<1>11. Total(f) < w * n
    BY <1>7, <1>8, <1>9, <1>10
<1> QED
    BY <1>8, <1>11 DEF n

(* Rounding down and giving the rest to the largest remainders gives out   *)
(* the whole quantity.                                                     *)
LEMMA RemaindersAddUp ==
    ASSUME NEW D \in SUBSET Int, IsFiniteSet(D), D # {}, NEW m \in [D -> Nat \ {0}], NEW quantity \in Nat
    PROVE  /\ LargestRemainder(quantity, m) \in [D -> Nat]
           /\ Total(LargestRemainder(quantity, m)) = quantity
<1> DEFINE w == Total(m)
           base == [b \in D |-> (quantity * m[b]) \div w]
           remainder == [b \in D |-> (quantity * m[b]) % w]
           Ahead == {r \in D \X D : \/ remainder[r[1]] > remainder[r[2]]
                                    \/ remainder[r[1]] = remainder[r[2]] /\ r[1] < r[2]}
           more == First(Ahead, D, quantity - Total(base))
           n == Cardinality(D)
<1>1. m \in [D -> Nat] /\ m \in [D -> Int] /\ n \in Nat
    BY FS_CardinalityType
<1>2. w \in Nat \ {0}
    <2>1. PICK x \in D : TRUE
        OBVIOUS
    <2>2. m[x] \in Nat \ {0} /\ w \in Nat /\ w >= m[x]
        BY <1>1, TotalAtLeast
    <2> QED
        BY <2>2
<1>3. LargestRemainder(quantity, m)
      = [b \in D |-> base[b] + (IF Cardinality({a \in D : \/ remainder[a] > remainder[b]
                                                          \/ remainder[a] = remainder[b] /\ a < b})
                                   < quantity - Total(base) THEN 1 ELSE 0)]
    BY DEF LargestRemainder
<1>4. ASSUME NEW b \in D
      PROVE  quantity * m[b] \in Nat /\ quantity * m[b] \in Int
    BY <1>1, SMT
<1>5. base \in [D -> Nat] /\ remainder \in [D -> 0 .. w - 1]
    <2> HIDE DEF w
    <2> QED
        BY <1>2, <1>4, DivisionIs
<1>6. \A b \in D : quantity * m[b] = w * base[b] + remainder[b]
    <2> HIDE DEF w
    <2> QED
        BY <1>2, <1>4, DivisionIs
<1> HIDE DEF base, remainder
<1>7. \A x, y \in D : << x, y >> \in Ahead <=> \/ remainder[x] > remainder[y]
                                               \/ remainder[x] = remainder[y] /\ x < y
    OBVIOUS
<1> HIDE DEF Ahead
<1>8. Orders(Ahead, D)
    <2>1. \A x \in D : x \in Int /\ remainder[x] \in Int
        BY <1>2, <1>5
    <2> QED
        BY <1>7, <2>1 DEF Orders
<1>9. LargestRemainder(quantity, m) = [b \in D |-> base[b] + more[b]]
    <2>1. \A b \in D : {a \in D : << a, b >> \in Ahead}
                       = {a \in D : \/ remainder[a] > remainder[b]
                                    \/ remainder[a] = remainder[b] /\ a < b}
        BY <1>7
    <2>2. \A b \in D : more[b] = IF Cardinality({a \in D : << a, b >> \in Ahead}) < quantity - Total(base)
                                 THEN 1 ELSE 0
        BY DEF First, Rank
    <2> HIDE DEF more
    <2> QED
        BY <1>3, <2>1, <2>2
<1> DEFINE k == quantity - Total(base)
<1>10. base \in [D -> Int] /\ remainder \in [D -> Int] /\ Total(base) \in Nat
    <2>1. base \in [D -> Int]
        BY <1>5
    <2>2. remainder \in [D -> Int]
        <3>1. \A x \in 0 .. w - 1 : x \in Int
            OBVIOUS
        <3> HIDE DEF w
        <3> QED
            BY <1>5, <3>1
    <2>3. Total(Part(base, D)) \in Nat
        BY <1>5, TotalGrows
    <2> QED
        BY <2>1, <2>2, <2>3, TotalType
<1>11. k \in Nat /\ k < n
    <2>1. quantity * w = Total([b \in D |-> quantity * m[b]])
        <3>1. quantity \in Int
            OBVIOUS
        <3> QED
            BY <1>1, <3>1, TotalScales
    <2>2. w * Total(base) = Total([b \in D |-> w * base[b]])
        <3>1. w \in Int
            BY <1>2
        <3> HIDE DEF w
        <3> QED
            BY <1>10, <3>1, TotalScales
    <2> DEFINE multiple == [b \in D |-> w * base[b]]
    <2>3. multiple \in [D -> Int]
        <3>1. \A b \in D : w * base[b] \in Int
            <4> HIDE DEF w
            <4> QED
                BY <1>2, <1>5, SMT
        <3> QED
            BY <3>1
    <2>4. [b \in D |-> quantity * m[b]] = [b \in D |-> multiple[b] + remainder[b]]
        BY <1>6
    <2> HIDE DEF multiple
    <2>5. Total([b \in D |-> multiple[b] + remainder[b]]) = Total(multiple) + Total(remainder)
        BY <1>10, <2>3, TotalAdds, ZenonT(30)
    <2>6. quantity * w = w * Total(base) + Total(remainder)
        BY <2>1, <2>2, <2>4, <2>5 DEF multiple
    <2>7. Total(remainder) \in Nat /\ Total(remainder) < w * n
        <3> HIDE DEF w
        <3> QED
            BY <1>2, <1>5, TotalBelow
    <2> QED
        <3> DEFINE rest == Total(remainder)
                   given == Total(base)
        <3>1. rest \in Nat /\ rest < w * n /\ given \in Nat /\ quantity * w = w * given + rest
            BY <1>10, <2>6, <2>7
        <3> HIDE DEF w, n, rest, given
        <3>2. quantity * w = w * quantity /\ w * (quantity - given) = w * quantity - w * given
              /\ w * given \in Int /\ w * quantity \in Int
            BY <1>2, <3>1, SMT
        <3>3. w * (quantity - given) = rest
            BY <3>1, <3>2
        <3>4. quantity - given \in Int
            BY <3>1
        <3>5. quantity - given >= 0
            <4>1. SUFFICES ASSUME quantity - given <= -1 PROVE FALSE
                BY <3>4
            <4>2. w * (quantity - given) <= w * (-1)
                BY <1>2, <3>4, <4>1, SMT
            <4> QED
                BY <1>2, <3>1, <3>3, <4>2, SMT
        <3>6. quantity - given < n
            <4>1. SUFFICES ASSUME quantity - given >= n PROVE FALSE
                BY <1>1, <3>4
            <4>2. w * (quantity - given) >= w * n /\ w * n \in Int
                BY <1>1, <1>2, <3>4, <4>1, SMT
            <4> QED
                BY <3>1, <3>3, <4>2
        <3> QED
            BY <3>4, <3>5, <3>6 DEF given
<1>12. Total(more) = k
    <2> HIDE DEF k, n
    <2>1. more = First(Ahead, D, k)
        BY DEF k
    <2>2. Total(First(Ahead, D, k)) = Least(k, n)
        BY <1>8, <1>11, RanksCount DEF n
    <2> QED
        BY <1>1, <1>11, <2>1, <2>2 DEF Least
<1>13. more \in [D -> 0 .. 1] /\ more \in [D -> Int]
    BY DEF First
<1> HIDE DEF more
<1>14. [b \in D |-> base[b] + more[b]] \in [D -> Nat]
    BY <1>5, <1>13
<1> HIDE DEF k
<1>15. Total([b \in D |-> base[b] + more[b]]) = Total(base) + Total(more)
    <2>1. base \in [D -> Int] /\ more \in [D -> Int]
        BY <1>10, <1>13
    <2> QED
        BY <2>1, TotalAdds, ZenonT(30)
<1>16. Total(base) + Total(more) = quantity
    BY <1>10, <1>12 DEF k
<1> QED
    BY <1>9, <1>14, <1>15, <1>16

(* Largest remainder gives a longer block no less than a shorter one.      *)
LEMMA LongerGetsMore ==
    ASSUME NEW D \in SUBSET Int, IsFiniteSet(D), NEW m \in [D -> Nat \ {0}], NEW quantity \in Nat,
           NEW a \in D, NEW b \in D, m[a] > m[b]
    PROVE  LargestRemainder(quantity, m)[a] >= LargestRemainder(quantity, m)[b]
<1> DEFINE w == Total(m)
           base == [x \in D |-> (quantity * m[x]) \div w]
           remainder == [x \in D |-> (quantity * m[x]) % w]
           before(y) == {x \in D : \/ remainder[x] > remainder[y]
                                   \/ remainder[x] = remainder[y] /\ x < y}
           k == quantity - Total(base)
           more(y) == IF Cardinality(before(y)) < k THEN 1 ELSE 0
<1>1. w \in Nat \ {0}
    <2>1. m[a] \in Nat \ {0} /\ m \in [D -> Nat]
        OBVIOUS
    <2>2. w \in Nat /\ w >= m[a]
        BY <2>1, TotalAtLeast
    <2> QED
        BY <2>1, <2>2
<1>2. LargestRemainder(quantity, m) = [y \in D |-> base[y] + more(y)]
    BY DEF LargestRemainder
<1>3. /\ quantity * m[a] \in Nat /\ quantity * m[b] \in Nat
      /\ quantity * m[b] <= quantity * m[a]
      /\ quantity # 0 => quantity * m[b] < quantity * m[a]
    <2>1. m[a] \in Nat /\ m[b] \in Nat /\ m[a] - m[b] \in Nat \ {0}
        OBVIOUS
    <2>2. quantity * m[a] = quantity * m[b] + quantity * (m[a] - m[b])
        BY <2>1, SMT
    <2>3. \A x, y \in Nat : x * y \in Nat /\ (x # 0 /\ y # 0 => x * y # 0)
        BY SMT
    <2>4. /\ quantity * m[a] \in Nat /\ quantity * m[b] \in Nat /\ quantity * (m[a] - m[b]) \in Nat
          /\ quantity # 0 => quantity * (m[a] - m[b]) # 0
        BY <2>1, <2>3
    <2> QED
        BY <2>2, <2>4
<1>4. ASSUME NEW x \in D
      PROVE  /\ base[x] \in Nat /\ remainder[x] \in 0 .. w - 1
             /\ quantity * m[x] = w * base[x] + remainder[x]
    <2>1. quantity * m[x] \in Nat
        <3>1. m[x] \in Nat
            OBVIOUS
        <3> QED
            BY <3>1, SMT
    <2> HIDE DEF w
    <2> QED
        BY <1>1, <2>1, DivisionIs
<1>5. base[b] <= base[a]
    <2> HIDE DEF w
    <2> QED
        BY <1>1, <1>3, QuotientGrows
<1>6. Total(base) \in Nat
    <2>1. base \in [D -> Nat]
        BY <1>4
    <2> HIDE DEF base
    <2> QED
        BY <2>1, TotalAtLeast
<1>7. \A y \in D : Cardinality(before(y)) \in Nat /\ IsFiniteSet(before(y))
    <2>1. \A y \in D : before(y) \in SUBSET D
        OBVIOUS
    <2> HIDE DEF before
    <2> QED
        BY <2>1, FS_Subset, FS_CardinalityType
<1>8. more(a) \in {0, 1} /\ more(b) \in {0, 1}
    OBVIOUS
<1>9. base[a] = base[b] => more(b) <= more(a)
    <2> SUFFICES ASSUME base[a] = base[b] PROVE more(b) <= more(a)
        OBVIOUS
    <2>1. CASE quantity = 0
        <3>1. k <= 0
            BY <1>6, <2>1
        <3>2. ~(Cardinality(before(b)) < k)
            <4> HIDE DEF before, k
            <4>1. Cardinality(before(b)) \in Nat /\ k \in Int
                BY <1>6, <1>7 DEF k
            <4> QED
                BY <3>1, <4>1
        <3> QED
            BY <1>8, <3>2
    <2>2. CASE quantity # 0
        <3>1. remainder[b] < remainder[a]
            <4> DEFINE x == base[a]
                       v == w * x
            <4>1. v \in Int
                <5> HIDE DEF w, base
                <5> QED
                    BY <1>1, <1>4, SMT
            <4>2. quantity * m[a] = v + remainder[a] /\ quantity * m[b] = v + remainder[b]
                BY <1>4
            <4>3. remainder[a] \in Int /\ remainder[b] \in Int
                BY <1>4
            <4> HIDE DEF v, remainder
            <4> QED
                BY <1>3, <2>2, <4>1, <4>2, <4>3
        <3>2. before(a) \in SUBSET before(b)
            <4>1. \A x \in D : remainder[x] \in Int
                <5> HIDE DEF w, remainder
                <5>1. \A i \in 0 .. w - 1 : i \in Int
                    BY <1>1
                <5> QED
                    BY <1>4, <5>1
            <4> HIDE DEF remainder
            <4>2. ASSUME NEW x \in D, remainder[x] > remainder[a] \/ (remainder[x] = remainder[a] /\ x < a)
                  PROVE  remainder[x] > remainder[b]
                <5>1. remainder[x] \in Int /\ remainder[a] \in Int /\ remainder[b] \in Int
                    BY <4>1
                <5>2. remainder[x] >= remainder[a]
                    BY <4>2, <5>1
                <5> QED
                    BY <3>1, <5>1, <5>2
            <4> QED
                BY <4>2
        <3> HIDE DEF before
        <3>3. Cardinality(before(a)) <= Cardinality(before(b))
            BY <1>7, <3>2, FS_Subset
        <3>4. k \in Int
            BY <1>6
        <3> HIDE DEF k
        <3> QED
            BY <1>7, <3>3, <3>4
    <2> QED
        BY <2>1, <2>2
<1>10. base[a] \in Nat /\ base[b] \in Nat
    BY <1>4
<1> HIDE DEF base, more
<1> QED
    BY <1>2, <1>5, <1>8, <1>9, <1>10

(* The distribution of an amount over its blocks gives it out in full, and *)
(* no block goes without a unit: what the code checks as                   *)
(* valid_distribution holds of every amount with a unit for each block.    *)
THEOREM SharesExact ==
    ASSUME NEW D \in SUBSET Int, IsFiniteSet(D), D # {}, NEW m \in [D -> Nat \ {0}],
           NEW quantity \in Nat, quantity >= Cardinality(D)
    PROVE  /\ Shares(quantity, m) \in [D -> Nat \ {0}]
           /\ Total(Shares(quantity, m)) = quantity
           /\ \A a, b \in D : m[a] > m[b] => Shares(quantity, m)[a] >= Shares(quantity, m)[b]
<1> DEFINE n == Cardinality(D)
           first == LargestRemainder(quantity, m)
           extra == LargestRemainder(quantity - n, m)
<1>1. n \in Nat /\ quantity - n \in Nat /\ DOMAIN m = D
    BY FS_CardinalityType
<1>2. first \in [D -> Nat] /\ Total(first) = quantity
    BY RemaindersAddUp
<1>3. extra \in [D -> Nat] /\ Total(extra) = quantity - n
    <2> HIDE DEF n
    <2> QED
        BY <1>1, RemaindersAddUp
<1>4. Shares(quantity, m) = IF \E b \in D : first[b] = 0 THEN [b \in D |-> 1 + extra[b]] ELSE first
    BY <1>1 DEF Shares
<1>7. \A a, b \in D : m[a] > m[b] => first[a] >= first[b]
    BY LongerGetsMore
<1>8. \A a, b \in D : m[a] > m[b] => extra[a] >= extra[b]
    <2> HIDE DEF n
    <2> QED
        BY <1>1, LongerGetsMore
<1> HIDE DEF first, extra
<1>5. CASE \E b \in D : first[b] = 0
    <2> DEFINE ones == [b \in D |-> 1]
    <2>1. ones \in [D -> Int] /\ extra \in [D -> Int]
        BY <1>3
    <2>2. Total(ones) = n
        <3>1. 1 \in Int
            OBVIOUS
        <3>2. Total(ones) = 1 * Cardinality(D)
            BY <3>1, TotalEqual
        <3> QED
            BY <1>1, <3>2
    <2>3. Shares(quantity, m) = [b \in D |-> ones[b] + extra[b]]
        BY <1>4, <1>5
    <2>4. \A b \in D : ones[b] + extra[b] \in Nat \ {0}
        BY <1>3
    <2> HIDE DEF ones, n
    <2>5. Total([b \in D |-> ones[b] + extra[b]]) = Total(ones) + Total(extra)
        BY <2>1, TotalAdds, ZenonT(30)
    <2>6. Total(ones) + Total(extra) = quantity
        BY <1>1, <1>3, <2>2
    <2>7. \A x \in D : Shares(quantity, m)[x] = 1 + extra[x] /\ extra[x] \in Nat
        BY <1>3, <1>4, <1>5
    <2>8. \A a, b \in D : m[a] > m[b] => Shares(quantity, m)[a] >= Shares(quantity, m)[b]
        BY <1>8, <2>7
    <2> QED
        BY <2>3, <2>4, <2>5, <2>6, <2>8
<1>6. CASE ~\E b \in D : first[b] = 0
    BY <1>2, <1>4, <1>6, <1>7
<1> QED
    BY <1>5, <1>6

(***************************************************************************)
(* Dates of few units                                                      *)
(***************************************************************************)
(* _select_evenly_spaced_target_dates: as many dates are chosen as there   *)
(* are units, from the first on, and the gaps between neighbours differ by *)
(* at most one date, for any dates and any number of units.                *)
THEOREM DatesEvenlySpaced ==
    ASSUME NEW dates \in SUBSET Int, IsFiniteSet(dates), dates # {}, NEW count \in Nat \ {0},
           NEW n, n = Cardinality(dates),
           NEW chosen, chosen = EvenlySpaced(dates, count),
           NEW places, places = Places(chosen, dates)
    PROVE  /\ chosen \subseteq dates
           /\ Cardinality(chosen) = Least(count, n)
           /\ 0 \in places
           /\ \A p, r \in places : Gap(p, places, n) - Gap(r, places, n) \in -1 .. 1
<1> DEFINE c == Least(count, n)
           InRow == Earlier(dates)
<1>1. n \in Nat \ {0}
    BY FS_CardinalityType, FS_EmptySet
<1>2. c \in Nat \ {0} /\ c <= n
    BY <1>1 DEF Least
<1>3. chosen = {d \in dates : \E k \in 0 .. c - 1 : IndexIn(d, dates) = PlaceOf(k, n, c)}
    BY DEF EvenlySpaced, PlaceOf
<1>4. Orders(InRow, dates) /\ \A d \in dates : IndexIn(d, dates) = Rank(InRow, dates, d)
    BY DatesInRow
<1> HIDE DEF InRow
<1>5. \A i \in 0 .. n - 1 : \E d \in dates : IndexIn(d, dates) = i
    <2> DEFINE days == dates
    <2>1. IsFiniteSet(days) /\ Orders(InRow, days)
        BY <1>4
    <2> HIDE DEF days
    <2>2. \A i \in 0 .. Cardinality(days) - 1 : \E d \in days : Rank(InRow, days, d) = i
        BY <2>1, RankReached
    <2> QED
        BY <1>4, <2>2 DEF days
<1>6. ASSUME NEW d \in dates, NEW e \in dates, IndexIn(d, dates) = IndexIn(e, dates)
      PROVE  d = e
    <2>1. << d, e >> \in InRow => Rank(InRow, dates, d) \in Nat /\ Rank(InRow, dates, d) < Rank(InRow, dates, e)
        BY <1>4, RankGrows
    <2>2. << e, d >> \in InRow => Rank(InRow, dates, e) \in Nat /\ Rank(InRow, dates, e) < Rank(InRow, dates, d)
        BY <1>4, RankGrows
    <2>3. Rank(InRow, dates, d) = Rank(InRow, dates, e) /\ (d = e \/ << d, e >> \in InRow \/ << e, d >> \in InRow)
        BY <1>4, <1>6 DEF Orders
    <2>4. Rank(InRow, dates, d) \in Nat
        BY <1>4, RankReached
    <2> HIDE DEF InRow
    <2> QED
        BY <2>1, <2>2, <2>3, <2>4
<1>7. /\ PlaceOf(0, n, c) = 0
      /\ \A k \in Nat : PlaceOf(k, n, c) \in Nat
      /\ \A j, k \in Nat : j < k => PlaceOf(j, n, c) < PlaceOf(k, n, c)
      /\ \A k \in 0 .. c - 1 : PlaceOf(k, n, c) \in 0 .. n - 1
    BY <1>1, <1>2, PlacesInRow
<1> HIDE DEF c, InRow
<1>8. places = {PlaceOf(k, n, c) : k \in 0 .. c - 1}
    <2>1. places = {IndexIn(d, dates) : d \in chosen}
        BY DEF Places
    <2>2. \A k \in 0 .. c - 1 : \E d \in chosen : IndexIn(d, dates) = PlaceOf(k, n, c)
        BY <1>3, <1>5, <1>7
    <2> QED
        BY <1>3, <2>1, <2>2
<1>9. 0 \in places
    <2>1. 0 \in 0 .. c - 1
        BY <1>2
    <2> QED
        BY <1>7, <1>8, <2>1
<1>10. Cardinality(chosen) = c
    <2> DEFINE S == 0 .. c - 1
               f == [k \in S |-> CHOOSE d \in dates : IndexIn(d, dates) = PlaceOf(k, n, c)]
    <2>1. \A k \in S : f[k] \in dates /\ IndexIn(f[k], dates) = PlaceOf(k, n, c)
        BY <1>5, <1>7
    <2>2. f \in [S -> chosen]
        BY <1>3, <2>1
    <2>3. ASSUME NEW j \in S, NEW k \in S, f[j] = f[k]
          PROVE  j = k
        <3>1. PlaceOf(j, n, c) = PlaceOf(k, n, c)
            BY <2>1, <2>3
        <3>2. j \in Nat /\ k \in Nat /\ PlaceOf(j, n, c) \in Nat
            BY <1>7
        <3>3. ~(j < k) /\ ~(k < j)
            BY <1>7, <3>1, <3>2
        <3> QED
            BY <3>2, <3>3
    <2>4. \A d \in chosen : \E k \in S : f[k] = d
        BY <1>3, <1>6, <2>1
    <2> HIDE DEF f
    <2>5. f \in Bijection(S, chosen)
        BY <2>2, <2>3, <2>4 DEF Bijection, Injection, Surjection, IsInjective
    <2>6. IsFiniteSet(S) /\ Cardinality(S) = c
        <3>1. 0 \in Int /\ c - 1 \in Int /\ ~(0 > c - 1) /\ (c - 1) - 0 + 1 = c
            BY <1>2
        <3> QED
            BY <3>1, FS_Interval
    <2> HIDE DEF S
    <2>7. Cardinality(chosen) = Cardinality(S)
        BY <2>5, <2>6, FS_Bijection DEF ExistsBijection
    <2> QED
        BY <2>6, <2>7
<1>11. ASSUME NEW p \in places, NEW r \in places
       PROVE  Gap(p, places, n) - Gap(r, places, n) \in -1 .. 1
    <2>1. \A k \in 0 .. c - 1 : Gap(PlaceOf(k, n, c), places, n) \in {n \div c, n \div c + 1}
        BY <1>1, <1>2, <1>8, GapsEven
    <2>2. /\ Gap(p, places, n) \in {n \div c, n \div c + 1}
          /\ Gap(r, places, n) \in {n \div c, n \div c + 1}
        BY <1>8, <2>1
    <2>3. n \div c \in Nat
        BY <1>1, <1>2, DivisionIs
    <2> QED
        BY <2>2, <2>3
<1> QED
    BY <1>3, <1>9, <1>10, <1>11 DEF c

(***************************************************************************)
(* Overlapping intervals                                                   *)
(***************************************************************************)
Merging == INSTANCE FoldFacts WITH Op <- Extended, Good <- IsInteger

(* The list that is merged holds what is left of each interval in the      *)
(* window, in the order of the starts.                                     *)
LEMMA SortedFits ==
    ASSUME NEW L \in Nat, NEW intervals, intervals \in [1 .. L -> Int \X Int],
           NEW window, window \in Int \X Int
    PROVE  LET kept == InWindow(intervals, window)
               n == Cardinality(kept)
               s == Sorted(intervals, window)
           IN  /\ n \in Nat
               /\ s \in [1 .. n -> Int \X Int]
               /\ \A i \in 1 .. n : \E k \in kept : s[i] = Clip(intervals[k], window)
               /\ \A k \in kept : \E i \in 1 .. n : s[i] = Clip(intervals[k], window)
               /\ \A i, j \in 1 .. n : i < j => s[i][1] <= s[j][1]
<1> DEFINE kept == InWindow(intervals, window)
           n == Cardinality(kept)
           s == Sorted(intervals, window)
           part == [k \in kept |-> Clip(intervals[k], window)]
           place == [k \in kept |-> Cardinality({a \in kept :
                              part[a][1] < part[k][1] \/ (part[a][1] = part[k][1] /\ a < k)})]
           Before == {r \in kept \X kept : \/ part[r[1]][1] < part[r[2]][1]
                                           \/ part[r[1]][1] = part[r[2]][1] /\ r[1] < r[2]}
           member(i) == CHOOSE k \in kept : place[k] = i - 1
<1>1. s = [i \in 1 .. n |-> part[member(i)]]
    BY DEF Sorted
<1>2. kept \in SUBSET (1 .. L)
    BY DEF InWindow
<1>3. IsFiniteSet(kept)
    <2>1. IsFiniteSet(1 .. L)
        BY FS_Interval
    <2> QED
        BY <1>2, <2>1, FS_Subset
<1> HIDE DEF kept, s
<1>4. \A k \in kept : part[k] = Clip(intervals[k], window) /\ part[k] \in Int \X Int
    <2>1. ASSUME NEW k \in kept
          PROVE  Clip(intervals[k], window) \in Int \X Int
        <3>1. intervals[k] \in Int \X Int
            BY <1>2
        <3> QED
            BY <3>1 DEF Clip, Least
    <2> QED
        BY <2>1
<1>5. \A x, y \in kept : << x, y >> \in Before <=> \/ part[x][1] < part[y][1]
                                                   \/ part[x][1] = part[y][1] /\ x < y
    <2> HIDE DEF part
    <2>1. ASSUME NEW x \in kept, NEW y \in kept
          PROVE  << x, y >> \in Before <=> \/ part[x][1] < part[y][1]
                                           \/ part[x][1] = part[y][1] /\ x < y
        <3>1. << x, y >> \in kept \X kept /\ << x, y >>[1] = x /\ << x, y >>[2] = y
            OBVIOUS
        <3> QED
            BY <3>1
    <2> QED
        BY <2>1
<1>6. \A k \in kept : place[k] = Rank(Before, kept, k)
    <2>1. \A k \in kept : {a \in kept : << a, k >> \in Before}
                         = {a \in kept : part[a][1] < part[k][1] \/ (part[a][1] = part[k][1] /\ a < k)}
        <3> HIDE DEF part, Before
        <3> QED
            BY <1>5
    <2> QED
        BY <2>1 DEF Rank
<1> HIDE DEF part, place, Before
<1>7. Orders(Before, kept)
    <2>1. \A x \in kept : x \in Int /\ part[x][1] \in Int
        BY <1>2, <1>4
    <2>2. \A x \in kept : << x, x >> \notin Before
        BY <1>5, <2>1
    <2>3. ASSUME NEW x \in kept, NEW y \in kept, x # y
          PROVE  (<< x, y >> \in Before) # (<< y, x >> \in Before)
        <3>1. x \in Int /\ y \in Int /\ part[x][1] \in Int /\ part[y][1] \in Int
            BY <2>1
        <3>2. << x, y >> \in Before <=> part[x][1] < part[y][1] \/ (part[x][1] = part[y][1] /\ x < y)
            BY <1>5
        <3>3. << y, x >> \in Before <=> part[y][1] < part[x][1] \/ (part[y][1] = part[x][1] /\ y < x)
            BY <1>5
        <3> QED
            BY <2>3, <3>1, <3>2, <3>3
    <2>4. ASSUME NEW x \in kept, NEW y \in kept, NEW z \in kept,
                 << x, y >> \in Before, << y, z >> \in Before
          PROVE  << x, z >> \in Before
        <3>1. x \in Int /\ y \in Int /\ z \in Int
              /\ part[x][1] \in Int /\ part[y][1] \in Int /\ part[z][1] \in Int
            BY <2>1
        <3>2. /\ part[x][1] < part[y][1] \/ (part[x][1] = part[y][1] /\ x < y)
              /\ part[y][1] < part[z][1] \/ (part[y][1] = part[z][1] /\ y < z)
            BY <1>5, <2>4
        <3>3. part[x][1] < part[z][1] \/ (part[x][1] = part[z][1] /\ x < z)
            BY <3>1, <3>2
        <3> QED
            BY <1>5, <3>3
    <2> QED
        BY <2>2, <2>3, <2>4, Zenon DEF Orders
<1>8. /\ n \in Nat
      /\ \A k \in kept : Rank(Before, kept, k) \in 0 .. n - 1
      /\ \A i \in 0 .. n - 1 : \E k \in kept : Rank(Before, kept, k) = i
    BY ONLY <1>3, <1>7, RankReached DEF n
<1>9. \A i \in 1 .. n : member(i) \in kept /\ Rank(Before, kept, member(i)) = i - 1
    <2>1. \A i \in 1 .. n : i - 1 \in 0 .. n - 1
        BY <1>8
    <2> HIDE DEF n
    <2>2. \A i \in 1 .. n : \E k \in kept : place[k] = i - 1
        <3>1. ASSUME NEW i \in 1 .. n
              PROVE  \E k \in kept : Rank(Before, kept, k) = i - 1
            BY <1>8, <2>1
        <3> QED
            BY <1>6, <3>1
    <2> QED
        BY <1>6, <2>2
<1>10. ASSUME NEW x \in kept, NEW y \in kept, Rank(Before, kept, x) = Rank(Before, kept, y)
      PROVE  x = y
    <2>1. << x, y >> \in Before => Rank(Before, kept, x) < Rank(Before, kept, y)
        BY <1>3, <1>7, RankGrows
    <2>2. << y, x >> \in Before => Rank(Before, kept, y) < Rank(Before, kept, x)
        BY <1>3, <1>7, RankGrows
    <2>3. x = y \/ << x, y >> \in Before \/ << y, x >> \in Before
        BY <1>7 DEF Orders
    <2>4. Rank(Before, kept, x) \in Int
        BY <1>8
    <2> QED
        BY <1>10, <2>1, <2>2, <2>3, <2>4
<1> HIDE DEF member
<1>11. ASSUME NEW k \in kept
      PROVE  \E i \in 1 .. n : s[i] = Clip(intervals[k], window)
    <2> DEFINE i == Rank(Before, kept, k) + 1
    <2>1. i \in 1 .. n /\ i - 1 = Rank(Before, kept, k)
        BY <1>8
    <2> HIDE DEF i
    <2>2. member(i) = k
        BY <1>9, <1>10, <2>1
    <2> HIDE DEF n
    <2>3. s[i] = part[k]
        BY <1>1, <2>1, <2>2
    <2> QED
        BY <1>4, <2>1, <2>3
<1>12. ASSUME NEW i \in 1 .. n, NEW j \in 1 .. n, i < j
       PROVE  s[i][1] <= s[j][1]
    <2> DEFINE x == member(i)
               y == member(j)
    <2>1. x \in kept /\ y \in kept /\ Rank(Before, kept, x) = i - 1 /\ Rank(Before, kept, y) = j - 1
        BY <1>9
    <2>2. s[i] = part[x] /\ s[j] = part[y]
        BY <1>1
    <2> HIDE DEF x, y
    <2>3. part[x][1] \in Int /\ part[y][1] \in Int
        BY <1>4, <2>1
    <2>4. << y, x >> \in Before => j - 1 < i - 1
        BY <1>3, <1>7, <2>1, RankGrows
    <2>5. << y, x >> \notin Before
        <3>1. i \in Int /\ j \in Int
            BY <1>8
        <3> QED
            BY <1>12, <2>4, <3>1
    <2>6. ~(part[y][1] < part[x][1])
        <3>1. part[y][1] < part[x][1] => << y, x >> \in Before
            BY <1>5, <2>1
        <3> QED
            BY <2>5, <3>1
    <2> QED
        BY <2>2, <2>3, <2>6
<1>13. s \in [1 .. n -> Int \X Int] /\ \A i \in 1 .. n : \E k \in kept : s[i] = Clip(intervals[k], window)
    <2> HIDE DEF n
    <2> QED
        BY <1>1, <1>4, <1>9
<1> QED
    BY <1>8, <1>11, <1>12, <1>13 DEF kept, s

(* The minutes that the first k intervals of a list take.                  *)
Covered(s, k) == {m \in Int : \E i \in 1 .. k : s[i][1] <= m /\ m < s[i][2]}

(* A merged interval and the minutes before it that have been counted.     *)
RunFits(run, s, k) ==
    /\ run \in [sum : Nat, start : Int, end : Int]
    /\ run.start < run.end /\ run.start <= s[k][1]
    /\ \E done \in SUBSET Int :
          /\ IsFiniteSet(done) /\ Cardinality(done) = run.sum
          /\ \A m \in done : m < run.start
          /\ Covered(s, k) = done \union (run.start .. run.end - 1)

(* Minutes from one to before another.                                     *)
LEMMA MinutesBetween ==
    ASSUME NEW p \in Int, NEW q \in Int, p < q
    PROVE  IsFiniteSet(p .. q - 1) /\ Cardinality(p .. q - 1) = q - p
<1>1. p \in Int /\ q - 1 \in Int /\ ~(p > q - 1) /\ (q - 1) - p + 1 = q - p
    OBVIOUS
<1> QED
    BY <1>1, FS_Interval

(* Intervals that overlap or touch take what one interval takes.           *)
LEMMA IntervalsJoin ==
    ASSUME NEW p \in Int, NEW q \in Int, NEW a \in Int, NEW b \in Int, p <= a, a <= q,
           NEW e, e = IF b > q THEN b ELSE q
    PROVE  (p .. q - 1) \union (a .. b - 1) = p .. e - 1
<1>1. e \in Int
    OBVIOUS
<1>2. \A m \in Int : (p <= m /\ m <= q - 1) \/ (a <= m /\ m <= b - 1) <=> p <= m /\ m <= e - 1
    OBVIOUS
<1> QED
    BY <1>1, <1>2

(* Merging one interval more.                                              *)
LEMMA ExtendedFits ==
    ASSUME NEW n \in Nat, NEW s \in [1 .. n -> Int \X Int],
           \A i \in 1 .. n : s[i][1] < s[i][2],
           \A i, j \in 1 .. n : i < j => s[i][1] <= s[j][1],
           NEW k \in 1 .. n, k + 1 <= n, NEW run, RunFits(run, s, k)
    PROVE  RunFits(Extended(run, s[k + 1]), s, k + 1)
<1> DEFINE a == s[k + 1][1]
           b == s[k + 1][2]
<1>1. k + 1 \in 1 .. n /\ k < k + 1
    OBVIOUS
<1>2. a \in Int /\ b \in Int /\ a < b /\ s[k] \in Int \X Int /\ s[k][1] <= a
    BY <1>1
<1>3. run.sum \in Nat /\ run.start \in Int /\ run.end \in Int /\ run.start < run.end /\ run.start <= a
    BY <1>2 DEF RunFits
<1>4. PICK done \in SUBSET Int :
          /\ IsFiniteSet(done) /\ Cardinality(done) = run.sum
          /\ \A m \in done : m < run.start
          /\ Covered(s, k) = done \union (run.start .. run.end - 1)
    BY DEF RunFits
<1>5. Covered(s, k + 1) = Covered(s, k) \union (a .. b - 1)
    <2>1. \A i : i \in 1 .. k + 1 <=> i \in 1 .. k \/ i = k + 1
        OBVIOUS
    <2>2. \A m \in Int : m \in a .. b - 1 <=> a <= m /\ m < b
        BY <1>2
    <2>3. a .. b - 1 \subseteq Int
        BY <1>2
    <2>4. \A m \in Int : m \in Covered(s, k + 1) <=> m \in Covered(s, k) \/ (a <= m /\ m < b)
        <3> HIDE DEF a, b
        <3>1. s[k + 1][1] = a /\ s[k + 1][2] = b
            BY DEF a, b
        <3> QED
            BY <2>1, <3>1 DEF Covered
    <2>5. Covered(s, k + 1) \subseteq Int /\ Covered(s, k) \subseteq Int
        BY DEF Covered
    <2> HIDE DEF a, b
    <2> QED
        BY <2>2, <2>3, <2>4, <2>5
<1>6. CASE a <= run.end
    <2> DEFINE e == IF b > run.end THEN b ELSE run.end
    <2>1. Extended(run, s[k + 1]) = [run EXCEPT !.end = e]
        BY <1>6 DEF Extended
    <2>2. Extended(run, s[k + 1]) = [sum |-> run.sum, start |-> run.start, end |-> e]
        BY <2>1 DEF RunFits
    <2>3. e \in Int /\ run.start < e
        BY <1>2, <1>3
    <2>4. (run.start .. run.end - 1) \union (a .. b - 1) = run.start .. e - 1
        <3> DEFINE p == run.start
                   q == run.end
        <3>1. /\ p \in Int /\ q \in Int /\ a \in Int /\ b \in Int /\ p <= a /\ a <= q
              /\ e = IF b > q THEN b ELSE q
            BY <1>2, <1>3, <1>6
        <3> HIDE DEF a, b, e, p, q
        <3>2. (p .. q - 1) \union (a .. b - 1) = p .. e - 1
            BY ONLY <3>1, IntervalsJoin
        <3> QED
            BY <3>2 DEF p, q
    <2> HIDE DEF a, b, e
    <2>5. Covered(s, k + 1) = done \union (run.start .. e - 1)
        BY <1>4, <1>5, <2>4
    <2> DEFINE next == Extended(run, s[k + 1])
    <2>6. /\ next \in [sum : Nat, start : Int, end : Int]
          /\ next.sum = run.sum /\ next.start = run.start /\ next.end = e
        BY <1>3, <2>2, <2>3
    <2>7. next.start <= s[k + 1][1]
        BY <1>3, <2>6 DEF a
    <2> HIDE DEF next
    <2>8. RunFits(next, s, k + 1)
        BY <1>4, <2>3, <2>5, <2>6, <2>7 DEF RunFits
    <2> QED
        BY <2>8 DEF next
<1>7. CASE ~(a <= run.end)
    <2> DEFINE last == run.start .. run.end - 1
               more == done \union last
               x == run.sum + run.end - run.start
    <2>1. Extended(run, s[k + 1]) = [sum |-> x, start |-> a, end |-> b]
        BY <1>7 DEF Extended
    <2>2. IsFiniteSet(last) /\ Cardinality(last) = run.end - run.start
        BY <1>3, MinutesBetween
    <2>3. /\ \A m \in last : m \in Int /\ run.start <= m /\ m < a
          /\ \A m \in done : m \in Int /\ m < run.start
        <3> HIDE DEF a
        <3>1. \A m \in last : m \in Int /\ run.start <= m /\ m <= run.end - 1
            BY <1>3
        <3> HIDE DEF last, more, x
        <3>2. ASSUME NEW m \in last
              PROVE  m \in Int /\ run.start <= m /\ m < a
            <4>1. m \in Int /\ run.start <= m /\ m <= run.end - 1
                BY <3>1
            <4>2. run.end \in Int /\ a \in Int
                BY <1>2, <1>3
            <4> QED
                BY ONLY <1>7, <4>1, <4>2
        <3>3. \A m \in done : m \in Int /\ m < run.start
            BY <1>4
        <3> QED
            BY <3>2, <3>3
    <2>4. Covered(s, k + 1) = more \union (a .. b - 1)
        BY <1>4, <1>5
    <2> HIDE DEF a, b, last
    <2>5. IsFiniteSet(more) /\ Cardinality(more) = x
        <3>1. done \intersect last = {}
            BY <1>3, <2>3
        <3>2. Cardinality(done \intersect last) = 0
            BY <3>1, FS_EmptySet
        <3>3. /\ IsFiniteSet(done \union last)
              /\ Cardinality(done \union last)
                 = Cardinality(done) + Cardinality(last) - Cardinality(done \intersect last)
            BY <1>4, <2>2, FS_Union
        <3> QED
            BY <1>3, <1>4, <2>2, <3>2, <3>3
    <2>6. more \in SUBSET Int /\ \A m \in more : m < a
        <3>1. ASSUME NEW m \in done
              PROVE  m \in Int /\ m < a
            BY <1>2, <1>3, <2>3
        <3>2. \A m \in last : m \in Int /\ m < a
            BY <2>3
        <3> QED
            BY <3>1, <3>2
    <2>7. x \in Nat
        <3>1. run.sum \in Nat /\ run.start \in Int /\ run.end \in Int /\ run.start < run.end
            BY <1>3
        <3> QED
            BY ONLY <3>1 DEF x
    <2> HIDE DEF more, x
    <2> DEFINE next == Extended(run, s[k + 1])
    <2>8. /\ next \in [sum : Nat, start : Int, end : Int]
          /\ next.sum = x /\ next.start = a /\ next.end = b
        BY <1>2, <2>1, <2>7
    <2>9. next.start <= s[k + 1][1]
        BY <1>2, <2>8 DEF a
    <2> HIDE DEF next
    <2>10. RunFits(next, s, k + 1)
        BY <1>2, <2>4, <2>5, <2>6, <2>8, <2>9 DEF RunFits
    <2> QED
        BY <2>10 DEF next
<1> QED
    BY <1>6, <1>7

(* Merging a list goes through one run per prefix.                         *)
LEMMA MergingSteps ==
    ASSUME NEW m \in Nat, NEW list, DOMAIN list = 1 .. m, NEW first
    PROVE  \E v : /\ v[0] = first
                  /\ \A k \in 1 .. m : v[k] = Extended(v[k - 1], list[k])
                  /\ v[m] = Merging!Folding(first, list)
    BY Merging!FoldLeftSteps

(* Merging a sorted list counts each minute it takes once.                 *)
LEMMA MergedCounts ==
    ASSUME NEW n, n \in Nat \ {0}, NEW s, s \in [1 .. n -> Int \X Int],
           \A i \in 1 .. n : s[i][1] < s[i][2],
           \A i, j \in 1 .. n : i < j => s[i][1] <= s[j][1],
           NEW run, run = FoldLeft(Extended, [sum |-> 0, start |-> s[1][1], end |-> s[1][2]], Tail(s))
    PROVE  run.sum + run.end - run.start = Cardinality(Covered(s, n))
<1> DEFINE base == [sum |-> 0, start |-> s[1][1], end |-> s[1][2]]
           rest == Tail(s)
           last == n - 1
<1>1. last \in Nat /\ DOMAIN rest = 1 .. last /\ \A i \in 1 .. last : rest[i] = s[i + 1]
    <2>1. s \in Seq(Int \X Int) /\ Len(s) = n /\ s # << >>
        OBVIOUS
    <2> QED
        BY <2>1
<1>2. run = Merging!Folding(base, rest)
    <2> HIDE DEF base, rest
    <2> QED
        BY DEF base, rest, Merging!Folding, Merging!FoldLeft, Merging!MapThenFoldSet, Merging!Max,
               FoldLeft, MapThenFoldSet, Max
<1>3. PICK v : /\ v[0] = base
               /\ \A k \in 1 .. last : v[k] = Extended(v[k - 1], rest[k])
               /\ v[last] = Merging!Folding(base, rest)
    <2> HIDE DEF base, rest, last
    <2> QED
        BY ONLY <1>1, MergingSteps
<1> DEFINE B == {k \in 0 .. n - 1 : RunFits(v[k], s, k + 1)}
<1>4. 0 \in B
    <2>1. 1 \in 1 .. n /\ s[1] \in Int \X Int /\ s[1][1] < s[1][2]
        OBVIOUS
    <2>2. Covered(s, 1) = {} \union (s[1][1] .. s[1][2] - 1)
        <3> DEFINE a == s[1][1]
                   b == s[1][2]
        <3>1. \A i : i \in 1 .. 1 <=> i = 1
            OBVIOUS
        <3>2. Covered(s, 1) = {m \in Int : a <= m /\ m < b}
            BY <3>1 DEF Covered
        <3>3. a \in Int /\ b \in Int
            BY <2>1
        <3> HIDE DEF a, b
        <3>4. {m \in Int : a <= m /\ m < b} = a .. b - 1
            BY <3>3
        <3> QED
            BY <3>2, <3>4 DEF a, b
    <2>3. IsFiniteSet({}) /\ Cardinality({}) = 0
        BY FS_EmptySet
    <2>4. RunFits(base, s, 1)
        <3>1. /\ base \in [sum : Nat, start : Int, end : Int]
              /\ base.start = s[1][1] /\ base.end = s[1][2] /\ base.sum = 0
            BY <2>1
        <3> HIDE DEF base
        <3>2. base.start < base.end /\ base.start <= s[1][1]
            BY <2>1, <3>1
        <3>3. /\ Cardinality({}) = base.sum
              /\ Covered(s, 1) = {} \union (base.start .. base.end - 1)
            BY <2>2, <2>3, <3>1
        <3>4. \E done \in SUBSET Int :
                 /\ IsFiniteSet(done) /\ Cardinality(done) = base.sum
                 /\ \A m \in done : m < base.start
                 /\ Covered(s, 1) = done \union (base.start .. base.end - 1)
            <4> WITNESS {} \in SUBSET Int
            <4> QED
                BY <2>3, <3>3
        <3> QED
            BY <3>1, <3>2, <3>4 DEF RunFits
    <2>5. v[0] = base /\ 0 \in 0 .. n - 1 /\ 0 + 1 = 1
        BY <1>3
    <2> HIDE DEF base
    <2> QED
        BY <2>4, <2>5
<1>5. ASSUME NEW k \in 1 .. n - 1, k - 1 \in B
      PROVE  k \in B
    <2>1. RunFits(v[k - 1], s, k)
        <3>1. (k - 1) + 1 = k
            OBVIOUS
        <3>2. RunFits(v[k - 1], s, (k - 1) + 1)
            BY <1>5
        <3> QED
            BY <3>1, <3>2
    <2>2. k \in 1 .. n /\ k + 1 <= n /\ k \in 0 .. n - 1
        OBVIOUS
    <2>3. RunFits(Extended(v[k - 1], s[k + 1]), s, k + 1)
        BY <2>1, <2>2, ExtendedFits
    <2>4. v[k] = Extended(v[k - 1], s[k + 1])
        <3> HIDE DEF base, rest
        <3> QED
            BY <1>1, <1>3
    <2> QED
        BY <2>2, <2>3, <2>4
<1>6. RunFits(run, s, n)
    <2> DEFINE m == n - 1
    <2>1. m \in Nat /\ m + 1 = n
        OBVIOUS
    <2>2. 0 \in B /\ \A k \in 1 .. m : k - 1 \in B => k \in B
        BY <1>4, <1>5
    <2> HIDE DEF B, m
    <2>3. m \in B
        BY <2>1, <2>2, Merging!CountUp
    <2>4. RunFits(v[m], s, n)
        BY <2>1, <2>3 DEF B
    <2>5. v[m] = run
        <3> HIDE DEF base, rest
        <3> QED
            BY <1>2, <1>3 DEF m
    <2> QED
        BY <2>4, <2>5
<1> HIDE DEF base, rest, last, B
<1>7. PICK done \in SUBSET Int :
          /\ IsFiniteSet(done) /\ Cardinality(done) = run.sum
          /\ \A m \in done : m < run.start
          /\ Covered(s, n) = done \union (run.start .. run.end - 1)
    BY <1>6 DEF RunFits
<1>8. run.sum \in Nat /\ run.start \in Int /\ run.end \in Int /\ run.start < run.end
    BY <1>6 DEF RunFits
<1>9. IsFiniteSet(run.start .. run.end - 1) /\ Cardinality(run.start .. run.end - 1) = run.end - run.start
    BY <1>8, MinutesBetween
<1>10. Cardinality(done \intersect (run.start .. run.end - 1)) = 0
    <2>1. done \intersect (run.start .. run.end - 1) = {}
        BY <1>7, <1>8
    <2> QED
        BY <2>1, FS_EmptySet
<1> DEFINE open == run.start .. run.end - 1
<1> HIDE DEF open
<1>11. Cardinality(done \union open) = Cardinality(done) + Cardinality(open) - Cardinality(done \intersect open)
    <2>1. IsFiniteSet(done) /\ IsFiniteSet(open)
        BY <1>7, <1>9 DEF open
    <2> QED
        BY <2>1, FS_Union
<1> QED
    BY <1>7, <1>8, <1>9, <1>10, <1>11 DEF open

(* _union_minutes: what overlapping, repeated, nested or adjacent fixed    *)
(* schedules take of a window is each minute that one of them covers,      *)
(* counted once, for any list of intervals in any order.                   *)
THEOREM MinutesCountedOnce ==
    ASSUME NEW L \in Nat, NEW intervals \in [1 .. L -> Int \X Int], NEW window \in Int \X Int
    PROVE  UnionMinutes(intervals, window)
           = Cardinality({m \in window[1] .. window[2] - 1 :
                             \E k \in 1 .. L : intervals[k][1] <= m /\ m < intervals[k][2]})
<1> DEFINE kept == InWindow(intervals, window)
           s == Sorted(intervals, window)
           n == Cardinality(kept)
           taken == {m \in window[1] .. window[2] - 1 :
                        \E k \in 1 .. L : intervals[k][1] <= m /\ m < intervals[k][2]}
           run == FoldLeft(Extended, [sum |-> 0, start |-> s[1][1], end |-> s[1][2]], Tail(s))
<1>1. /\ n \in Nat
      /\ s \in [1 .. n -> Int \X Int]
      /\ \A i \in 1 .. n : \E k \in kept : s[i] = Clip(intervals[k], window)
      /\ \A k \in kept : \E i \in 1 .. n : s[i] = Clip(intervals[k], window)
      /\ \A i, j \in 1 .. n : i < j => s[i][1] <= s[j][1]
    BY SortedFits
<1>2. kept = {k \in 1 .. L : Clip(intervals[k], window)[1] < Clip(intervals[k], window)[2]}
    BY DEF InWindow
<1>3. UnionMinutes(intervals, window) = IF s = << >> THEN 0 ELSE run.sum + run.end - run.start
    BY DEF UnionMinutes
<1> HIDE DEF kept, s, n
<1>4. \A i \in 1 .. n : s[i][1] < s[i][2]
    BY <1>1, <1>2
<1>5. ASSUME NEW k \in 1 .. L, NEW m \in Int
      PROVE  /\ window[1] <= m /\ m < window[2] /\ intervals[k][1] <= m /\ m < intervals[k][2]
             <=> Clip(intervals[k], window)[1] <= m /\ m < Clip(intervals[k], window)[2]
    <2>1. intervals[k][1] \in Int /\ intervals[k][2] \in Int /\ window[1] \in Int /\ window[2] \in Int
        OBVIOUS
    <2> QED
        BY <2>1 DEF Clip, Least
<1>6. Covered(s, n) = taken
    <2>1. ASSUME NEW m \in taken
          PROVE  m \in Covered(s, n)
        <3>1. m \in Int /\ window[1] <= m /\ m < window[2]
            OBVIOUS
        <3>2. PICK k \in 1 .. L : intervals[k][1] <= m /\ m < intervals[k][2]
            OBVIOUS
        <3>3. Clip(intervals[k], window)[1] <= m /\ m < Clip(intervals[k], window)[2]
            BY <1>5, <3>1, <3>2
        <3>4. k \in kept
            <4>1. Clip(intervals[k], window)[1] \in Int /\ Clip(intervals[k], window)[2] \in Int
                BY DEF Clip, Least
            <4> QED
                BY <1>2, <3>1, <3>3, <4>1
        <3>5. PICK i \in 1 .. n : s[i] = Clip(intervals[k], window)
            BY <1>1, <3>4
        <3> QED
            BY <3>1, <3>3, <3>5 DEF Covered
    <2>2. ASSUME NEW m \in Covered(s, n)
          PROVE  m \in taken
        <3>1. m \in Int
            BY DEF Covered
        <3>2. PICK i \in 1 .. n : s[i][1] <= m /\ m < s[i][2]
            BY DEF Covered
        <3>3. PICK k \in kept : s[i] = Clip(intervals[k], window)
            BY <1>1
        <3>4. k \in 1 .. L
            BY <1>2
        <3>5. window[1] <= m /\ m < window[2] /\ intervals[k][1] <= m /\ m < intervals[k][2]
            BY <1>5, <3>1, <3>2, <3>3, <3>4
        <3> QED
            BY <3>1, <3>4, <3>5
    <2> HIDE DEF taken
    <2> QED
        BY <2>1, <2>2
<1>7. CASE n = 0
    <2>1. s = << >>
        BY <1>1, <1>7
    <2>2. Covered(s, n) = {}
        BY <1>7 DEF Covered
    <2> QED
        BY <1>3, <1>6, <2>1, <2>2, FS_EmptySet
<1>8. CASE n # 0
    <2>1. s # << >>
        <3>1. 1 \in DOMAIN s
            BY <1>1, <1>8
        <3> QED
            BY <3>1
    <2>2. run.sum + run.end - run.start = Cardinality(Covered(s, n))
        <3> HIDE DEF run
        <3> QED
            BY <1>1, <1>4, <1>8, MergedCounts DEF run
    <2>3. UnionMinutes(intervals, window) = run.sum + run.end - run.start
        BY <1>3, <2>1
    <2> HIDE DEF run, taken
    <2>4. UnionMinutes(intervals, window) = Cardinality(taken)
        BY <1>6, <2>2, <2>3
    <2> QED
        BY <2>4 DEF taken
<1> QED
    BY <1>7, <1>8

(***************************************************************************)
(* Questions and answers                                                   *)
(***************************************************************************)
(* What has been answered is the answer to what was asked.                 *)
AnswerInv == asked \in Questions /\ (answered => answer = Answer(asked))

(* The answer is given once, and to the question.                          *)
LEMMA AnswerInvariant == Answering => []AnswerInv
<1>1. Ask => AnswerInv
    BY DEF Ask, AnswerInv
<1>2. AnswerInv /\ [Compute]_<< asked, answered, answer >> => AnswerInv'
    <2>1. ASSUME AnswerInv, Compute
          PROVE  AnswerInv'
        <3>1. asked' = asked /\ answer' = Answer(asked) /\ asked \in Questions
            BY <2>1 DEF Compute, AnswerInv
        <3>2. Answer(asked)' = Answer(asked')
            OBVIOUS
        <3> QED
            BY <3>1 DEF AnswerInv
    <2>2. ASSUME AnswerInv, UNCHANGED << asked, answered, answer >>
          PROVE  AnswerInv'
        BY <2>2 DEF AnswerInv
    <2> QED
        BY <2>1, <2>2
<1> QED
    BY <1>1, <1>2, PTL DEF Answering

(* The dates of a question are finitely many.                              *)
LEMMA QuestionDates ==
    ASSUME NEW dates \in SUBSET (1 .. MaxDate)
    PROVE  dates \in SUBSET Int /\ IsFiniteSet(dates)
<1>1. 1 \in Int /\ MaxDate \in Int
    BY BoundsAssumption DEF BoundsAssumption
<1>2. IsFiniteSet(1 .. MaxDate)
    BY <1>1, FS_Interval
<1>3. 1 .. MaxDate \subseteq Int
    BY <1>1
<1> QED
    BY <1>2, <1>3, FS_Subset

(* Sharing out minutes over dates, dates over a cycle and units over       *)
(* blocks loses nothing, adds nothing and is as even as integers go, for   *)
(* any bounds on what is shared.                                           *)
THEOREM DivisionsAreExact == Answering => []DivisionsExact
<1>1. ASSUME AnswerInv
      PROVE  QuotasAddUp
    <2>1. SUFFICES ASSUME answered, asked.about = "quotas", asked.dates # {}
                   PROVE  /\ Total(answer) = asked.need
                          /\ asked.need > 0 => DOMAIN answer = asked.dates
                          /\ \A d, e \in DOMAIN answer : d < e => answer[d] - answer[e] \in {0, 1}
        BY DEF QuotasAddUp, Answered
    <2> DEFINE need == asked.need
               dates == asked.dates
    <2>2. need \in Nat /\ dates \in SUBSET (1 .. MaxDate)
        BY <1>1, <2>1, BoundsAssumption DEF AnswerInv, Questions, BoundsAssumption
    <2>3. answer = DailyQuotas(need, dates)
        BY <1>1, <2>1 DEF AnswerInv, Answer
    <2> HIDE DEF need, dates
    <2>4. dates \in SUBSET Int /\ IsFiniteSet(dates) /\ dates # {}
        BY <2>1, <2>2, QuestionDates DEF dates
    <2>5. CASE need = 0
        <3>1. answer = Nothing
            BY <2>3, <2>5 DEF DailyQuotas
        <3>2. Total(Nothing) = 0
            <4>1. IsFiniteSet({}) /\ Nothing \in [{} -> Int] /\ Part(Nothing, {}) = Nothing
                BY FS_EmptySet DEF Nothing, Part
            <4> QED
                BY <4>1, TotalSplits
        <3>3. DOMAIN answer = {}
            BY <3>1 DEF Nothing
        <3> QED
            BY <2>5, <3>1, <3>2, <3>3 DEF need
    <2>6. CASE need # 0
        <3>1. need > 0
            BY <2>2, <2>6
        <3>2. answer \in [dates -> Nat] /\ Total(answer) = need
            BY <2>2, <2>3, <2>4, <3>1, DailyQuotasAddUp
        <3>3. \A d, e \in dates : d < e => answer[d] - answer[e] \in {0, 1}
            BY <2>2, <2>3, <2>4, <3>1, DailyQuotasEven
        <3> QED
            BY <3>2, <3>3 DEF need, dates
    <2> QED
        BY <2>5, <2>6
<1>2. ASSUME AnswerInv
      PROVE  DatesSpread
    <2>1. SUFFICES ASSUME answered, asked.about = "dates", asked.dates # {},
                          NEW n, n = Cardinality(asked.dates),
                          NEW places, places = Places(answer, asked.dates)
                   PROVE  /\ Cardinality(answer) = Least(asked.count, n)
                          /\ 0 \in places
                          /\ \A p, r \in places : Gap(p, places, n) - Gap(r, places, n) \in -1 .. 1
        BY DEF DatesSpread, Answered
    <2> DEFINE count == asked.count
               dates == asked.dates
    <2>2. count \in Nat \ {0} /\ dates \in SUBSET (1 .. MaxDate)
        BY <1>2, <2>1, BoundsAssumption DEF AnswerInv, Questions, BoundsAssumption
    <2>3. answer = EvenlySpaced(dates, count)
        BY <1>2, <2>1 DEF AnswerInv, Answer
    <2>4. n = Cardinality(dates) /\ places = Places(answer, dates) /\ dates # {}
        BY <2>1
    <2> HIDE DEF count, dates
    <2>5. dates \in SUBSET Int /\ IsFiniteSet(dates)
        BY <2>2, QuestionDates
    <2>6. /\ Cardinality(answer) = Least(count, n)
          /\ 0 \in places
          /\ \A p, r \in places : Gap(p, places, n) - Gap(r, places, n) \in -1 .. 1
        BY <2>2, <2>3, <2>4, <2>5, DatesEvenlySpaced
    <2> QED
        BY <2>6 DEF count
<1>3. ASSUME AnswerInv
      PROVE  SharesAddUp
    <2>1. SUFFICES ASSUME answered, asked.about = "shares"
                   PROVE  /\ Total(answer) = asked.quantity
                          /\ \A b \in DOMAIN answer : answer[b] >= 1
                          /\ \A a, b \in DOMAIN answer :
                                asked.minutes[a] > asked.minutes[b] => answer[a] >= answer[b]
        BY DEF SharesAddUp, Answered
    <2> DEFINE quantity == asked.quantity
               m == asked.minutes
               D == DOMAIN m
    <2>2. /\ quantity \in Nat /\ m \in Lists(1 .. MaxMinute)
          /\ D # {} /\ quantity >= Cardinality(D)
        BY <1>3, <2>1, BoundsAssumption DEF AnswerInv, Questions, BoundsAssumption
    <2>3. answer = Shares(quantity, m)
        BY <1>3, <2>1 DEF AnswerInv, Answer
    <2> HIDE DEF quantity, m
    <2>4. PICK n \in 0 .. MaxParts : m \in [1 .. n -> 1 .. MaxMinute]
        BY <2>2 DEF Lists
    <2>5. n \in Int /\ 1 \in Int /\ MaxMinute \in Nat /\ D = 1 .. n
        BY <2>4, BoundsAssumption DEF BoundsAssumption
    <2>6. D \in SUBSET Int /\ IsFiniteSet(D)
        BY <2>5, FS_Interval
    <2>7. m \in [D -> Nat \ {0}]
        <3>1. \A i \in 1 .. MaxMinute : i \in Nat \ {0}
            BY <2>5
        <3> QED
            BY <2>4, <2>5, <3>1
    <2> HIDE DEF D
    <2>8. /\ Shares(quantity, m) \in [D -> Nat \ {0}]
          /\ Total(Shares(quantity, m)) = quantity
          /\ \A a, b \in D : m[a] > m[b] => Shares(quantity, m)[a] >= Shares(quantity, m)[b]
        BY <2>2, <2>6, <2>7, SharesExact
    <2> QED
        BY <2>3, <2>8 DEF quantity, m
<1>4. AnswerInv => DivisionsExact
    BY <1>1, <1>2, <1>3 DEF DivisionsExact
<1> QED
    BY <1>4, AnswerInvariant, PTL

(* What fixed schedules take of a period is counted once, for any number   *)
(* of them, in any order and for any bounds on their times.                *)
THEOREM UnionsCountOnce == Answering => []UnionCountsOnce
<1>1. ASSUME AnswerInv
      PROVE  UnionCountsOnce
    <2>1. SUFFICES ASSUME answered, asked.about = "union"
                   PROVE  answer = Cardinality({m \in asked.window[1] .. asked.window[2] - 1 :
                                                  \E k \in DOMAIN asked.intervals :
                                                     asked.intervals[k][1] <= m /\ m < asked.intervals[k][2]})
        BY DEF UnionCountsOnce, Answered
    <2> DEFINE list == asked.intervals
               window == asked.window
    <2>2. list \in Lists(Intervals) /\ window \in Intervals
        BY <1>1, <2>1 DEF AnswerInv, Questions
    <2>3. answer = UnionMinutes(list, window)
        BY <1>1, <2>1 DEF AnswerInv, Answer
    <2> HIDE DEF list, window
    <2>4. Intervals \subseteq Int \X Int
        BY BoundsAssumption DEF Intervals, BoundsAssumption
    <2>5. PICK n \in 0 .. MaxParts : list \in [1 .. n -> Intervals]
        BY <2>2 DEF Lists
    <2>6. n \in Nat /\ list \in [1 .. n -> Int \X Int] /\ window \in Int \X Int /\ DOMAIN list = 1 .. n
        BY <2>2, <2>4, <2>5
    <2>7. answer = Cardinality({m \in window[1] .. window[2] - 1 :
                                  \E k \in 1 .. n : list[k][1] <= m /\ m < list[k][2]})
        BY <2>3, <2>6, MinutesCountedOnce
    <2> QED
        BY <2>6, <2>7 DEF list, window
<1> QED
    BY <1>1, AnswerInvariant, PTL

=============================================================================
