------------------------------- MODULE FoldFacts -------------------------------
(***************************************************************************)
(* Facts about the folds of the community modules, which define them by    *)
(* recursion on the subsets of a finite set.  The operation folded and the *)
(* property followed through it are constants: whoever needs a fact        *)
(* instantiates the module with operators of its own.                      *)
(***************************************************************************)
EXTENDS Integers, SequencesExt, FiniteSetTheorems, TLAPS

CONSTANTS
    Op(_, _),   \* folds a second argument into a first
    Good(_)     \* what is to be shown of the result

------------------------------------------------------------------------------
(* Induction                                                                *)

(* Of the subsets of a finite set some are least.                          *)
LEMMA LeastSubset ==
    ASSUME NEW S, IsFiniteSet(S), NEW B \in SUBSET (SUBSET S), B # {}
    PROVE  \E a \in B : \A b \in B : b \subseteq a => b = a
<1> DEFINE R == StrictSubsetOrdering(S)
<1>1. IsWellFoundedOn(R, SUBSET S)
    <2>1. FiniteSubsetsOf(S) = SUBSET S
        BY FS_FiniteSubsetsOfFinite
    <2> QED
        BY <2>1, FS_StrictSubsetOrderingWellFounded
<1>2. PICK a \in B : \A b \in B : ~(<<b, a>> \in R)
    BY <1>1, WFMin
<1>3. ASSUME NEW b \in B, b \subseteq a
      PROVE  b = a
    BY <1>2, <1>3 DEF StrictSubsetOrdering
<1> QED
    BY <1>3

(* A non-empty finite set of integers has a greatest member.               *)
LEMMA MaxExists ==
    ASSUME NEW n \in Nat, NEW s \in SUBSET (1 .. n), s # {}
    PROVE  Max(s) \in s /\ \A i \in s : i <= Max(s)
<1> DEFINE Above(m) == m .. n
           B == {Above(m) : m \in s}
<1>1. IsFiniteSet(1 .. n)
    BY FS_Interval
<1>2. B \in SUBSET (SUBSET (1 .. n)) /\ B # {}
    <2>1. \A m \in s : Above(m) \in SUBSET (1 .. n)
        OBVIOUS
    <2> HIDE DEF Above
    <2> QED
        BY <2>1
<1>3. PICK a \in B : \A b \in B : b \subseteq a => b = a
    <2> DEFINE S == 1 .. n
    <2>1. IsFiniteSet(S) /\ B \in SUBSET (SUBSET S) /\ B # {}
        BY <1>1, <1>2
    <2> HIDE DEF B, S
    <2> QED
        BY <2>1, LeastSubset
<1>4. PICK m \in s : a = Above(m)
    BY <1>3
<1>5. ASSUME NEW i \in s
      PROVE  i <= m
    <2>1. CASE i > m
        <3>1. Above(i) \in B /\ Above(i) \subseteq Above(m) /\ m \in Above(m) /\ m \notin Above(i)
            BY <2>1
        <3> QED
            BY <1>3, <1>4, <3>1
    <2> QED
        BY <2>1
<1>6. \E x \in s : \A y \in s : x >= y
    BY <1>5
<1> QED
    BY <1>6 DEF Max

(* And a least one.                                                        *)
LEMMA LeastExists ==
    ASSUME NEW n \in Nat, NEW s \in SUBSET (1 .. n), s # {}
    PROVE  \E m \in s : \A i \in s : m <= i
<1> DEFINE Mirror(i) == n + 1 - i
           t == {Mirror(i) : i \in s}
<1>1. t \in SUBSET (1 .. n) /\ t # {}
    <2>1. \A i \in s : Mirror(i) \in 1 .. n
        OBVIOUS
    <2> HIDE DEF Mirror
    <2> QED
        BY <2>1
<1>2. Max(t) \in t /\ \A i \in t : i <= Max(t)
    <2> HIDE DEF t
    <2> QED
        BY <1>1, MaxExists
<1>3. PICK m \in s : Max(t) = Mirror(m)
    BY <1>2
<1>4. ASSUME NEW i \in s
      PROVE  m <= i
    <2>1. Mirror(i) <= Mirror(m)
        BY <1>2, <1>3
    <2> QED
        BY <2>1
<1> QED
    BY <1>4

------------------------------------------------------------------------------
(* Recursion on the subsets of a finite set                                 *)

(* The function that folds f over each subset of A, taking the members of  *)
(* a subset in the order of pick.                                          *)
Unfolds(h, A, base, f, pick) ==
    h = [s \in SUBSET A |-> IF s = {} THEN base ELSE Op(h[s \ {pick[s]}], f[pick[s]])]

Picks(pick, S) == \A s \in SUBSET S : s # {} => pick[s] \in s

(* There is no second one.                                                 *)
LEMMA UnfoldsOnce ==
    ASSUME NEW S, IsFiniteSet(S), NEW base, NEW f, NEW pick, Picks(pick, S),
           NEW g, NEW h, NEW A \in SUBSET S, NEW B \in SUBSET S,
           Unfolds(g, A, base, f, pick), Unfolds(h, B, base, f, pick),
           NEW C \in SUBSET S, C \subseteq A, C \subseteq B
    PROVE  g[C] = h[C]
<1> DEFINE Bad == {s \in SUBSET (A \intersect B) : g[s] # h[s]}
<1>1. SUFFICES ASSUME Bad # {} PROVE FALSE
    OBVIOUS
<1>2. PICK s \in Bad : \A t \in Bad : t \subseteq s => t = s
    <2>1. Bad \in SUBSET (SUBSET S)
        OBVIOUS
    <2> HIDE DEF Bad
    <2> QED
        BY <1>1, <2>1, LeastSubset
<1>3. /\ g[s] = IF s = {} THEN base ELSE Op(g[s \ {pick[s]}], f[pick[s]])
      /\ h[s] = IF s = {} THEN base ELSE Op(h[s \ {pick[s]}], f[pick[s]])
    BY DEF Unfolds
<1>4. s # {}
    BY <1>3
<1>5. pick[s] \in s
    BY <1>4 DEF Picks
<1>6. s \ {pick[s]} \notin Bad
    BY <1>2, <1>5
<1> QED
    BY <1>3, <1>4, <1>5, <1>6

(* There is one.                                                           *)
LEMMA UnfoldsExists ==
    ASSUME NEW S, IsFiniteSet(S), NEW base, NEW f, NEW pick, Picks(pick, S)
    PROVE  \E h : Unfolds(h, S, base, f, pick)
<1> DEFINE Solved(A) == \E h : Unfolds(h, A, base, f, pick)
           Bad == {A \in SUBSET S : ~Solved(A)}
<1>1. SUFFICES ASSUME Bad # {} PROVE FALSE
    OBVIOUS
<1>2. PICK A \in Bad : \A t \in Bad : t \subseteq A => t = A
    <2>1. Bad \in SUBSET (SUBSET S)
        OBVIOUS
    <2> HIDE DEF Bad
    <2> QED
        BY <1>1, <2>1, LeastSubset
<1> DEFINE G(B) == CHOOSE h : Unfolds(h, B, base, f, pick)
           Value(s) == IF s = {} THEN base
                       ELSE Op(G(s \ {pick[s]})[s \ {pick[s]}], f[pick[s]])
           H == [s \in SUBSET A |-> Value(s)]
<1>3. ASSUME NEW B \in SUBSET A, B # A
      PROVE  Unfolds(G(B), B, base, f, pick)
    BY <1>2, <1>3
<1>4. ASSUME NEW B \in SUBSET A, B # A
      PROVE  G(B)[B] = Value(B)
    <2>1. G(B)[B] = IF B = {} THEN base ELSE Op(G(B)[B \ {pick[B]}], f[pick[B]])
        <3>1. Unfolds(G(B), B, base, f, pick)
            BY <1>3, <1>4
        <3> HIDE DEF G
        <3> QED
            BY <3>1 DEF Unfolds
    <2>2. CASE B # {}
        <3>1. pick[B] \in B
            BY <2>2 DEF Picks
        <3> DEFINE C == B \ {pick[B]}
        <3>2. C \in SUBSET A /\ C # A /\ C \subseteq B /\ C \in SUBSET S /\ B \in SUBSET S
            BY <3>1
        <3>3. Unfolds(G(B), B, base, f, pick) /\ Unfolds(G(C), C, base, f, pick)
            BY <1>3, <1>4, <3>2
        <3> HIDE DEF C, G
        <3>4. G(B)[C] = G(C)[C]
            BY <3>2, <3>3, UnfoldsOnce
        <3> QED
            BY <2>1, <2>2, <3>4 DEF C
    <2> QED
        BY <2>1, <2>2
<1>5. ASSUME NEW s \in SUBSET A
      PROVE  H[s] = IF s = {} THEN base ELSE Op(H[s \ {pick[s]}], f[pick[s]])
    <2>1. CASE s # {}
        <3>1. pick[s] \in s
            BY <2>1 DEF Picks
        <3> DEFINE C == s \ {pick[s]}
        <3>2. C \in SUBSET A /\ C # A
            BY <3>1
        <3> HIDE DEF G
        <3>3. G(C)[C] = H[C]
            <4> HIDE DEF C
            <4> QED
                BY <1>4, <3>2
        <3> QED
            BY <2>1, <3>3
    <2> QED
        BY <2>1
<1>6. Unfolds(H, A, base, f, pick)
    <2> HIDE DEF Value
    <2>1. H = [s \in SUBSET A |-> H[s]]
        OBVIOUS
    <2> HIDE DEF H
    <2> QED
        BY <1>5, <2>1 DEF Unfolds
<1> QED
    BY <1>2, <1>6

(* What the base has and every step keeps holds of every subset.           *)
LEMMA UnfoldsKeeps ==
    ASSUME NEW S, IsFiniteSet(S), NEW base, NEW f, NEW pick, Picks(pick, S),
           NEW h, Unfolds(h, S, base, f, pick),
           Good(base), \A v : \A i \in S : Good(v) => Good(Op(v, f[i]))
    PROVE  \A s \in SUBSET S : Good(h[s])
<1> DEFINE Bad == {s \in SUBSET S : ~Good(h[s])}
<1>1. SUFFICES ASSUME Bad # {} PROVE FALSE
    OBVIOUS
<1>2. PICK s \in Bad : \A t \in Bad : t \subseteq s => t = s
    <2>1. Bad \in SUBSET (SUBSET S)
        OBVIOUS
    <2> HIDE DEF Bad
    <2> QED
        BY <1>1, <2>1, LeastSubset
<1>3. h[s] = IF s = {} THEN base ELSE Op(h[s \ {pick[s]}], f[pick[s]])
    BY DEF Unfolds
<1>4. s # {}
    BY <1>2, <1>3
<1>5. pick[s] \in s
    BY <1>4 DEF Picks
<1>6. s \ {pick[s]} \notin Bad
    BY <1>2, <1>5
<1> QED
    BY <1>2, <1>3, <1>4, <1>5, <1>6

------------------------------------------------------------------------------
(* Folds of sequences                                                       *)

(* The fold as an operator of its own, so that theorems can be instantiated. *)
Folding(base, seq) == FoldLeft(Op, base, seq)

Latest(n) == [s \in SUBSET (1 .. n) |-> Max(s)]

(* A fold from the left takes the last member of every prefix.             *)
LEMMA FoldLeftUnfolds ==
    ASSUME NEW n \in Nat, NEW seq, DOMAIN seq = 1 .. n, NEW base
    PROVE  /\ IsFiniteSet(1 .. n) /\ Picks(Latest(n), 1 .. n)
           /\ \E h : Unfolds(h, 1 .. n, base, seq, Latest(n)) /\ Folding(base, seq) = h[1 .. n]
<1> DEFINE pick == Latest(n)
           iter == CHOOSE h : h = [s \in SUBSET (1 .. n) |->
                       IF s = {} THEN base ELSE Op(h[s \ {Max(s)}], seq[Max(s)])]
<1>1. IsFiniteSet(1 .. n) /\ Picks(pick, 1 .. n)
    <2>1. IsFiniteSet(1 .. n)
        BY FS_Interval
    <2>2. \A s \in SUBSET (1 .. n) : s # {} => pick[s] \in s
        BY MaxExists DEF Latest
    <2> HIDE DEF pick
    <2> QED
        BY <2>1, <2>2 DEF Picks
<1>2. \E h : Unfolds(h, 1 .. n, base, seq, pick)
    <2> HIDE DEF pick
    <2> QED
        BY <1>1, UnfoldsExists
<1>3. ASSUME NEW h
      PROVE  Unfolds(h, 1 .. n, base, seq, pick)
             = (h = [s \in SUBSET (1 .. n) |->
                       IF s = {} THEN base ELSE Op(h[s \ {Max(s)}], seq[Max(s)])])
    BY DEF Unfolds, Latest
<1>4. Unfolds(iter, 1 .. n, base, seq, pick)
    BY <1>2, <1>3
<1>5. Folding(base, seq) = iter[1 .. n]
    BY DEF Folding, FoldLeft, MapThenFoldSet
<1> HIDE DEF iter
<1> QED
    BY <1>1, <1>4, <1>5

(* What the start has and every member keeps, a fold from the left has.    *)
LEMMA FoldLeftKeeps ==
    ASSUME NEW n \in Nat, NEW seq, DOMAIN seq = 1 .. n, NEW base,
           Good(base), \A v : \A i \in 1 .. n : Good(v) => Good(Op(v, seq[i]))
    PROVE  Good(Folding(base, seq))
<1> DEFINE pick == Latest(n)
<1>1. PICK h : Unfolds(h, 1 .. n, base, seq, pick) /\ Folding(base, seq) = h[1 .. n]
    BY FoldLeftUnfolds
<1>2. IsFiniteSet(1 .. n) /\ Picks(pick, 1 .. n)
    BY FoldLeftUnfolds
<1> HIDE DEF pick
<1>3. \A s \in SUBSET (1 .. n) : Good(h[s])
    BY <1>1, <1>2, UnfoldsKeeps
<1> QED
    BY <1>1, <1>3

(* What 0 has and every number passes on to the next, n has.               *)
LEMMA CountUp ==
    ASSUME NEW n \in Nat, NEW B, 0 \in B, \A k \in 1 .. n : k - 1 \in B => k \in B
    PROVE  n \in B
<1> DEFINE Bad == {k \in 1 .. n : k \notin B}
<1>1. SUFFICES ASSUME n \notin B PROVE FALSE
    OBVIOUS
<1>2. n \in Bad /\ Bad \in SUBSET (1 .. n)
    BY <1>1
<1>3. PICK m \in Bad : \A k \in Bad : m <= k
    <2> HIDE DEF Bad
    <2> QED
        BY <1>2, LeastExists
<1>4. m \in 1 .. n /\ m \notin B
    BY <1>3
<1>5. m - 1 \notin B
    BY <1>4
<1>6. m - 1 \in 1 .. n
    BY <1>4, <1>5
<1>7. m - 1 \in Bad /\ m - 1 < m
    BY <1>4, <1>5, <1>6
<1> QED
    BY <1>3, <1>4, <1>7

(* A fold from the left has a value after each member of the sequence.     *)
LEMMA FoldLeftSteps ==
    ASSUME NEW n \in Nat, NEW seq, DOMAIN seq = 1 .. n, NEW base
    PROVE  \E v : /\ v[0] = base
                  /\ \A k \in 1 .. n : v[k] = Op(v[k - 1], seq[k])
                  /\ v[n] = Folding(base, seq)
<1>1. PICK h : Unfolds(h, 1 .. n, base, seq, Latest(n)) /\ Folding(base, seq) = h[1 .. n]
    BY FoldLeftUnfolds
<1> DEFINE v == [k \in 0 .. n |-> h[1 .. k]]
<1>2. \A s \in SUBSET (1 .. n) : h[s] = IF s = {} THEN base ELSE Op(h[s \ {Max(s)}], seq[Max(s)])
    BY <1>1 DEF Unfolds, Latest
<1>3. v[0] = base
    <2>1. 1 .. 0 = {} /\ 0 \in 0 .. n
        OBVIOUS
    <2>2. v[0] = h[{}]
        BY <2>1
    <2>3. {} \in SUBSET (1 .. n)
        OBVIOUS
    <2>4. h[{}] = base
        BY <1>2, <2>3
    <2> QED
        BY <2>2, <2>4
<1>4. ASSUME NEW k \in 1 .. n
      PROVE  v[k] = Op(v[k - 1], seq[k])
    <2>1. 1 .. k \in SUBSET (1 .. n) /\ 1 .. k # {} /\ k \in Nat
        OBVIOUS
    <2>2. Max(1 .. k) \in 1 .. k /\ \A i \in 1 .. k : i <= Max(1 .. k)
        BY <2>1, MaxExists
    <2>3. Max(1 .. k) = k
        <3>1. k \in 1 .. k
            OBVIOUS
        <3> QED
            BY <2>2, <3>1
    <2>4. (1 .. k) \ {k} = 1 .. k - 1
        OBVIOUS
    <2>5. h[1 .. k] = Op(h[1 .. k - 1], seq[k])
        BY <1>2, <2>1, <2>3, <2>4
    <2> QED
        BY <2>5
<1>5. v[n] = Folding(base, seq)
    BY <1>1
<1> HIDE DEF v
<1> QED
    BY <1>3, <1>4, <1>5

=============================================================================
