------------------------------ MODULE FoldLemmas ------------------------------
(***************************************************************************)
(* What the proofs need of numbers and of FoldLeft: a set of naturals has  *)
(* a least element, and the iteration that FoldLeft chooses exists and     *)
(* stays in the set its operation stays in.  The theorems on induction of  *)
(* the standard modules take an operator; here induction is the choice of  *)
(* the least counterexample, which needs a set only.                       *)
(***************************************************************************)
EXTENDS Integers, SequencesExt, WellFoundedInduction, TLAPS

\* A set of natural numbers that is not empty has a least element.
LEMMA LeastNumber ==
    ASSUME NEW T, T \subseteq Nat, T # {}
    PROVE  \E x \in T : \A y \in T : x <= y
<1>. DEFINE R == OpToRel(<, Nat)
<1>1. IsWellFoundedOn(R, Nat)
    BY NatLessThanWellFounded
<1>2. \A x, y \in Nat : <<y, x>> \in R <=> y < x
    BY DEF OpToRel
<1>. HIDE DEF R
<1>3. PICK x \in T : \A y \in T : <<y, x>> \notin R
    BY <1>1, WFMin
<1>4. ASSUME NEW y \in T PROVE x <= y
    <2>1. x \in Nat /\ y \in Nat
        OBVIOUS
    <2>2. ~ (y < x)
        BY <1>2, <1>3, <2>1
    <2>. QED
        BY <2>1, <2>2
<1>. QED
    BY <1>4

\* Max of a set of numbers that has an upper bound.
LEMMA MaxOf ==
    ASSUME NEW n \in Nat, NEW s, s \subseteq 1 .. n, s # {}
    PROVE  /\ Max(s) \in s
           /\ \A y \in s : y <= Max(s)
<1>. DEFINE T == {n - x : x \in s}
<1>1. \A x \in s : n - x \in Nat
    OBVIOUS
<1>. HIDE DEF T
<1>2. PICK d \in T : \A y \in T : d <= y
    <2>1. T \subseteq Nat /\ T # {}
        BY <1>1 DEF T
    <2>. QED
        BY <2>1, LeastNumber
<1>3. PICK m \in s : d = n - m
    BY DEF T
<1>4. \A y \in s : n - y \in T
    BY DEF T
<1>5. \A y \in s : y <= m
    BY <1>2, <1>3, <1>4
<1>. QED
    BY <1>3, <1>5 DEF Max

LEMMA MaxOfInterval ==
    ASSUME NEW n \in Nat \ {0}
    PROVE  Max(1 .. n) = n /\ (1 .. n) \ {n} = 1 .. n - 1
<1>. DEFINE s == 1 .. n
<1>1. s \subseteq 1 .. n /\ s # {} /\ n \in Nat /\ n \in s
    OBVIOUS
<1>2. Max(s) \in s /\ \A y \in s : y <= Max(s)
    <2>. HIDE DEF s
    <2>. QED
        BY <1>1, MaxOf
<1>. QED
    BY <1>1, <1>2

\* A set of numbers up to k without its last element reaches up to k - 1.
LEMMA WithoutMax ==
    ASSUME NEW k \in Nat, NEW s \in SUBSET (1 .. k), s # {}
    PROVE  /\ k # 0
           /\ s \ {Max(s)} \in SUBSET (1 .. (k - 1))
<1>1. Max(s) \in s /\ \A y \in s : y <= Max(s)
    BY MaxOf
<1>2. ASSUME NEW y \in s, y # Max(s)
      PROVE  y \in 1 .. (k - 1)
    <2>1. y \in 1 .. k /\ Max(s) \in 1 .. k /\ y <= Max(s)
        BY <1>1
    <2>2. \A a, b \in 1 .. k : a <= b /\ a # b => a \in 1 .. (k - 1)
        OBVIOUS
    <2>. QED
        BY <1>2, <2>1, <2>2
<1>3. k # 0
    <2>1. Max(s) \in 1 .. k
        BY <1>1
    <2>. QED
        BY <2>1
<1>. QED
    BY <1>2, <1>3

\* What holds of an iteration at the empty set, and of s when it holds of s
\* without its last element, holds of it everywhere.
LEMMA IterationStays ==
    ASSUME NEW n \in Nat, NEW iter, NEW V,
           iter[{}] \in V,
           \A s \in SUBSET (1 .. n) :
                s # {} /\ iter[s \ {Max(s)}] \in V => iter[s] \in V
    PROVE  \A s \in SUBSET (1 .. n) : iter[s] \in V
<1>. DEFINE Holds(k) == \A s \in SUBSET (1 .. k) : iter[s] \in V
            T == {k \in 0 .. n : ~ Holds(k)}
<1>1. SUFFICES ASSUME ~ Holds(n) PROVE FALSE
    OBVIOUS
<1>2. n \in T /\ T \subseteq Nat
    BY <1>1
<1>3. PICK k \in T : \A y \in T : k <= y
    <2>. HIDE DEF T
    <2>. QED
        BY <1>2, LeastNumber
<1>4. k \in 0 .. n /\ k \in Nat
    OBVIOUS
<1>5. PICK s \in SUBSET (1 .. k) : iter[s] \notin V
    OBVIOUS
<1>6. s \in SUBSET (1 .. n)
    BY <1>4
<1>. HIDE DEF T, Holds
<1>7. s # {} /\ iter[s \ {Max(s)}] \notin V
    BY <1>5, <1>6
<1>8. k # 0 /\ s \ {Max(s)} \in SUBSET (1 .. (k - 1))
    BY <1>4, <1>7, WithoutMax
<1>9. ~ Holds(k - 1)
    BY <1>7, <1>8 DEF Holds
<1>10. k - 1 \in 0 .. n /\ ~ (k <= k - 1)
    BY <1>4, <1>8
<1>11. k - 1 \in T
    BY <1>9, <1>10 DEF T
<1>. QED
    BY <1>3, <1>10, <1>11

\* The iteration over 1 .. n of a function.
IsIteration(iter, n, F, base) ==
    iter = [s \in SUBSET (1 .. n) |->
                IF s = {} THEN base
                ELSE F[<<Max(s), iter[s \ {Max(s)}]>>]]

\* There is one.
LEMMA IterationExists ==
    ASSUME NEW n \in Nat, NEW F, NEW base
    PROVE  \E iter : IsIteration(iter, n, F, base)
<1>. DEFINE Fine(k) == \E iter : IsIteration(iter, k, F, base)
            T == {k \in 0 .. n : ~ Fine(k)}
<1>1. SUFFICES ASSUME ~ Fine(n) PROVE FALSE
    OBVIOUS
<1>2. n \in T /\ T \subseteq Nat
    BY <1>1
<1>3. PICK k \in T : \A y \in T : k <= y
    <2>. HIDE DEF T
    <2>. QED
        BY <1>2, LeastNumber
<1>4. k \in 0 .. n /\ k \in Nat /\ ~ Fine(k)
    OBVIOUS
<1>5. \A y \in 0 .. n : ~ Fine(y) => k <= y
    BY <1>3
<1>. HIDE DEF T
<1>6. CASE k = 0
    <2>. DEFINE it == [s \in SUBSET (1 .. k) |-> base]
    <2>1. \A s \in SUBSET (1 .. k) : s = {}
        BY <1>6
    <2>2. it = [s \in SUBSET (1 .. k) |->
                    IF s = {} THEN base
                    ELSE F[<<Max(s), it[s \ {Max(s)}]>>]]
        BY <2>1
    <2>. HIDE DEF it
    <2>. QED
        BY <1>4, <2>2 DEF IsIteration
<1>7. CASE k # 0
    <2>1. k - 1 \in 0 .. n /\ k - 1 \in Nat /\ ~ (k <= k - 1)
        BY <1>4, <1>7
    <2>2. Fine(k - 1)
        <3>. HIDE DEF Fine
        <3>. QED
            BY <1>5, <2>1
    <2>3. PICK old : IsIteration(old, k - 1, F, base)
        BY <2>2
    <2>. DEFINE it == [s \in SUBSET (1 .. k) |->
                        IF s = {} THEN base
                        ELSE F[<<Max(s), old[s \ {Max(s)}]>>]]
    <2>4. \A s \in SUBSET (1 .. k) : s # {} =>
            s \ {Max(s)} \in SUBSET (1 .. (k - 1))
        BY <1>4, WithoutMax
    <2>5. \A s \in SUBSET (1 .. (k - 1)) : s \in SUBSET (1 .. k)
        BY <1>4
    <2>6. \A s \in SUBSET (1 .. (k - 1)) :
            old[s] = IF s = {} THEN base
                     ELSE F[<<Max(s), old[s \ {Max(s)}]>>]
        BY <2>3 DEF IsIteration
    <2>7. \A s \in SUBSET (1 .. (k - 1)) : it[s] = old[s]
        BY <2>5, <2>6
    <2>8. it = [s \in SUBSET (1 .. k) |->
                    IF s = {} THEN base
                    ELSE F[<<Max(s), it[s \ {Max(s)}]>>]]
        BY <2>4, <2>7
    <2>. HIDE DEF it
    <2>. QED
        BY <1>4, <2>8 DEF IsIteration
<1>. QED
    BY <1>6, <1>7

\* It stays in V when its start is in V and the function stays there.
LEMMA IterationIn ==
    ASSUME NEW n \in Nat, NEW V, NEW base \in V,
           NEW F \in [(1 .. n) \X V -> V]
    PROVE  \E iter :
            /\ IsIteration(iter, n, F, base)
            /\ \A s \in SUBSET (1 .. n) : iter[s] \in V
<1>1. PICK iter : IsIteration(iter, n, F, base)
    BY IterationExists
<1>2. \A s \in SUBSET (1 .. n) :
        iter[s] = IF s = {} THEN base ELSE F[<<Max(s), iter[s \ {Max(s)}]>>]
    BY <1>1 DEF IsIteration
<1>3. \A s \in SUBSET (1 .. n) : s # {} => Max(s) \in 1 .. n
    BY MaxOf
<1>4. \A s \in SUBSET (1 .. n) :
        s # {} /\ iter[s \ {Max(s)}] \in V => iter[s] \in V
    <2>. SUFFICES ASSUME NEW s \in SUBSET (1 .. n), s # {},
                         iter[s \ {Max(s)}] \in V
                  PROVE  iter[s] \in V
        OBVIOUS
    <2>1. <<Max(s), iter[s \ {Max(s)}]>> \in (1 .. n) \X V
        BY <1>3
    <2>. QED
        BY <1>2, <2>1
<1>5. iter[{}] \in V
    BY <1>2
<1>. QED
    BY <1>1, <1>4, <1>5, IterationStays
=============================================================================
