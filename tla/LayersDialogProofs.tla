------------------------- MODULE LayersDialogProofs -------------------------
(***************************************************************************)
(* Theorems about the dialog of the layers, for any layers, folders, files *)
(* and clicks.                                                             *)
(*                                                                         *)
(* Lists are selected from and sorted by folds.  What they compute is      *)
(* known value by value: a selection is an increasing enumeration of the   *)
(* places of its list, and a sort is a permutation in which the kinds of   *)
(* parameters follow each other.  Two lists of the same elements that are  *)
(* ordered by the same relation are the same list, which is how the sort   *)
(* of a list is compared with what the user asked for.                     *)
(***************************************************************************)
EXTENDS LayersDialog, FiniteSetTheorems, WellFoundedInduction, TLAPS

(***************************************************************************)
(* Induction over sequences.  The induction theorems of the library take   *)
(* an operator and cannot be used here, so the induction is made from the  *)
(* least number outside a set.                                             *)
(***************************************************************************)
LEMMA LeastNumber ==
    ASSUME NEW S \in SUBSET Nat, S # {}
    PROVE  \E least \in S : \A number \in S : least <= number
<1> DEFINE smaller == {pair \in Nat \X Nat : pair[1] < pair[2]}
<1>1. IsWellFoundedOn(smaller, Nat)
  BY NatLessThanWellFounded DEF OpToRel
<1>2. PICK least \in S : \A number \in S : <<number, least>> \notin smaller
  <2> HIDE DEF smaller
  <2> QED
    BY <1>1, WFMin
<1>3. ASSUME NEW number \in S
      PROVE  least <= number
  <2>1. <<number, least>> \notin smaller
    BY <1>2, <1>3
  <2>2. number \in Nat /\ least \in Nat
    BY <1>2, <1>3
  <2>3. ~(number < least)
    BY <2>1, <2>2
  <2> QED
    BY <2>2, <2>3
<1> QED
  BY <1>2, <1>3

LEMMA InductionOnSet ==
    ASSUME NEW S, 0 \in S, \A n \in Nat : n \in S => n + 1 \in S
    PROVE  Nat \subseteq S
<1> SUFFICES ASSUME ~(Nat \subseteq S)
             PROVE  FALSE
  OBVIOUS
<1> DEFINE gap == Nat \ S
<1>1. gap # {} /\ gap \in SUBSET Nat
  OBVIOUS
<1>2. PICK least \in gap : \A number \in gap : least <= number
  <2> HIDE DEF gap
  <2> QED
    BY <1>1, LeastNumber
<1>3. least \in Nat /\ least \notin S /\ least # 0
  BY <1>2
<1>4. least - 1 \in Nat /\ least - 1 \notin gap
  BY <1>2, <1>3
<1>5. (least - 1) + 1 = least
  BY <1>3
<1> QED
  BY <1>3, <1>4, <1>5

\* The largest position of a set whose largest position is known.
LEMMA MaxIs ==
    ASSUME NEW s \in SUBSET Nat, NEW n \in s, \A m \in s : m <= n
    PROVE  Max(s) = n
<1>1. \A k \in s : n >= k
  <2>1. \A k \in s : k \in Nat /\ n \in Nat /\ k <= n
    OBVIOUS
  <2> QED
    BY <2>1
<1>2. Max(s) \in s /\ \A m \in s : Max(s) >= m
  BY <1>1 DEF Max
<1>3. Max(s) \in Nat /\ n \in Nat /\ Max(s) >= n /\ Max(s) <= n
  BY <1>2
<1> QED
  BY <1>3

\* The largest position of a set of positions is one of them and bounds them.
LEMMA MaxInRange ==
    ASSUME NEW n \in Nat, NEW s \in SUBSET (1..n), s # {}
    PROVE  Max(s) \in s /\ \A k \in s : k <= Max(s)
<1> DEFINE Above == {m \in Nat : \A k \in s : k <= m}
<1>1. n \in Above /\ Above \in SUBSET Nat
  OBVIOUS
<1>2. PICK bound \in Above : \A m \in Above : bound <= m
  <2> HIDE DEF Above
  <2> QED
    BY <1>1, LeastNumber
<1>3. bound \in s
  <2> SUFFICES ASSUME bound \notin s
               PROVE  FALSE
    OBVIOUS
  <2>1. \A k \in s : k \in Nat /\ k >= 1 /\ k <= bound /\ k # bound
    BY <1>2
  <2>2. bound \in Nat
    BY <1>2
  <2>3. PICK k \in s : k \in Nat /\ k >= 1 /\ k <= bound
    BY <2>1
  <2>4. bound - 1 \in Nat /\ \A m \in s : m <= bound - 1
    BY <2>1, <2>2, <2>3
  <2>5. bound - 1 \in Above
    BY <2>4
  <2> QED
    BY <1>2, <2>2, <2>5
<1>4. \A k \in s : k <= bound /\ k \in Nat
  BY <1>2
<1> HIDE DEF Above
<1>5. Max(s) = bound
  BY <1>3, <1>4, MaxIs
<1> QED
  BY <1>3, <1>4, <1>5

\* What MapThenFoldSet computes for every set of positions up to n, with a
\* table of what a position makes of a value.
Folding(fold, n, base, table) ==
    fold = [s \in SUBSET (1..n) |->
               IF s = {} THEN base ELSE table[<<fold[s \ {Max(s)}], Max(s)>>]]

LEMMA FoldingGoesOn ==
    ASSUME NEW n \in Nat, NEW base, NEW table, NEW fold, Folding(fold, n, base, table)
    PROVE  \E next : Folding(next, n + 1, base, table)
<1> DEFINE next == [s \in SUBSET (1..(n + 1)) |->
                       IF n + 1 \in s THEN table[<<fold[s \ {n + 1}], n + 1>>] ELSE fold[s]]
<1>1. ASSUME NEW s \in SUBSET (1..(n + 1))
      PROVE  next[s] = IF s = {} THEN base ELSE table[<<next[s \ {Max(s)}], Max(s)>>]
  <2>1. CASE n + 1 \in s
    <3>1. Max(s) = n + 1
      BY <2>1, MaxIs
    <3>2. s \ {n + 1} \in SUBSET (1..(n + 1)) /\ n + 1 \notin s \ {n + 1}
      OBVIOUS
    <3>3. next[s \ {n + 1}] = fold[s \ {n + 1}]
      BY <3>2
    <3>4. next[s] = table[<<fold[s \ {n + 1}], n + 1>>]
      BY <2>1
    <3> QED
      BY <2>1, <3>1, <3>3, <3>4
  <2>2. CASE n + 1 \notin s
    <3>1. s \in SUBSET (1..n)
      BY <2>2
    <3>2. next[s] = fold[s]
      BY <2>2
    <3>3. next[s \ {Max(s)}] = fold[s \ {Max(s)}]
      BY <2>2
    <3>4. fold[s] = IF s = {} THEN base ELSE table[<<fold[s \ {Max(s)}], Max(s)>>]
      BY <3>1 DEF Folding
    <3> QED
      BY <3>2, <3>3, <3>4
  <2> QED
    BY <2>1, <2>2
<1>2. next = [s \in SUBSET (1..(n + 1)) |->
                 IF s = {} THEN base ELSE table[<<next[s \ {Max(s)}], Max(s)>>]]
  <2>1. next = [s \in SUBSET (1..(n + 1)) |-> next[s]]
    OBVIOUS
  <2> HIDE DEF next
  <2> QED
    BY <1>1, <2>1
<1> HIDE DEF next
<1> QED
  BY <1>2 DEF Folding

LEMMA FoldingExists ==
    ASSUME NEW base, NEW table, NEW n \in Nat
    PROVE  \E fold : Folding(fold, n, base, table)
<1> DEFINE Reached == {m \in Nat : \E fold : Folding(fold, m, base, table)}
<1>1. 0 \in Reached
  <2> DEFINE fold == [s \in SUBSET (1..0) |-> base]
  <2>1. \A s \in SUBSET (1..0) : s = {}
    OBVIOUS
  <2>2. fold = [s \in SUBSET (1..0) |->
                   IF s = {} THEN base ELSE table[<<fold[s \ {Max(s)}], Max(s)>>]]
    BY <2>1
  <2> HIDE DEF fold
  <2> QED
    BY <2>2 DEF Folding
<1>2. \A m \in Nat : m \in Reached => m + 1 \in Reached
  BY FoldingGoesOn
<1>3. Nat \subseteq Reached
  <2> HIDE DEF Reached
  <2> QED
    BY <1>1, <1>2, InductionOnSet
<1> QED
  BY <1>3

\* The intervals that a fold over a sequence goes through.
LEMMA Intervals ==
    ASSUME NEW n \in Nat, NEW k \in 1..n
    PROVE  /\ Max(1..k) = k /\ (1..k) \ {k} = 1..(k - 1)
           /\ 1..k # {} /\ 1..k \in SUBSET (1..n) /\ 1..(k - 1) \in SUBSET (1..n)
<1>1. Max(1..k) = k
  BY MaxIs
<1>2. \A j : j \in (1..k) \ {k} <=> j \in 1..(k - 1)
  OBVIOUS
<1>3. k \in 1..k /\ \A j \in 1..k : j \in 1..n
  OBVIOUS
<1> QED
  BY <1>1, <1>2, <1>3

(***************************************************************************)
(* A fold whose values stay in a set X goes through its sequence value by  *)
(* value: any way the table describes it, the values exist.                *)
(***************************************************************************)
LEMMA TypedFolding ==
    ASSUME NEW X, NEW base \in X, NEW n \in Nat, NEW table \in [X \X (1..n) -> X]
    PROVE  \E fold : Folding(fold, n, base, table) /\ \A s \in SUBSET (1..n) : fold[s] \in X
<1>1. PICK fold : Folding(fold, n, base, table)
  BY FoldingExists
<1> DEFINE Typed == {m \in Nat : m <= n => \A s \in SUBSET (1..m) : fold[s] \in X}
<1>2. 0 \in Typed
  <2>1. \A s \in SUBSET (1..0) : s = {} /\ s \in SUBSET (1..n)
    OBVIOUS
  <2> QED
    BY <1>1, <2>1 DEF Folding
<1>3. ASSUME NEW m \in Nat, m \in Typed, m + 1 <= n, NEW s \in SUBSET (1..(m + 1))
      PROVE  fold[s] \in X
  <2>1. \A r \in SUBSET (1..m) : fold[r] \in X
    BY <1>3
  <2>2. CASE m + 1 \in s
    <3>1. Max(s) = m + 1
      BY <2>2, MaxIs
    <3>2. s \ {m + 1} \in SUBSET (1..m) /\ s \in SUBSET (1..n) /\ m + 1 \in 1..n /\ s # {}
      BY <1>3, <2>2
    <3>3. fold[s] = table[<<fold[s \ {m + 1}], m + 1>>]
      BY <1>1, <3>1, <3>2 DEF Folding
    <3> QED
      BY <2>1, <3>2, <3>3
  <2>3. CASE m + 1 \notin s
    <3>1. s \in SUBSET (1..m)
      BY <2>3
    <3> QED
      BY <2>1, <3>1
  <2> QED
    BY <2>2, <2>3
<1>4. \A m \in Nat : m \in Typed => m + 1 \in Typed
  BY <1>3
<1>5. n \in Typed
  <2> HIDE DEF Typed
  <2> QED
    BY <1>2, <1>4, InductionOnSet
<1> QED
  BY <1>1, <1>5
(***************************************************************************)
(* Selections.                                                             *)
(***************************************************************************)

\* Only adds the elements of a list one by one.
LEMMA SelectedInStages ==
    ASSUME NEW S, NEW list \in Seq(S), NEW kept
    PROVE  \E stages :
             /\ stages[0] = << >>
             /\ \A k \in 1..Len(list) :
                   stages[k] = IF list[k] \in kept THEN Append(stages[k - 1], list[k])
                               ELSE stages[k - 1]
             /\ \A k \in 0..Len(list) : stages[k] \in Seq(S)
             /\ Only(list, kept) = stages[Len(list)]
<1> DEFINE n == Len(list)
           Keep(some, e) == IF e \in kept THEN Append(some, e) ELSE some
           table == [p \in Seq(S) \X (1..n) |-> Keep(p[1], list[p[2]])]
           total == CHOOSE iter : iter = [s \in SUBSET DOMAIN list |->
                         IF s = {} THEN << >> ELSE Keep(iter[s \ {Max(s)}], list[Max(s)])]
           stages == [k \in 0..n |-> total[1..k]]
<1>1. n \in Nat /\ DOMAIN list = 1..n /\ \A k \in 1..n : list[k] \in S
  OBVIOUS
<1>2. \A some \in Seq(S), e \in S : Keep(some, e) \in Seq(S)
  OBVIOUS
<1>3. table \in [Seq(S) \X (1..n) -> Seq(S)]
  <2> HIDE DEF Keep, n
  <2> QED
    BY <1>1, <1>2
<1>4. << >> \in Seq(S)
  OBVIOUS
<1>5. PICK fold : Folding(fold, n, << >>, table) /\ \A s \in SUBSET (1..n) : fold[s] \in Seq(S)
  <2> HIDE DEF table, n
  <2> QED
    BY <1>1, <1>3, <1>4, TypedFolding
<1>6. \A s \in SUBSET (1..n) : s # {} => Max(s) \in 1..n /\ fold[s \ {Max(s)}] \in Seq(S)
  <2> HIDE DEF n
  <2> QED
    BY <1>1, <1>5, MaxInRange
<1>7. \A s \in SUBSET (1..n) :
         s # {} => table[<<fold[s \ {Max(s)}], Max(s)>>] = Keep(fold[s \ {Max(s)}], list[Max(s)])
  <2> HIDE DEF Keep, n
  <2> QED
    BY <1>6
<1>8. fold = [s \in SUBSET DOMAIN list |->
                 IF s = {} THEN << >> ELSE Keep(fold[s \ {Max(s)}], list[Max(s)])]
  <2> HIDE DEF table, n, Keep
  <2> QED
    BY <1>1, <1>5, <1>7 DEF Folding
<1>9. total = [s \in SUBSET DOMAIN list |->
                   IF s = {} THEN << >> ELSE Keep(total[s \ {Max(s)}], list[Max(s)])]
  <2> HIDE DEF Keep
  <2> QED
    BY <1>8
<1>10. Only(list, kept) = total[DOMAIN list]
  BY DEF Only, FoldLeft, MapThenFoldSet
<1> HIDE DEF total, table, Keep
<1>11. stages[0] = << >>
  <2>1. 1..0 = {} /\ 0 \in 0..n /\ {} \in SUBSET (1..n)
    BY <1>1
  <2> QED
    BY <1>1, <1>9, <2>1
<1>12. ASSUME NEW k \in 1..n
       PROVE  stages[k] = Keep(stages[k - 1], list[k])
  <2>1. /\ Max(1..k) = k /\ (1..k) \ {k} = 1..(k - 1)
        /\ 1..k # {} /\ 1..k \in SUBSET (1..n)
    <3> HIDE DEF n
    <3> QED
      BY <1>1, Intervals
  <2>2. total[1..k] = Keep(total[1..(k - 1)], list[k])
    <3> HIDE DEF n
    <3> QED
      BY <1>1, <1>9, <2>1
  <2>3. k \in 0..n /\ k - 1 \in 0..n
    BY <1>1
  <2> QED
    BY <2>2, <2>3
<1> DEFINE Typed == {k \in Nat : k <= n => stages[k] \in Seq(S)}
<1>13. stages[n] = Only(list, kept)
  BY <1>1, <1>10
<1> HIDE DEF stages
<1>14. 0 \in Typed
  BY <1>4, <1>11
<1>15. \A k \in Nat : k \in Typed => k + 1 \in Typed
  <2> SUFFICES ASSUME NEW k \in Nat, k \in Typed, k + 1 <= n
               PROVE  stages[k + 1] \in Seq(S)
    OBVIOUS
  <2>1. k + 1 \in 1..n /\ (k + 1) - 1 = k /\ stages[k] \in Seq(S)
    BY <1>1
  <2> QED
    BY <1>1, <1>2, <1>12, <2>1
<1>16. \A k \in 0..n : stages[k] \in Seq(S)
  <2>1. Nat \subseteq Typed
    <3> HIDE DEF Typed
    <3> QED
      BY <1>14, <1>15, InductionOnSet
  <2> QED
    BY <1>1, <2>1
<1>17. \A k \in 1..n : stages[k] = IF list[k] \in kept THEN Append(stages[k - 1], list[k])
                                   ELSE stages[k - 1]
  BY <1>12 DEF Keep
<1> QED
  BY <1>11, <1>13, <1>16, <1>17

\* sel shows the elements of the first k places of list that are kept, in their
\* order.
ShowsUpTo(sel, place, list, kept, k) ==
    /\ place \in [1..Len(sel) -> 1..k]
    /\ \A i, j \in 1..Len(sel) : i < j => place[i] < place[j]
    /\ \A i \in 1..Len(sel) : sel[i] = list[place[i]] /\ sel[i] \in kept
    /\ \A n \in 1..k : list[n] \in kept => \E i \in 1..Len(sel) : place[i] = n

Shows(sel, place, list, kept) == ShowsUpTo(sel, place, list, kept, Len(list))

LEMMA ShowsOneMore ==
    ASSUME NEW S, NEW list \in Seq(S), NEW kept, NEW sel \in Seq(S), NEW k \in Nat,
           k + 1 <= Len(list), NEW place, ShowsUpTo(sel, place, list, kept, k)
    PROVE  \E next : ShowsUpTo(IF list[k + 1] \in kept THEN Append(sel, list[k + 1]) ELSE sel,
                               next, list, kept, k + 1)
<1> DEFINE m == Len(sel)
           e == list[k + 1]
           more == Append(sel, e)
           next == [i \in 1..(m + 1) |-> IF i = m + 1 THEN k + 1 ELSE place[i]]
<1>1. m \in Nat /\ e \in S
  OBVIOUS
<1>2. /\ Len(more) = m + 1 /\ more[m + 1] = e
      /\ \A i \in 1..m : more[i] = sel[i]
  BY <1>1
<1>3. /\ place \in [1..m -> 1..k]
      /\ \A i, j \in 1..m : i < j => place[i] < place[j]
      /\ \A i \in 1..m : sel[i] = list[place[i]] /\ sel[i] \in kept
      /\ \A n \in 1..k : list[n] \in kept => \E i \in 1..m : place[i] = n
  BY DEF ShowsUpTo
<1>4. CASE e \notin kept
  <2>1. place \in [1..m -> 1..(k + 1)]
    BY <1>1, <1>3
  <2>2. \A n \in 1..(k + 1) : list[n] \in kept => \E i \in 1..m : place[i] = n
    BY <1>3, <1>4
  <2> QED
    BY <1>3, <1>4, <2>1, <2>2 DEF ShowsUpTo
<1>5. CASE e \in kept
  <2> HIDE DEF m, e, more
  <2>1. next \in [1..(m + 1) -> 1..(k + 1)]
    BY <1>1, <1>3
  <2>2. ASSUME NEW i \in 1..(m + 1), NEW j \in 1..(m + 1), i < j
        PROVE  next[i] < next[j]
    <3>1. i \in 1..m /\ next[i] = place[i] /\ place[i] \in 1..k
      BY <1>1, <1>3, <2>2
    <3>2. CASE j = m + 1
      BY <3>1, <3>2
    <3>3. CASE j # m + 1
      BY <1>1, <1>3, <2>2, <3>1, <3>3
    <3> QED
      BY <3>2, <3>3
  <2>3. ASSUME NEW i \in 1..(m + 1)
        PROVE  more[i] = list[next[i]] /\ more[i] \in kept
    <3>1. CASE i = m + 1
      BY <1>2, <1>5, <3>1 DEF e
    <3>2. CASE i # m + 1
      BY <1>1, <1>2, <1>3, <3>2
    <3> QED
      BY <3>1, <3>2
  <2>4. ASSUME NEW n \in 1..(k + 1), list[n] \in kept
        PROVE  \E i \in 1..(m + 1) : next[i] = n
    <3>1. CASE n = k + 1
      BY <1>1, <3>1
    <3>2. CASE n # k + 1
      <4>1. PICK i \in 1..m : place[i] = n
        BY <1>3, <2>4, <3>2
      <4> QED
        BY <1>1, <4>1
    <3> QED
      BY <3>1, <3>2
  <2> HIDE DEF next
  <2>5. ShowsUpTo(more, next, list, kept, k + 1)
    BY <1>2, <2>1, <2>2, <2>3, <2>4 DEF ShowsUpTo
  <2> QED
    BY <1>5, <2>5 DEF e, more
<1> QED
  BY <1>4, <1>5

\* What a selection is.
LEMMA OnlyShows ==
    ASSUME NEW S, NEW list \in Seq(S), NEW kept
    PROVE  Only(list, kept) \in Seq(S) /\ \E place : Shows(Only(list, kept), place, list, kept)
<1> DEFINE n == Len(list)
<1>1. n \in Nat
  OBVIOUS
<1>2. PICK stages :
         /\ stages[0] = << >>
         /\ \A k \in 1..n : stages[k] = IF list[k] \in kept THEN Append(stages[k - 1], list[k])
                                        ELSE stages[k - 1]
         /\ \A k \in 0..n : stages[k] \in Seq(S)
         /\ Only(list, kept) = stages[n]
  BY SelectedInStages
<1> DEFINE Shown == {k \in Nat : k <= n => \E place : ShowsUpTo(stages[k], place, list, kept, k)}
<1>3. 0 \in Shown
  <2>1. Len(<< >>) = 0 /\ 1..0 = {}
    OBVIOUS
  <2> DEFINE none == [i \in 1..0 |-> 0]
  <2>2. none \in [1..0 -> 1..0]
    BY <2>1
  <2> HIDE DEF none
  <2>3. ShowsUpTo(<< >>, none, list, kept, 0)
    BY <2>1, <2>2 DEF ShowsUpTo
  <2> QED
    BY <1>2, <2>3
<1>4. \A k \in Nat : k \in Shown => k + 1 \in Shown
  <2> SUFFICES ASSUME NEW k \in Nat, k \in Shown, k + 1 <= n
               PROVE  \E place : ShowsUpTo(stages[k + 1], place, list, kept, k + 1)
    BY SMTT(30)
  <2>1. k <= n /\ k \in 0..n /\ k + 1 \in 1..n /\ (k + 1) - 1 = k
    BY <1>1
  <2>2. PICK place : ShowsUpTo(stages[k], place, list, kept, k)
    BY <2>1
  <2>3. stages[k] \in Seq(S)
    BY <1>2, <2>1
  <2>4. stages[k + 1] = IF list[k + 1] \in kept THEN Append(stages[k], list[k + 1]) ELSE stages[k]
    BY <1>2, <2>1
  <2> QED
    BY <2>2, <2>3, <2>4, ShowsOneMore
<1>5. n \in Shown
  <2> HIDE DEF Shown
  <2> QED
    BY <1>1, <1>3, <1>4, InductionOnSet
<1> QED
  BY <1>1, <1>2, <1>5 DEF Shows

(***************************************************************************)
(* Lists of the same elements that are ordered by one relation are equal.  *)
(***************************************************************************)
Follows(a, p, R) == \A i, j \in 1..p : i < j => <<a[i], a[j]>> \in R
Within(a, p, b, q) == \A i \in 1..p : \E j \in 1..q : a[i] = b[j]
Asymmetric(R) == \A x, y : ~(<<x, y>> \in R /\ <<y, x>> \in R)

LEMMA NextIsTheSame ==
    ASSUME NEW a, NEW b, NEW p \in Nat, NEW q \in Nat, NEW R,
           Follows(a, p, R), Follows(b, q, R), Asymmetric(R), Within(a, p, b, q), Within(b, q, a, p),
           NEW m \in Nat, m + 1 \in 1..p,
           \A k \in 1..m : k \in 1..q /\ a[k] = b[k]
    PROVE  m + 1 \in 1..q /\ a[m + 1] = b[m + 1]
<1> DEFINE d == m + 1
<1>0. d \in 1..p /\ d - 1 = m
  OBVIOUS
<1> HIDE DEF d
<1>1. PICK j \in 1..q : a[d] = b[j]
  BY <1>0 DEF Within
<1>2. j >= d
  <2> SUFFICES ASSUME j < d PROVE FALSE
    BY <1>0
  <2>1. j \in 1..m /\ j \in 1..p
    BY <1>0
  <2>2. a[j] = b[j]
    BY <2>1
  <2>3. <<a[j], a[d]>> \in R
    BY <1>0, <2>1 DEF Follows
  <2> QED
    BY <1>1, <2>2, <2>3 DEF Asymmetric
<1>3. d \in 1..q
  BY <1>0, <1>2
<1>4. PICK i \in 1..p : b[d] = a[i]
  BY <1>3 DEF Within
<1>5. i >= d
  <2> SUFFICES ASSUME i < d PROVE FALSE
    BY <1>0
  <2>1. i \in 1..m /\ i \in 1..q
    BY <1>0, <1>3
  <2>2. a[i] = b[i]
    BY <2>1
  <2>3. <<b[i], b[d]>> \in R
    BY <1>3, <2>1 DEF Follows
  <2> QED
    BY <1>4, <2>2, <2>3 DEF Asymmetric
<1>6. ~(j > d /\ i > d)
  <2> SUFFICES ASSUME j > d, i > d PROVE FALSE
    OBVIOUS
  <2>1. <<b[d], b[j]>> \in R /\ <<a[d], a[i]>> \in R
    BY <1>0, <1>3 DEF Follows
  <2> QED
    BY <1>1, <1>4, <2>1 DEF Asymmetric
<1>7. j = d \/ i = d
  BY <1>0, <1>2, <1>5, <1>6
<1> QED
  BY <1>1, <1>3, <1>4, <1>7 DEF d

\* Two lists of the same elements in one order.
Paired(a, p, b, q, R) ==
    /\ p \in Nat /\ q \in Nat
    /\ Follows(a, p, R) /\ Follows(b, q, R) /\ Asymmetric(R)
    /\ Within(a, p, b, q) /\ Within(b, q, a, p)

LEMMA NextOfPair ==
    ASSUME NEW a, NEW b, NEW p, NEW q, NEW R, Paired(a, p, b, q, R),
           NEW m \in Nat, m + 1 \in 1..p, \A k \in 1..m : k \in 1..q /\ a[k] = b[k]
    PROVE  m + 1 \in 1..q /\ a[m + 1] = b[m + 1]
<1>1. /\ p \in Nat /\ q \in Nat
      /\ Follows(a, p, R) /\ Follows(b, q, R) /\ Asymmetric(R)
      /\ Within(a, p, b, q) /\ Within(b, q, a, p)
  BY DEF Paired
<1> QED
  BY <1>1, NextIsTheSame

LEMMA OneOrder ==
    ASSUME NEW T, NEW a \in Seq(T), NEW b \in Seq(T), NEW R,
           Follows(a, Len(a), R), Follows(b, Len(b), R), Asymmetric(R),
           Within(a, Len(a), b, Len(b)), Within(b, Len(b), a, Len(a))
    PROVE  a = b
<1> DEFINE p == Len(a)
           q == Len(b)
           Equal(k) == /\ k \in 1..p => k \in 1..q /\ a[k] = b[k]
                       /\ k \in 1..q => k \in 1..p /\ a[k] = b[k]
           Same == {m \in Nat : \A k \in 1..m : Equal(k)}
<1>1. p \in Nat /\ q \in Nat
  OBVIOUS
<1>2. 0 \in Same
  OBVIOUS
<1>0. Paired(a, p, b, q, R) /\ Paired(b, q, a, p, R)
  BY <1>1 DEF Paired
<1>3. ASSUME NEW m \in Nat, m \in Same
      PROVE  m + 1 \in Same
  <2>1. \A k \in 1..m : Equal(k)
    BY <1>3
  <2>2. m \in Nat
    OBVIOUS
  <2> HIDE DEF p, q, Same
  <2>3. ASSUME m + 1 \in 1..p
        PROVE  m + 1 \in 1..q /\ a[m + 1] = b[m + 1]
    <3>1. \A k \in 1..m : k \in 1..q /\ a[k] = b[k]
      BY <1>1, <2>1, <2>2, <2>3
    <3> HIDE DEF Equal
    <3> QED
      BY <1>0, <2>2, <2>3, <3>1, NextOfPair
  <2>4. ASSUME m + 1 \in 1..q
        PROVE  m + 1 \in 1..p /\ b[m + 1] = a[m + 1]
    <3>1. \A k \in 1..m : k \in 1..p /\ b[k] = a[k]
      BY <1>1, <2>1, <2>2, <2>4
    <3> HIDE DEF Equal
    <3> QED
      BY <1>0, <2>2, <2>4, <3>1, NextOfPair
  <2>5. Equal(m + 1)
    BY <2>3, <2>4
  <2> HIDE DEF Equal
  <2> QED
    BY <2>1, <2>2, <2>5 DEF Same
<1>4. Nat \subseteq Same
  <2> HIDE DEF Same
  <2> QED
    BY <1>2, <1>3, InductionOnSet
<1>5. \A k \in 1..(p + q) : Equal(k)
  <2>1. p + q \in Nat
    BY <1>1
  <2>2. p + q \in Same
    BY <1>4, <2>1
  <2> HIDE DEF p, q, Equal
  <2> QED
    BY <2>2
<1>7. p = q
  <2> HIDE DEF p, q
  <2>1. ~(p < q)
    <3>1. p < q => p + 1 \in 1..q /\ p + 1 \in 1..(p + q) /\ p + 1 \notin 1..p
      BY <1>1
    <3>2. p + 1 \in 1..(p + q) => Equal(p + 1)
      BY <1>5
    <3> QED
      BY <3>1, <3>2
  <2>2. ~(q < p)
    <3>1. q < p => q + 1 \in 1..p /\ q + 1 \in 1..(p + q) /\ q + 1 \notin 1..q
      BY <1>1
    <3>2. q + 1 \in 1..(p + q) => Equal(q + 1)
      BY <1>5
    <3> QED
      BY <3>1, <3>2
  <2> QED
    BY <1>1, <2>1, <2>2
<1>8. \A k \in 1..p : a[k] = b[k]
  BY <1>1, <1>5
<1> QED
  BY <1>1, <1>7, <1>8

Increasing == {pair \in Nat \X Nat : pair[1] < pair[2]}

\* A list shows what is kept of another in one way only.
LEMMA ShownOnce ==
    ASSUME NEW S, NEW list \in Seq(S), NEW kept, NEW x \in Seq(S), NEW y \in Seq(S),
           NEW toX, NEW toY, Shows(x, toX, list, kept), Shows(y, toY, list, kept)
    PROVE  x = y
<1> DEFINE p == Len(x)
           q == Len(y)
           n == Len(list)
<1>1. p \in Nat /\ q \in Nat /\ n \in Nat /\ DOMAIN x = 1..p /\ DOMAIN y = 1..q
  OBVIOUS
<1>2. /\ toX \in [1..p -> 1..n] /\ toY \in [1..q -> 1..n]
      /\ \A i, j \in 1..p : i < j => toX[i] < toX[j]
      /\ \A i, j \in 1..q : i < j => toY[i] < toY[j]
      /\ \A i \in 1..p : x[i] = list[toX[i]] /\ x[i] \in kept
      /\ \A i \in 1..q : y[i] = list[toY[i]] /\ y[i] \in kept
      /\ \A k \in 1..n : list[k] \in kept => \E i \in 1..p : toX[i] = k
      /\ \A k \in 1..n : list[k] \in kept => \E i \in 1..q : toY[i] = k
  BY DEF Shows, ShowsUpTo
<1> HIDE DEF p, q, n
<1>3. toX \in Seq(Nat) /\ toY \in Seq(Nat) /\ Len(toX) = p /\ Len(toY) = q
  <2>1. toX \in [1..p -> Nat] /\ toY \in [1..q -> Nat]
    BY <1>1, <1>2
  <2>2. \A m \in Nat : \A f \in [1..m -> Nat] : f \in Seq(Nat) /\ Len(f) = m
    OBVIOUS
  <2> QED
    BY <1>1, <2>1, <2>2
<1>4. Follows(toX, p, Increasing) /\ Follows(toY, q, Increasing)
  <2>1. \A i \in 1..p : toX[i] \in Nat
    BY <1>1, <1>2
  <2>2. \A i \in 1..q : toY[i] \in Nat
    BY <1>1, <1>2
  <2> QED
    BY <1>2, <2>1, <2>2 DEF Follows, Increasing
<1>5. Asymmetric(Increasing)
  BY DEF Asymmetric, Increasing
<1>6. Within(toX, p, toY, q)
  BY <1>2 DEF Within
<1>7. Within(toY, q, toX, p)
  BY <1>2 DEF Within
<1>8. toX = toY
  BY <1>3, <1>4, <1>5, <1>6, <1>7, OneOrder
<1>9. p = q
  BY <1>3, <1>8
<1>10. \A i \in 1..p : x[i] = y[i]
  BY <1>2, <1>8, <1>9
<1>11. x = [i \in 1..p |-> x[i]] /\ y = [i \in 1..q |-> y[i]]
  BY <1>1
<1> QED
  BY <1>9, <1>10, <1>11

\* A selection from a selection is one selection.
LEMMA OnlyAgain ==
    ASSUME NEW S, NEW list \in Seq(S), NEW A, NEW B, NEW C,
           \A n \in 1..Len(list) : list[n] \in C <=> list[n] \in A /\ list[n] \in B
    PROVE  Only(Only(list, A), B) = Only(list, C)
<1> DEFINE some == Only(list, A)
           both == Only(some, B)
           once == Only(list, C)
<1>1. some \in Seq(S) /\ \E place : Shows(some, place, list, A)
  BY OnlyShows
<1>2. once \in Seq(S) /\ \E place : Shows(once, place, list, C)
  BY OnlyShows
<1> HIDE DEF some, once
<1>3. both \in Seq(S) /\ \E place : Shows(both, place, some, B)
  BY <1>1, OnlyShows
<1> HIDE DEF both
<1>4. PICK first : Shows(some, first, list, A)
  BY <1>1
<1>5. PICK second : Shows(both, second, some, B)
  BY <1>3
<1> DEFINE n == Len(list)
           p == Len(some)
           q == Len(both)
           route == [i \in 1..q |-> first[second[i]]]
<1>6. n \in Nat /\ p \in Nat /\ q \in Nat
  BY <1>1, <1>3
<1>7. /\ first \in [1..p -> 1..n] /\ second \in [1..q -> 1..p]
      /\ \A i, j \in 1..p : i < j => first[i] < first[j]
      /\ \A i, j \in 1..q : i < j => second[i] < second[j]
      /\ \A i \in 1..p : some[i] = list[first[i]] /\ some[i] \in A
      /\ \A i \in 1..q : both[i] = some[second[i]] /\ both[i] \in B
      /\ \A k \in 1..n : list[k] \in A => \E i \in 1..p : first[i] = k
      /\ \A k \in 1..p : some[k] \in B => \E i \in 1..q : second[i] = k
  BY <1>4, <1>5 DEF Shows, ShowsUpTo
<1>8. \A k \in 1..n : list[k] \in C <=> list[k] \in A /\ list[k] \in B
  OBVIOUS
<1> HIDE DEF n, p, q
<1>9. Shows(both, route, list, C)
  <2>1. \A i \in 1..q : /\ second[i] \in 1..p /\ first[second[i]] \in 1..n
                        /\ route[i] = first[second[i]]
    BY <1>7
  <2>2. route \in [1..q -> 1..n]
    BY <2>1
  <2> HIDE DEF route
  <2>3. \A i, j \in 1..q : i < j => route[i] < route[j]
    BY <1>7, <2>1
  <2>4. \A i \in 1..q : both[i] = list[route[i]] /\ both[i] \in C
    BY <1>7, <1>8, <2>1
  <2>5. ASSUME NEW k \in 1..n, list[k] \in C
        PROVE  \E i \in 1..q : route[i] = k
    <3>1. list[k] \in A /\ list[k] \in B
      BY <1>8, <2>5
    <3>2. PICK j \in 1..p : first[j] = k
      BY <1>7, <3>1
    <3>3. some[j] \in B
      BY <1>7, <3>1, <3>2
    <3>4. PICK i \in 1..q : second[i] = j
      BY <1>7, <3>3
    <3> QED
      BY <2>1, <3>2, <3>4
  <2> QED
    BY <2>2, <2>3, <2>4, <2>5 DEF Shows, ShowsUpTo, n, q
<1>10. PICK place : Shows(once, place, list, C)
  BY <1>2
<1> HIDE DEF route
<1>11. both = once
  BY <1>2, <1>3, <1>9, <1>10, ShownOnce
<1> QED
  BY <1>11 DEF both, once, some

\* What a selection holds.
LEMMA OnlyHolds ==
    ASSUME NEW S, NEW list \in Seq(S), NEW kept
    PROVE  /\ Only(list, kept) \in Seq(S)
           /\ Range(Only(list, kept)) = Range(list) \cap kept
<1>1. Only(list, kept) \in Seq(S)
  BY OnlyShows
<1>2. PICK place : Shows(Only(list, kept), place, list, kept)
  BY OnlyShows
<1> DEFINE some == Only(list, kept)
<1>3. /\ DOMAIN list = 1..Len(list) /\ DOMAIN some = 1..Len(some)
  BY <1>1
<1>4. /\ \A i \in 1..Len(some) : place[i] \in 1..Len(list) /\ some[i] = list[place[i]] /\ some[i] \in kept
      /\ \A n \in 1..Len(list) : list[n] \in kept => \E i \in 1..Len(some) : place[i] = n
  BY <1>2 DEF Shows, ShowsUpTo
<1> HIDE DEF some
<1>5. Range(some) = Range(list) \cap kept
  BY <1>3, <1>4 DEF Range
<1> QED
  BY <1>1, <1>5 DEF some

\* The names of the overridden layers, and where they are.
Names(keys, place, list) ==
    /\ place \in [1..Len(keys) -> 1..Len(list)]
    /\ \A i, j \in 1..Len(keys) : i < j => place[i] < place[j]
    /\ \A i \in 1..Len(keys) : /\ keys[i] = list[place[i]].key
                               /\ list[place[i]].state = "overridden"
    /\ \A n \in 1..Len(list) : list[n].state = "overridden" => \E i \in 1..Len(keys) : place[i] = n

LEMMA OverriddenNames ==
    ASSUME NEW S, NEW list \in Seq(S)
    PROVE  /\ Overridden(list) \in Seq({p.key : p \in Range(list)})
           /\ \E place : Names(Overridden(list), place, list)
<1> DEFINE kept == {p \in Range(list) : p.state = "overridden"}
           some == Only(list, kept)
           m == Len(some)
<1>1. some \in Seq(S)
  BY OnlyShows
<1>2. PICK place : Shows(some, place, list, kept)
  BY OnlyShows
<1>3. Overridden(list) = [n \in DOMAIN some |-> some[n].key]
  BY DEF Overridden
<1>4. \A n \in 1..Len(list) : list[n] \in Range(list)
  BY DEF Range
<1>5. \A n \in 1..Len(list) : list[n] \in kept <=> list[n].state = "overridden"
  BY <1>4
<1>6. DOMAIN some = 1..m /\ m \in Nat
  <2> HIDE DEF some
  <2> QED
    BY <1>1
<1>7. /\ place \in [1..m -> 1..Len(list)]
      /\ \A i, j \in 1..m : i < j => place[i] < place[j]
      /\ \A i \in 1..m : some[i] = list[place[i]] /\ some[i] \in kept
      /\ \A n \in 1..Len(list) : list[n] \in kept => \E i \in 1..m : place[i] = n
  <2> HIDE DEF kept, some
  <2> QED
    BY <1>2 DEF Shows, ShowsUpTo
<1> HIDE DEF some, kept, m
<1>8. /\ Overridden(list) = [n \in 1..m |-> some[n].key]
      /\ \A n \in 1..m : some[n].key \in {p.key : p \in Range(list)}
  BY <1>3, <1>4, <1>6, <1>7
<1>9. /\ Overridden(list) \in Seq({p.key : p \in Range(list)}) /\ Len(Overridden(list)) = m
      /\ \A n \in 1..m : Overridden(list)[n] = some[n].key
  BY <1>6, <1>8
<1>10. Names(Overridden(list), place, list)
  BY <1>5, <1>7, <1>9 DEF Names
<1> QED
  BY <1>9, <1>10

\* Leaving out layers that are not overridden leaves the overridden ones.
LEMMA OverriddenOfOnly ==
    ASSUME NEW S, NEW list \in Seq(S), NEW kept,
           \A n \in 1..Len(list) : list[n].state = "overridden" => list[n] \in kept
    PROVE  Overridden(Only(list, kept)) = Overridden(list)
<1> DEFINE some == Only(list, kept)
           B == {p \in Range(some) : p.state = "overridden"}
           C == {p \in Range(list) : p.state = "overridden"}
<1>1. Range(some) = Range(list) \cap kept
  BY OnlyHolds
<1>2. \A n \in 1..Len(list) : list[n] \in Range(list)
  BY DEF Range
<1>3. \A n \in 1..Len(list) : list[n] \in C <=> list[n] \in kept /\ list[n] \in B
  <2> HIDE DEF some
  <2> QED
    BY <1>1, <1>2
<1>4. Only(some, B) = Only(list, C)
  <2> HIDE DEF B, C
  <2> QED
    BY <1>3, OnlyAgain
<1> QED
  BY <1>4 DEF Overridden

(***************************************************************************)
(* The sort.                                                               *)
(***************************************************************************)

\* new is old with p at the place at.
Inserted(new, old, p, at) ==
    /\ at \in 1..(Len(old) + 1) /\ Len(new) = Len(old) + 1
    /\ \A i \in 1..(Len(old) + 1) :
          new[i] = IF i < at THEN old[i] ELSE IF i = at THEN p ELSE old[i - 1]

\* Where a parameter is inserted.
Fits(layers, old, p, at) ==
    \/ at = 1 /\ (Len(old) = 0 \/ Less(layers, p, old[1]))
    \/ /\ at > 1 /\ ~Less(layers, p, old[at - 1])
       /\ \A i \in at..Len(old) : Less(layers, p, old[i])

LEMMA Joined ==
    ASSUME NEW S, NEW a \in Seq(S), NEW b \in Seq(S)
    PROVE  /\ a \o b \in Seq(S) /\ Len(a \o b) = Len(a) + Len(b)
           /\ \A i \in 1..Len(a) : (a \o b)[i] = a[i]
           /\ \A i \in 1..Len(b) : (a \o b)[Len(a) + i] = b[i]
OBVIOUS

LEMMA InsertsAt ==
    ASSUME NEW S, NEW old \in Seq(S), NEW p \in S, NEW at \in 1..(Len(old) + 1)
    PROVE  InsertAt(old, at, p) \in Seq(S) /\ Inserted(InsertAt(old, at, p), old, p, at)
<1> DEFINE n == Len(old)
           front == SubSeq(old, 1, at - 1)
           back == SubSeq(old, at, n)
           half == front \o <<p>>
           whole == half \o back
<1>1. n \in Nat /\ at \in 1..(n + 1) /\ \A i \in 1..n : old[i] \in S
  OBVIOUS
<1>2. front \in Seq(S) /\ Len(front) = at - 1 /\ \A i \in 1..(at - 1) : front[i] = old[i]
  OBVIOUS
<1>3. back \in Seq(S) /\ Len(back) = (n + 1) - at /\ \A i \in 1..((n + 1) - at) : back[i] = old[(at + i) - 1]
  OBVIOUS
<1> HIDE DEF front, back, n
<1>4. /\ half \in Seq(S) /\ Len(half) = at /\ half[at] = p
      /\ \A i \in 1..(at - 1) : half[i] = old[i]
  BY <1>1, <1>2
<1> HIDE DEF half
<1>5. /\ whole \in Seq(S) /\ Len(whole) = n + 1
      /\ \A i \in 1..at : whole[i] = half[i]
      /\ \A i \in 1..((n + 1) - at) : whole[at + i] = back[i]
  <2>1. /\ whole \in Seq(S) /\ Len(whole) = Len(half) + Len(back)
        /\ \A i \in 1..Len(half) : whole[i] = half[i]
        /\ \A i \in 1..Len(back) : whole[Len(half) + i] = back[i]
    <3>1. half \in Seq(S) /\ back \in Seq(S)
      BY <1>3, <1>4
    <3>2. \A a, b \in Seq(S) :
             /\ a \o b \in Seq(S) /\ Len(a \o b) = Len(a) + Len(b)
             /\ \A i \in 1..Len(a) : (a \o b)[i] = a[i]
             /\ \A i \in 1..Len(b) : (a \o b)[Len(a) + i] = b[i]
      BY Joined
    <3> QED
      BY <3>1, <3>2, Zenon
  <2> HIDE DEF whole
  <2> QED
    BY <1>1, <1>3, <1>4, <2>1
<1> HIDE DEF whole
<1>6. ASSUME NEW i \in 1..(n + 1)
      PROVE  whole[i] = IF i < at THEN old[i] ELSE IF i = at THEN p ELSE old[i - 1]
  <2>1. CASE i <= at
    <3>1. i \in 1..at
      BY <1>1, <2>1
    <3> QED
      BY <1>1, <1>4, <1>5, <2>1, <3>1
  <2>2. CASE i > at
    <3>1. i - at \in 1..((n + 1) - at) /\ at + (i - at) = i /\ i - 1 = (at + (i - at)) - 1
      BY <1>1, <2>2
    <3>2. whole[i] = old[i - 1]
      BY <1>3, <1>5, <3>1
    <3> QED
      BY <1>1, <2>2, <3>2
  <2> QED
    BY <1>1, <2>1, <2>2
<1>7. InsertAt(old, at, p) = whole
  BY DEF InsertAt, whole, half, front, back, n
<1> QED
  BY <1>1, <1>5, <1>6, <1>7 DEF Inserted, n

LEMMA SortInserts ==
    ASSUME NEW S, NEW layers, NEW old \in Seq(S), NEW p \in S
    PROVE  /\ SortInsert(layers, old, p) \in Seq(S)
           /\ \E at : /\ Inserted(SortInsert(layers, old, p), old, p, at)
                      /\ Fits(layers, old, p, at)
<1> DEFINE n == Len(old)
           behind == {i \in DOMAIN old : ~Less(layers, p, old[i])}
<1>1. n \in Nat /\ DOMAIN old = 1..n /\ (old = << >> <=> n = 0)
  OBVIOUS
<1>2. CASE old = << >> \/ Less(layers, p, old[1])
  <2>1. SortInsert(layers, old, p) = <<p>> \o old
    BY <1>2 DEF SortInsert
  <2>2. <<p>> \o old \in Seq(S) /\ Inserted(<<p>> \o old, old, p, 1)
    BY <1>1 DEF Inserted
  <2>3. Fits(layers, old, p, 1)
    BY <1>1, <1>2 DEF Fits
  <2> QED
    BY <2>1, <2>2, <2>3
<1>3. CASE ~(old = << >> \/ Less(layers, p, old[1]))
  <2>1. 1 \in behind /\ behind \in SUBSET (1..n) /\ behind # {}
    BY <1>1, <1>3
  <2>2. SortInsert(layers, old, p) = InsertAt(old, 1 + Max(behind), p)
    BY <1>3 DEF SortInsert
  <2>3. Max(behind) \in behind /\ \A i \in behind : i <= Max(behind)
    <3> HIDE DEF behind, n
    <3> QED
      BY <1>1, <2>1, MaxInRange
  <2> DEFINE at == 1 + Max(behind)
  <2>5. /\ Max(behind) \in 1..n /\ ~Less(layers, p, old[Max(behind)])
        /\ \A i \in 1..n : i > Max(behind) => Less(layers, p, old[i])
    <3>1. \A i \in 1..n : ~Less(layers, p, old[i]) => i <= Max(behind)
      <4>1. \A i \in 1..n : ~Less(layers, p, old[i]) => i \in behind
        BY <1>1
      <4> HIDE DEF behind
      <4> QED
        BY <2>3, <4>1
    <3>2. Max(behind) \in 1..n /\ ~Less(layers, p, old[Max(behind)])
      BY <1>1, <2>3
    <3> HIDE DEF behind, n
    <3> QED
      BY <1>1, <3>1, <3>2
  <2> HIDE DEF behind
  <2>6. at \in 1..(n + 1) /\ at > 1 /\ at - 1 = Max(behind)
    BY <1>1, <2>5
  <2>7. Fits(layers, old, p, at)
    BY <1>1, <2>5, <2>6 DEF Fits
  <2> HIDE DEF at
  <2>8. InsertAt(old, at, p) \in Seq(S) /\ Inserted(InsertAt(old, at, p), old, p, at)
    BY <2>6, InsertsAt
  <2> QED
    BY <2>2, <2>7, <2>8 DEF at
<1> QED
  BY <1>2, <1>3


\* Sorted inserts the parameters of a list one by one.
LEMMA SortedInStages ==
    ASSUME NEW S, NEW list \in Seq(S), NEW layers
    PROVE  \E stages :
             /\ stages[0] = << >>
             /\ \A k \in 1..Len(list) : stages[k] = SortInsert(layers, stages[k - 1], list[k])
             /\ \A k \in 0..Len(list) : stages[k] \in Seq(S)
             /\ Sorted(layers, list) = stages[Len(list)]
<1> DEFINE n == Len(list)
           Keep(some, e) == SortInsert(layers, some, e)
           table == [p \in Seq(S) \X (1..n) |-> Keep(p[1], list[p[2]])]
           total == CHOOSE iter : iter = [s \in SUBSET DOMAIN list |->
                         IF s = {} THEN << >> ELSE Keep(iter[s \ {Max(s)}], list[Max(s)])]
           stages == [k \in 0..n |-> total[1..k]]
<1>1. n \in Nat /\ DOMAIN list = 1..n /\ \A k \in 1..n : list[k] \in S
  OBVIOUS
<1>2. \A some \in Seq(S), e \in S : Keep(some, e) \in Seq(S)
  BY SortInserts
<1>3. table \in [Seq(S) \X (1..n) -> Seq(S)]
  <2> HIDE DEF Keep, n
  <2> QED
    BY <1>1, <1>2
<1>4. << >> \in Seq(S)
  OBVIOUS
<1>5. PICK fold : Folding(fold, n, << >>, table) /\ \A s \in SUBSET (1..n) : fold[s] \in Seq(S)
  <2> HIDE DEF table, n
  <2> QED
    BY <1>1, <1>3, <1>4, TypedFolding
<1>6. \A s \in SUBSET (1..n) : s # {} => Max(s) \in 1..n /\ fold[s \ {Max(s)}] \in Seq(S)
  <2> HIDE DEF n
  <2> QED
    BY <1>1, <1>5, MaxInRange
<1>7. \A s \in SUBSET (1..n) :
         s # {} => table[<<fold[s \ {Max(s)}], Max(s)>>] = Keep(fold[s \ {Max(s)}], list[Max(s)])
  <2> HIDE DEF Keep, n
  <2> QED
    BY <1>6
<1>8. fold = [s \in SUBSET DOMAIN list |->
                 IF s = {} THEN << >> ELSE Keep(fold[s \ {Max(s)}], list[Max(s)])]
  <2> HIDE DEF table, n, Keep
  <2> QED
    BY <1>1, <1>5, <1>7 DEF Folding
<1>9. total = [s \in SUBSET DOMAIN list |->
                   IF s = {} THEN << >> ELSE Keep(total[s \ {Max(s)}], list[Max(s)])]
  <2> HIDE DEF Keep
  <2> QED
    BY <1>8
<1>10. Sorted(layers, list) = total[DOMAIN list]
  BY DEF Sorted, FoldLeft, MapThenFoldSet
<1> HIDE DEF total, table, Keep
<1>11. stages[0] = << >>
  <2>1. 1..0 = {} /\ 0 \in 0..n /\ {} \in SUBSET (1..n)
    BY <1>1
  <2> QED
    BY <1>1, <1>9, <2>1
<1>12. ASSUME NEW k \in 1..n
       PROVE  stages[k] = Keep(stages[k - 1], list[k])
  <2>1. /\ Max(1..k) = k /\ (1..k) \ {k} = 1..(k - 1)
        /\ 1..k # {} /\ 1..k \in SUBSET (1..n)
    <3> HIDE DEF n
    <3> QED
      BY <1>1, Intervals
  <2>2. total[1..k] = Keep(total[1..(k - 1)], list[k])
    <3> HIDE DEF n
    <3> QED
      BY <1>1, <1>9, <2>1
  <2>3. k \in 0..n /\ k - 1 \in 0..n
    BY <1>1
  <2> QED
    BY <2>2, <2>3
<1> DEFINE Typed == {k \in Nat : k <= n => stages[k] \in Seq(S)}
<1>13. stages[n] = Sorted(layers, list)
  BY <1>1, <1>10
<1> HIDE DEF stages
<1>14. 0 \in Typed
  BY <1>4, <1>11
<1>15. \A k \in Nat : k \in Typed => k + 1 \in Typed
  <2> SUFFICES ASSUME NEW k \in Nat, k \in Typed, k + 1 <= n
               PROVE  stages[k + 1] \in Seq(S)
    OBVIOUS
  <2>1. k + 1 \in 1..n /\ (k + 1) - 1 = k /\ stages[k] \in Seq(S)
    BY <1>1
  <2> QED
    BY <1>1, <1>2, <1>12, <2>1
<1>16. \A k \in 0..n : stages[k] \in Seq(S)
  <2>1. Nat \subseteq Typed
    <3> HIDE DEF Typed
    <3> QED
      BY <1>14, <1>15, InductionOnSet
  <2> QED
    BY <1>1, <2>1
<1>17. \A k \in 1..n : stages[k] = SortInsert(layers, stages[k - 1], list[k])
  BY <1>12 DEF Keep
<1> QED
  BY <1>11, <1>13, <1>16, <1>17

\* What each insertion keeps, the sort keeps: pairs are of how many parameters
\* are sorted and of the list of them.
LEMMA SortKeeps ==
    ASSUME NEW S, NEW list \in Seq(S), NEW layers, NEW Good, <<0, << >>>> \in Good,
           \A k \in 0..(Len(list) - 1) : \A old \in Seq(S), new \in Seq(S) : \A at :
              /\ <<k, old>> \in Good
              /\ Inserted(new, old, list[k + 1], at) /\ Fits(layers, old, list[k + 1], at)
              => <<k + 1, new>> \in Good
    PROVE  Sorted(layers, list) \in Seq(S) /\ <<Len(list), Sorted(layers, list)>> \in Good
<1> DEFINE n == Len(list)
<1>1. n \in Nat /\ \A k \in 1..n : list[k] \in S
  OBVIOUS
<1>2. PICK stages :
         /\ stages[0] = << >>
         /\ \A k \in 1..n : stages[k] = SortInsert(layers, stages[k - 1], list[k])
         /\ \A k \in 0..n : stages[k] \in Seq(S)
         /\ Sorted(layers, list) = stages[n]
  BY SortedInStages
<1> DEFINE Kept == {k \in Nat : k <= n => <<k, stages[k]>> \in Good}
<1>3. 0 \in Kept
  BY <1>2
<1>4. \A k \in Nat : k \in Kept => k + 1 \in Kept
  <2> SUFFICES ASSUME NEW k \in Nat, k \in Kept, k + 1 <= n
               PROVE  <<k + 1, stages[k + 1]>> \in Good
    OBVIOUS
  <2>1. k \in 0..n /\ k \in 0..(n - 1) /\ k + 1 \in 1..n /\ k + 1 \in 0..n /\ (k + 1) - 1 = k
    BY <1>1
  <2>2. <<k, stages[k]>> \in Good
    BY <1>1
  <2>3. stages[k] \in Seq(S) /\ stages[k + 1] \in Seq(S) /\ list[k + 1] \in S
    BY <1>1, <1>2, <2>1
  <2>4. stages[k + 1] = SortInsert(layers, stages[k], list[k + 1])
    BY <1>2, <2>1
  <2>5. PICK at : /\ Inserted(stages[k + 1], stages[k], list[k + 1], at)
                  /\ Fits(layers, stages[k], list[k + 1], at)
    BY <2>3, <2>4, SortInserts
  <2> QED
    BY <2>1, <2>2, <2>3, <2>5
<1>5. n \in Kept
  <2> HIDE DEF Kept
  <2> QED
    BY <1>1, <1>3, <1>4, InductionOnSet
<1>6. n \in 0..n
  BY <1>1
<1> QED
  BY <1>1, <1>2, <1>5, <1>6

\* One parameter, or one layer, for each key.
OneEach(list) ==
    \A m, n \in 1..Len(list) : list[m].key = list[n].key => m = n

\* A sort is a permutation.
LEMMA SortPermutes ==
    ASSUME NEW S, NEW list \in Seq(S), NEW layers
    PROVE  /\ Sorted(layers, list) \in Seq(S) /\ Len(Sorted(layers, list)) = Len(list)
           /\ Within(Sorted(layers, list), Len(list), list, Len(list))
           /\ Within(list, Len(list), Sorted(layers, list), Len(list))
           /\ OneEach(list) => OneEach(Sorted(layers, list))
<1> DEFINE Good == {pair \in Nat \X Seq(S) :
                      /\ Len(pair[2]) = pair[1]
                      /\ Within(pair[2], pair[1], list, pair[1])
                      /\ Within(list, pair[1], pair[2], pair[1])
                      /\ OneEach(list) => OneEach(pair[2])}
           n == Len(list)
<1>1. n \in Nat
  OBVIOUS
<1>2. <<0, << >>>> \in Good
  <2>1. << >> \in Seq(S) /\ Len(<< >>) = 0 /\ 1..0 = {}
    OBVIOUS
  <2>2. OneEach(<< >>)
    BY <2>1 DEF OneEach
  <2>3. Within(<< >>, 0, list, 0) /\ Within(list, 0, << >>, 0)
    BY <2>1 DEF Within
  <2>4. \A m \in Nat, s \in Seq(S) : /\ <<m, s>> \in Nat \X Seq(S)
                                     /\ <<m, s>>[1] = m /\ <<m, s>>[2] = s
    OBVIOUS
  <2> QED
    BY <2>1, <2>2, <2>3, <2>4
<1>3. ASSUME NEW k \in 0..(n - 1), NEW old \in Seq(S), NEW new \in Seq(S), NEW at,
             <<k, old>> \in Good, Inserted(new, old, list[k + 1], at)
      PROVE  <<k + 1, new>> \in Good
  <2> DEFINE p == list[k + 1]
  <2>1. /\ k \in Nat /\ k + 1 \in Nat /\ k + 1 \in 1..n /\ Len(old) = k
        /\ Within(old, k, list, k) /\ Within(list, k, old, k)
        /\ OneEach(list) => OneEach(old)
    BY <1>1, <1>3
  <2>2. /\ at \in 1..(k + 1) /\ Len(new) = k + 1
        /\ \A i \in 1..(k + 1) : new[i] = IF i < at THEN old[i] ELSE IF i = at THEN p ELSE old[i - 1]
    BY <1>3, <2>1 DEF Inserted
  <2> HIDE DEF n, p
  <2>3. ASSUME NEW i \in 1..(k + 1)
        PROVE  /\ i = at /\ new[i] = p
               \/ \E j \in 1..k : /\ new[i] = old[j]
                                  /\ i = IF j < at THEN j ELSE j + 1
    <3>1. CASE i < at
      BY <2>1, <2>2, <3>1
    <3>2. CASE i > at
      <4>1. i - 1 \in 1..k /\ new[i] = old[i - 1] /\ ~(i - 1 < at) /\ i = (i - 1) + 1
        BY <2>1, <2>2, <3>2
      <4> QED
        BY <4>1
    <3> QED
      BY <2>1, <2>2, <3>1, <3>2
  <2>4. Within(new, k + 1, list, k + 1)
    <3> SUFFICES ASSUME NEW i \in 1..(k + 1) PROVE \E j \in 1..(k + 1) : new[i] = list[j]
      BY DEF Within
    <3>1. CASE new[i] = p
      BY <2>1, <3>1 DEF p
    <3>2. CASE \E j \in 1..k : new[i] = old[j]
      <4>1. PICK j \in 1..k : old[j] = list[j] \/ new[i] = old[j]
        BY <3>2
      <4>2. PICK m \in 1..k : new[i] = old[m]
        BY <3>2
      <4>3. PICK l \in 1..k : old[m] = list[l]
        BY <2>1 DEF Within
      <4>4. l \in 1..(k + 1)
        BY <2>1
      <4> QED
        BY <4>2, <4>3, <4>4
    <3> QED
      BY <2>3, <3>1, <3>2
  <2>5. Within(list, k + 1, new, k + 1)
    <3> SUFFICES ASSUME NEW i \in 1..(k + 1) PROVE \E j \in 1..(k + 1) : list[i] = new[j]
      BY DEF Within
    <3>1. CASE i = k + 1
      <4>1. new[at] = p
        BY <2>1, <2>2
      <4> QED
        BY <2>2, <3>1, <4>1 DEF p
    <3>2. CASE i # k + 1
      <4>1. PICK m \in 1..k : list[i] = old[m]
        BY <2>1, <3>2 DEF Within
      <4>2. CASE m < at
        <5>1. m \in 1..(k + 1) /\ new[m] = old[m]
          BY <2>1, <2>2, <4>2
        <5> QED
          BY <4>1, <5>1
      <4>3. CASE ~(m < at)
        <5>1. m + 1 \in 1..(k + 1) /\ new[m + 1] = old[m]
          BY <2>1, <2>2, <4>3
        <5> QED
          BY <4>1, <5>1
      <4> QED
        BY <4>2, <4>3
    <3> QED
      BY <3>1, <3>2
  <2>6. ASSUME OneEach(list) PROVE OneEach(new)
    <3>1. \A j \in 1..k : old[j].key # p.key
      <4> SUFFICES ASSUME NEW j \in 1..k, old[j].key = p.key PROVE FALSE
        OBVIOUS
      <4>1. PICK l \in 1..k : old[j] = list[l]
        BY <2>1 DEF Within
      <4>2. l \in 1..n /\ l # k + 1
        BY <1>1, <2>1
      <4> QED
        BY <2>1, <2>6, <4>1, <4>2 DEF OneEach, p, n
    <3>2. \A i, j \in 1..k : old[i].key = old[j].key => i = j
      BY <2>1, <2>6 DEF OneEach
    <3>3. ASSUME NEW i \in 1..(k + 1), NEW j \in 1..(k + 1), new[i].key = new[j].key
          PROVE  i = j
      <4>1. CASE i = at /\ j = at
        BY <4>1
      <4>2. CASE i # at /\ j # at
        BY <2>3, <3>2, <3>3, <4>2, SMTT(30)
      <4>3. CASE i = at /\ j # at
        <5>1. PICK m \in 1..k : new[j] = old[m]
          BY <2>3, <4>3
        <5>2. new[i] = p
          BY <2>3, <4>3, <2>2
        <5> QED
          BY <3>1, <3>3, <5>1, <5>2
      <4>4. CASE i # at /\ j = at
        <5>1. PICK m \in 1..k : new[i] = old[m]
          BY <2>3, <4>4
        <5>2. new[j] = p
          BY <2>3, <4>4, <2>2
        <5> QED
          BY <3>1, <3>3, <5>1, <5>2
      <4> QED
        BY <4>1, <4>2, <4>3, <4>4
    <3> QED
      BY <2>2, <3>3 DEF OneEach
  <2> QED
    BY <2>1, <2>2, <2>4, <2>5, <2>6
<1> HIDE DEF Good
<1>4. Sorted(layers, list) \in Seq(S) /\ <<n, Sorted(layers, list)>> \in Good
  BY <1>2, <1>3, SortKeeps
<1> QED
  BY <1>4 DEF Good

\* Inserting where a relation allows it keeps the list in its order.
LEMMA FollowsInserted ==
    ASSUME NEW S, NEW old \in Seq(S), NEW new, NEW p, NEW at, NEW R, Inserted(new, old, p, at),
           Follows(old, Len(old), R),
           \A i \in 1..Len(old) : /\ i < at => <<old[i], p>> \in R
                                  /\ i >= at => <<p, old[i]>> \in R
    PROVE  Follows(new, Len(old) + 1, R)
<1> DEFINE n == Len(old)
<1>1. n \in Nat
  OBVIOUS
<1>2. /\ at \in 1..(n + 1)
      /\ \A i \in 1..(n + 1) : new[i] = IF i < at THEN old[i] ELSE IF i = at THEN p ELSE old[i - 1]
  BY DEF Inserted
<1>3. /\ \A i, j \in 1..n : i < j => <<old[i], old[j]>> \in R
      /\ \A i \in 1..n : i < at => <<old[i], p>> \in R
      /\ \A i \in 1..n : i >= at => <<p, old[i]>> \in R
  BY DEF Follows
<1> HIDE DEF n
<1> SUFFICES ASSUME NEW i \in 1..(n + 1), NEW j \in 1..(n + 1), i < j
             PROVE  <<new[i], new[j]>> \in R
  BY DEF Follows, n
<1>4. CASE j < at
  <2>1. i \in 1..n /\ j \in 1..n /\ new[i] = old[i] /\ new[j] = old[j]
    BY <1>1, <1>2, <1>4
  <2> QED
    BY <1>3, <2>1
<1>5. CASE j = at
  <2>1. i \in 1..n /\ i < at /\ new[i] = old[i] /\ new[j] = p
    BY <1>1, <1>2, <1>5
  <2> QED
    BY <1>3, <2>1
<1>6. CASE i = at
  <2>1. j - 1 \in 1..n /\ j - 1 >= at /\ new[i] = p /\ new[j] = old[j - 1]
    BY <1>1, <1>2, <1>6
  <2> QED
    BY <1>3, <2>1
<1>7. CASE i < at /\ at < j
  <2>1. i \in 1..n /\ j - 1 \in 1..n /\ i < j - 1 /\ new[i] = old[i] /\ new[j] = old[j - 1]
    BY <1>1, <1>2, <1>7
  <2> QED
    BY <1>3, <2>1
<1>8. CASE at < i
  <2>1. i - 1 \in 1..n /\ j - 1 \in 1..n /\ i - 1 < j - 1 /\ new[i] = old[i - 1] /\ new[j] = old[j - 1]
    BY <1>1, <1>2, <1>8
  <2> QED
    BY <1>3, <2>1
<1> QED
  BY <1>1, <1>2, <1>4, <1>5, <1>6, <1>7, <1>8

\* A sort is in an order that each insertion keeps.
LEMMA SortFollows ==
    ASSUME NEW S, NEW list \in Seq(S), NEW layers, NEW R,
           \A k \in 0..(Len(list) - 1) : \A old \in Seq(S) : \A at \in 1..(k + 1) :
              /\ Len(old) = k /\ Within(old, k, list, k) /\ Follows(old, k, R)
              /\ Fits(layers, old, list[k + 1], at)
              => \A i \in 1..k : /\ i < at => <<old[i], list[k + 1]>> \in R
                                 /\ i >= at => <<list[k + 1], old[i]>> \in R
    PROVE  Follows(Sorted(layers, list), Len(list), R)
<1> DEFINE Good == {pair \in Nat \X Seq(S) :
                      /\ Len(pair[2]) = pair[1]
                      /\ Within(pair[2], pair[1], list, pair[1])
                      /\ Follows(pair[2], pair[1], R)}
           n == Len(list)
<1>1. n \in Nat /\ \A m \in Nat, s \in Seq(S) : /\ <<m, s>> \in Nat \X Seq(S)
                                                /\ <<m, s>>[1] = m /\ <<m, s>>[2] = s
  OBVIOUS
<1>2. <<0, << >>>> \in Good
  <2>1. << >> \in Seq(S) /\ Len(<< >>) = 0 /\ 1..0 = {}
    OBVIOUS
  <2>2. Within(<< >>, 0, list, 0) /\ Follows(<< >>, 0, R)
    BY <2>1 DEF Within, Follows
  <2> QED
    BY <1>1, <2>1, <2>2
<1>3. ASSUME NEW k \in 0..(n - 1), NEW old \in Seq(S), NEW new \in Seq(S), NEW at,
             <<k, old>> \in Good, Inserted(new, old, list[k + 1], at),
             Fits(layers, old, list[k + 1], at)
      PROVE  <<k + 1, new>> \in Good
  <2>1. /\ k \in Nat /\ k + 1 \in Nat /\ Len(old) = k /\ k <= n - 1
        /\ Within(old, k, list, k) /\ Follows(old, k, R)
    BY <1>1, <1>3
  <2>2. /\ at \in 1..(k + 1) /\ Len(new) = k + 1
        /\ \A i \in 1..(k + 1) : new[i] = IF i < at THEN old[i]
                                          ELSE IF i = at THEN list[k + 1] ELSE old[i - 1]
    BY <1>3, <2>1 DEF Inserted
  <2>3. \A i \in 1..k : /\ i < at => <<old[i], list[k + 1]>> \in R
                        /\ i >= at => <<list[k + 1], old[i]>> \in R
    BY <1>3, <2>1, <2>2
  <2>4. Follows(new, k + 1, R)
    BY <1>3, <2>1, <2>3, FollowsInserted
  <2>5. Within(new, k + 1, list, k + 1)
    <3> SUFFICES ASSUME NEW i \in 1..(k + 1) PROVE \E j \in 1..(k + 1) : new[i] = list[j]
      BY DEF Within
    <3>1. CASE i = at
      <4>1. new[i] = list[k + 1] /\ k + 1 \in 1..(k + 1)
        BY <2>1, <2>2, <3>1
      <4> QED
        BY <4>1
    <3>2. CASE i # at
      <4>1. PICK m \in 1..k : new[i] = old[m]
        <5>1. CASE i < at
          <6>1. i \in 1..k /\ new[i] = old[i]
            BY <2>1, <2>2, <5>1
          <6> QED
            BY <6>1
        <5>2. CASE i > at
          <6>1. i - 1 \in 1..k /\ new[i] = old[i - 1]
            BY <2>1, <2>2, <5>2
          <6> QED
            BY <6>1
        <5> QED
          BY <2>2, <3>2, <5>1, <5>2
      <4>2. PICK l \in 1..k : old[m] = list[l]
        BY <2>1 DEF Within
      <4>3. l \in 1..(k + 1)
        BY <2>1
      <4> QED
        BY <4>1, <4>2, <4>3
    <3> QED
      BY <3>1, <3>2
  <2> QED
    BY <1>1, <2>1, <2>2, <2>4, <2>5
<1> HIDE DEF Good
<1>4. <<n, Sorted(layers, list)>> \in Good
  BY <1>2, <1>3, SortKeeps
<1> QED
  BY <1>4 DEF Good

Params == [key : Keys, state : States, rank : {NO_RANK} \cup Nat, here : BOOLEAN]

\* What the numbers of GetParameterOrdering say.
LEMMA Ordering ==
    ASSUME NEW layers, NEW p, p.state \in States
    PROVE  /\ GetParameterOrdering(layers, p) \in 0..5
           /\ GetParameterOrdering(layers, p) \in {3, 4} => p.state = "overridden"
           /\ p.state = "overridden" => GetParameterOrdering(layers, p) # 5
           /\ p.state = "overridden" /\ p.key \in KeysOf(layers)
              => GetParameterOrdering(layers, p)
                   = IF FindByKey(layers, p.key).type = "implicit" THEN 3 ELSE 4
<1> DEFINE implicit == FindByKey(layers, p.key).type = "implicit"
<1>1. CASE p.key \notin KeysOf(layers)
  BY <1>1 DEF GetParameterOrdering
<1>2. CASE p.key \in KeysOf(layers) /\ p.state = "excluded"
  BY <1>2 DEF GetParameterOrdering
<1>3. CASE p.key \in KeysOf(layers) /\ p.state = "app"
  <2>1. CASE implicit
    BY <1>3, <2>1 DEF GetParameterOrdering
  <2>2. CASE ~implicit
    BY <1>3, <2>2 DEF GetParameterOrdering
  <2> QED
    BY <2>1, <2>2
<1>4. CASE p.key \in KeysOf(layers) /\ p.state = "overridden"
  <2>1. CASE implicit
    BY <1>4, <2>1 DEF GetParameterOrdering
  <2>2. CASE ~implicit
    BY <1>4, <2>2 DEF GetParameterOrdering
  <2> QED
    BY <2>1, <2>2
<1> QED
  BY <1>1, <1>2, <1>3, <1>4 DEF States

\* Less compares the numbers first, and the places of overridden layers next.
LEMMA LessCompares ==
    ASSUME NEW layers, NEW a, NEW b, a.state \in States, b.state \in States
    PROVE  /\ Less(layers, a, b) => GetParameterOrdering(layers, a) <= GetParameterOrdering(layers, b)
           /\ ~Less(layers, a, b) => GetParameterOrdering(layers, b) <= GetParameterOrdering(layers, a)
           /\ GetParameterOrdering(layers, a) = GetParameterOrdering(layers, b) /\ a.state = "overridden"
              => IF a.rank # NO_RANK /\ b.rank # NO_RANK
                 THEN Less(layers, a, b) <=> a.rank < b.rank
                 ELSE Less(layers, a, b) <=> ByNature(a, b)
<1> DEFINE x == GetParameterOrdering(layers, a)
           y == GetParameterOrdering(layers, b)
<1>1. x \in 0..5 /\ y \in 0..5
  BY Ordering
<1>2. Less(layers, a, b) <=> CASE x # y -> x < y
                              [] x = y /\ a.state # "overridden" -> Before(a.key, b.key)
                              [] x = y /\ a.state = "overridden" ->
                                   IF a.rank # NO_RANK /\ b.rank # NO_RANK
                                   THEN a.rank < b.rank ELSE ByNature(a, b)
  BY DEF Less
<1> HIDE DEF x, y
<1>3. CASE x # y
  <2>1. Less(layers, a, b) <=> x < y
    BY <1>2, <1>3
  <2> QED
    BY <1>1, <1>3, <2>1 DEF x, y
<1>4. CASE x = y /\ a.state # "overridden"
  BY <1>1, <1>4 DEF x, y
<1>5. CASE x = y /\ a.state = "overridden"
  <2>1. Less(layers, a, b) <=> IF a.rank # NO_RANK /\ b.rank # NO_RANK
                               THEN a.rank < b.rank ELSE ByNature(a, b)
    BY <1>2, <1>5
  <2> QED
    BY <1>1, <1>5, <2>1 DEF x, y
<1> QED
  BY <1>3, <1>4, <1>5

\* By the numbers of GetParameterOrdering; and by their places where they are
\* overridden and have the same number.
ByClass(layers) ==
    {pair \in Params \X Params :
       GetParameterOrdering(layers, pair[1]) <= GetParameterOrdering(layers, pair[2])}

ByRank(layers) ==
    {pair \in ByClass(layers) :
       /\ pair[1].state = "overridden" /\ pair[2].state = "overridden"
       /\ GetParameterOrdering(layers, pair[1]) = GetParameterOrdering(layers, pair[2])
       => pair[1].rank < pair[2].rank}

\* device_simulation is behind the overridden layers.
DevsimBehind(layers) ==
    {pair \in ByClass(layers) :
       pair[1].state = "overridden" /\ pair[1].key = Devsim => pair[2].state # "overridden"}

\* Where a parameter fits in a list that is in the order of the numbers.
LEMMA FitsByClass ==
    ASSUME NEW layers, NEW old \in Seq(Params), NEW p \in Params, NEW at \in 1..(Len(old) + 1),
           Follows(old, Len(old), ByClass(layers)), Fits(layers, old, p, at)
    PROVE  \A i \in 1..Len(old) : /\ i < at => <<old[i], p>> \in ByClass(layers)
                                  /\ i >= at => <<p, old[i]>> \in ByClass(layers)
<1> DEFINE n == Len(old)
           class(q) == GetParameterOrdering(layers, q)
<1>1. n \in Nat /\ at \in Nat /\ at <= n + 1 /\ \A i \in 1..n : old[i] \in Params
  OBVIOUS
<1>2. \A q \in Params : q.state \in States /\ class(q) \in 0..5
  <2>1. \A q \in Params : q.state \in States
    BY DEF Params
  <2> QED
    BY <2>1, Ordering
<1>3. \A i, j \in 1..n : i < j => class(old[i]) <= class(old[j])
  BY <1>1 DEF Follows, ByClass
<1>4. \A i \in 1..n : /\ Less(layers, p, old[i]) => class(p) <= class(old[i])
                      /\ ~Less(layers, p, old[i]) => class(old[i]) <= class(p)
  BY <1>1, <1>2, LessCompares
<1>5. \/ at = 1 /\ (n = 0 \/ Less(layers, p, old[1]))
      \/ at > 1 /\ ~Less(layers, p, old[at - 1]) /\ \A i \in at..n : Less(layers, p, old[i])
  BY DEF Fits
<1> HIDE DEF n, class
<1>6. ASSUME NEW i \in 1..n
      PROVE  /\ i < at => class(old[i]) <= class(p)
             /\ i >= at => class(p) <= class(old[i])
  <2>1. CASE at = 1
    <3>1. 1 \in 1..n /\ Less(layers, p, old[1])
      BY <1>1, <1>5, <2>1
    <3>2. class(p) <= class(old[1])
      BY <1>4, <3>1
    <3>3. class(old[1]) <= class(old[i])
      <4>1. CASE i = 1
        BY <1>1, <1>2, <4>1
      <4>2. CASE i # 1
        BY <1>1, <1>3, <3>1, <4>2
      <4> QED
        BY <4>1, <4>2
    <3>4. class(p) \in 0..5 /\ class(old[1]) \in 0..5 /\ class(old[i]) \in 0..5
      BY <1>1, <1>2, <3>1
    <3> QED
      BY <2>1, <3>2, <3>3, <3>4
  <2>2. CASE at > 1
    <3>1. at - 1 \in 1..n /\ class(old[at - 1]) <= class(p)
      BY <1>1, <1>4, <1>5, <2>2
    <3>2. i >= at => class(p) <= class(old[i])
      BY <1>1, <1>4, <1>5, <2>2
    <3>3. i < at => class(old[i]) <= class(old[at - 1])
      <4>1. CASE i = at - 1
        BY <1>1, <1>2, <4>1
      <4>2. CASE i < at - 1
        BY <1>1, <1>3, <3>1, <4>2
      <4> QED
        BY <1>1, <4>1, <4>2
    <3>4. class(p) \in 0..5 /\ class(old[at - 1]) \in 0..5 /\ class(old[i]) \in 0..5
      BY <1>1, <1>2, <3>1
    <3> QED
      BY <3>1, <3>2, <3>3, <3>4
  <2> QED
    BY <1>1, <2>1, <2>2
<1> QED
  BY <1>1, <1>6 DEF ByClass, class, n

LEMMA SortsByClass ==
    ASSUME NEW layers, NEW list \in Seq(Params)
    PROVE  Follows(Sorted(layers, list), Len(list), ByClass(layers))
<1>1. ASSUME NEW k \in 0..(Len(list) - 1), NEW old \in Seq(Params), NEW at \in 1..(k + 1),
             Len(old) = k, Follows(old, k, ByClass(layers)), Fits(layers, old, list[k + 1], at)
      PROVE  \A i \in 1..k : /\ i < at => <<old[i], list[k + 1]>> \in ByClass(layers)
                             /\ i >= at => <<list[k + 1], old[i]>> \in ByClass(layers)
  <2>1. list[k + 1] \in Params
    OBVIOUS
  <2> QED
    BY <1>1, <2>1, FitsByClass
<1> QED
  BY <1>1, SortFollows

\* Overridden layers that are found.
LEMMA FoundOrdering ==
    ASSUME NEW layers, NEW p \in Params
    PROVE  /\ p.state \in States /\ GetParameterOrdering(layers, p) \in 0..5
           /\ GetParameterOrdering(layers, p) \in {3, 4} => p.state = "overridden"
           /\ p.state = "overridden" /\ p.key \in KeysOf(layers)
              => GetParameterOrdering(layers, p) \in {3, 4}
<1>1. p.state \in States
  BY DEF Params
<1> QED
  BY <1>1, Ordering

\* Where a layer that is found and has a place fits among those that are.
LEMMA FitsByRank ==
    ASSUME NEW layers, NEW old \in Seq(Params), NEW p \in Params, NEW at \in 1..(Len(old) + 1),
           Follows(old, Len(old), ByRank(layers)), Fits(layers, old, p, at),
           \A q \in Range(old) \cup {p} :
              q.state = "overridden" => q.key \in KeysOf(layers) /\ q.rank \in Nat,
           \A q \in Range(old) :
              q.state = "overridden" /\ p.state = "overridden" => q.rank # p.rank
    PROVE  \A i \in 1..Len(old) : /\ i < at => <<old[i], p>> \in ByRank(layers)
                                  /\ i >= at => <<p, old[i]>> \in ByRank(layers)
<1> DEFINE n == Len(old)
           class(q) == GetParameterOrdering(layers, q)
           Ranked3(q) == q.state = "overridden" /\ q.rank \in Nat /\ class(q) \in {3, 4}
<1>1. n \in Nat /\ at \in Nat /\ 1 <= at /\ at <= n + 1 /\ \A i \in 1..n : old[i] \in Params /\ old[i] \in Range(old)
  BY DEF Range
<1>2. Follows(old, n, ByClass(layers))
  BY DEF Follows, ByRank
<1>3. \A i \in 1..n : /\ i < at => <<old[i], p>> \in ByClass(layers)
                      /\ i >= at => <<p, old[i]>> \in ByClass(layers)
  BY <1>2, FitsByClass
<1>4. SUFFICES ASSUME p.state = "overridden", NEW m \in 1..n, old[m].state = "overridden",
                      class(old[m]) = class(p)
               PROVE  (m < at => old[m].rank < p.rank) /\ (m >= at => p.rank < old[m].rank)
  <2>1. \A i \in 1..n : \/ <<old[i], p>> \in ByRank(layers) /\ i < at
                        \/ <<p, old[i]>> \in ByRank(layers) /\ i >= at
                        \/ /\ p.state = "overridden" /\ old[i].state = "overridden"
                           /\ class(old[i]) = class(p)
    BY <1>1, <1>3 DEF ByRank
  <2>2. \A i \in 1..n : (i < at /\ <<old[i], p>> \in ByClass(layers) /\ old[i].rank < p.rank
                          => <<old[i], p>> \in ByRank(layers))
                     /\ (i >= at /\ <<p, old[i]>> \in ByClass(layers) /\ p.rank < old[i].rank
                          => <<p, old[i]>> \in ByRank(layers))
    BY DEF ByRank
  <2> HIDE DEF n, class
  <2>3. \A i \in 1..n : i < at \/ i >= at
    BY <1>1
  <2>4. \A i \in 1..n : ~(i < at /\ i >= at)
    BY <1>1
  <2> QED
    BY <1>3, <2>1, <2>2, <2>3, <2>4 DEF n, class
<1>5. Ranked3(p) /\ Ranked3(old[m]) /\ old[m].rank # p.rank
  BY <1>1, <1>4, FoundOrdering
<1>6. \A i, j \in 1..n : i < j => /\ class(old[i]) <= class(old[j])
                                  /\ Ranked3(old[i]) /\ Ranked3(old[j]) /\ class(old[i]) = class(old[j])
                                     => old[i].rank < old[j].rank
  BY <1>1 DEF Follows, ByRank, ByClass
<1>7. \A i \in 1..n : class(old[i]) = class(p) => Ranked3(old[i])
  BY <1>1, <1>5, FoundOrdering
<1>8. \A i \in 1..n : class(old[i]) = class(p) => (Less(layers, p, old[i]) <=> p.rank < old[i].rank)
  <2> SUFFICES ASSUME NEW i \in 1..n, class(old[i]) = class(p)
               PROVE  Less(layers, p, old[i]) <=> p.rank < old[i].rank
    OBVIOUS
  <2>1. p.rank \in Nat /\ old[i].rank \in Nat
    BY <1>5, <1>7
  <2>2. p.rank # NO_RANK /\ old[i].rank # NO_RANK
    BY <2>1 DEF NO_RANK
  <2>3. p.state \in States /\ old[i].state \in States
    BY <1>1, FoundOrdering
  <2> QED
    BY <1>4, <2>2, <2>3, LessCompares
<1>9. \/ at = 1 /\ (n = 0 \/ Less(layers, p, old[1]))
      \/ at > 1 /\ ~Less(layers, p, old[at - 1]) /\ \A i \in at..n : Less(layers, p, old[i])
  BY DEF Fits
<1>10. \A i \in 1..n : /\ i < at => class(old[i]) <= class(p)
                       /\ i >= at => class(p) <= class(old[i])
  BY <1>3 DEF ByClass
<1>11. \A i \in 1..n : class(old[i]) \in 0..5
  BY <1>1, FoundOrdering
<1> HIDE DEF n, class, Ranked3
<1>12. CASE m >= at
  <2>1. CASE at > 1
    <3>1. Less(layers, p, old[m])
      BY <1>1, <1>9, <1>12, <2>1
    <3> QED
      BY <1>4, <1>8, <1>12, <3>1, <1>1
  <2>2. CASE at = 1
    <3>1. 1 \in 1..n /\ Less(layers, p, old[1]) /\ class(p) <= class(old[1])
      BY <1>1, <1>9, <1>10, <2>2
    <3>2. CASE m = 1
      BY <1>4, <1>8, <1>12, <3>1, <3>2
    <3>3. CASE m # 1
      <4>1. class(old[1]) <= class(old[m])
        BY <1>1, <1>6, <3>1, <3>3
      <4>2. class(old[1]) = class(p)
        BY <1>4, <1>11, <3>1, <4>1
      <4>3. p.rank < old[1].rank /\ Ranked3(old[1])
        BY <1>7, <1>8, <3>1, <4>2
      <4>4. old[1].rank < old[m].rank
        BY <1>1, <1>4, <1>5, <1>6, <3>1, <3>3, <4>2, <4>3
      <4>5. p.rank \in Nat /\ old[1].rank \in Nat /\ old[m].rank \in Nat
        BY <1>5, <4>3 DEF Ranked3
      <4>6. p.rank < old[m].rank
        BY <4>3, <4>4, <4>5
      <4> QED
        BY <1>1, <1>12, <4>6
    <3> QED
      BY <3>2, <3>3
  <2> QED
    BY <1>1, <2>1, <2>2
<1>13. CASE m < at
  <2>1. at > 1 /\ at - 1 \in 1..n /\ ~Less(layers, p, old[at - 1]) /\ class(old[at - 1]) <= class(p)
    BY <1>1, <1>9, <1>10, <1>13
  <2>2. CASE m = at - 1
    <3>1. ~(p.rank < old[m].rank)
      BY <1>4, <1>8, <2>1, <2>2
    <3>2. p.rank \in Nat /\ old[m].rank \in Nat
      BY <1>5 DEF Ranked3
    <3> QED
      BY <1>1, <1>5, <1>13, <3>1, <3>2
  <2>3. CASE m < at - 1
    <3>1. class(old[m]) <= class(old[at - 1])
      BY <1>6, <2>1, <2>3
    <3>2. class(old[at - 1]) = class(p)
      BY <1>4, <1>11, <2>1, <3>1
    <3>3. Ranked3(old[at - 1]) /\ ~(p.rank < old[at - 1].rank)
      BY <1>7, <1>8, <2>1, <3>2
    <3>4. old[m].rank < old[at - 1].rank
      BY <1>4, <1>5, <1>6, <2>1, <2>3, <3>2, <3>3
    <3>5. p.rank \in Nat /\ old[at - 1].rank \in Nat /\ old[m].rank \in Nat
      BY <1>5, <3>3 DEF Ranked3
    <3>6. old[m].rank < p.rank
      BY <3>3, <3>4, <3>5
    <3> QED
      BY <1>1, <1>13, <3>6
  <2> QED
    BY <1>1, <1>13, <2>2, <2>3
<1> QED
  BY <1>1, <1>12, <1>13

\* Found layers that have places of their own are sorted by their places.
LEMMA SortsByRank ==
    ASSUME NEW layers, NEW list \in Seq(Params),
           \A n \in 1..Len(list) : list[n].state = "overridden" =>
              list[n].key \in KeysOf(layers) /\ list[n].rank \in Nat,
           \A m, n \in 1..Len(list) :
              list[m].state = "overridden" /\ list[n].state = "overridden"
              /\ list[m].rank = list[n].rank => m = n
    PROVE  Follows(Sorted(layers, list), Len(list), ByRank(layers))
<1>1. ASSUME NEW k \in 0..(Len(list) - 1), NEW old \in Seq(Params), NEW at \in 1..(k + 1),
             Len(old) = k, Within(old, k, list, k), Follows(old, k, ByRank(layers)),
             Fits(layers, old, list[k + 1], at)
      PROVE  \A i \in 1..k : /\ i < at => <<old[i], list[k + 1]>> \in ByRank(layers)
                             /\ i >= at => <<list[k + 1], old[i]>> \in ByRank(layers)
  <2>1. list[k + 1] \in Params /\ k + 1 \in 1..Len(list) /\ DOMAIN old = 1..k
    BY <1>1
  <2>2. \A q \in Range(old) : \E m \in 1..Len(list) : m # k + 1 /\ q = list[m]
    <3> SUFFICES ASSUME NEW i \in 1..k PROVE \E m \in 1..Len(list) : m # k + 1 /\ old[i] = list[m]
      BY <2>1 DEF Range
    <3>1. PICK m \in 1..k : old[i] = list[m]
      BY <1>1 DEF Within
    <3>2. m \in 1..Len(list) /\ m # k + 1
      OBVIOUS
    <3> QED
      BY <3>1, <3>2
  <2>3. \A q \in Range(old) \cup {list[k + 1]} :
           q.state = "overridden" => q.key \in KeysOf(layers) /\ q.rank \in Nat
    BY <2>1, <2>2
  <2>4. \A q \in Range(old) :
           q.state = "overridden" /\ list[k + 1].state = "overridden" => q.rank # list[k + 1].rank
    BY <2>1, <2>2
  <2> QED
    BY <1>1, <2>1, <2>3, <2>4, FitsByRank
<1> QED
  BY <1>1, SortFollows

\* No overridden layer of a list has a place behind that of device_simulation.
DevsimRanked(list) ==
    \A d, q \in Range(list) :
       /\ d.key = Devsim /\ d.state = "overridden" /\ q.key # Devsim /\ q.state = "overridden"
       /\ d.rank # NO_RANK /\ q.rank # NO_RANK
       => q.rank < d.rank

DevsimExplicit(layers) == Devsim \in KeysOf(layers) /\ FindByKey(layers, Devsim).type # "implicit"

LEMMA DevsimCompares ==
    ASSUME NEW layers, DevsimExplicit(layers), NEW d \in Params, NEW q \in Params,
           d.key = Devsim, d.state = "overridden", q.key # Devsim, q.state = "overridden",
           d.rank # NO_RANK /\ q.rank # NO_RANK => q.rank < d.rank
    PROVE  /\ GetParameterOrdering(layers, d) = 4 /\ GetParameterOrdering(layers, q) \in 0..4
           /\ Less(layers, q, d) /\ ~Less(layers, d, q)
<1>1. d.state \in States /\ q.state \in States
  BY DEF Params
<1>2. GetParameterOrdering(layers, d) = 4
  BY <1>1, Ordering DEF DevsimExplicit
<1>3. GetParameterOrdering(layers, q) \in 0..5 /\ GetParameterOrdering(layers, q) # 5
  BY <1>1, Ordering
<1>4. ByNature(q, d) /\ ~ByNature(d, q)
  BY DEF ByNature
<1>5. CASE GetParameterOrdering(layers, q) = 4
  <2>1. CASE d.rank # NO_RANK /\ q.rank # NO_RANK
    <3>1. d.rank \in Nat /\ q.rank \in Nat /\ q.rank < d.rank
      BY <2>1 DEF Params
    <3> QED
      BY <1>1, <1>2, <1>5, <2>1, <3>1, LessCompares
  <2>2. CASE ~(d.rank # NO_RANK /\ q.rank # NO_RANK)
    BY <1>1, <1>2, <1>4, <1>5, <2>2, LessCompares
  <2> QED
    BY <1>2, <1>5, <2>1, <2>2
<1>6. CASE GetParameterOrdering(layers, q) # 4
  <2>1. Less(layers, q, d)
    <3>1. ~Less(layers, q, d) => GetParameterOrdering(layers, d) <= GetParameterOrdering(layers, q)
      BY <1>1, LessCompares
    <3> QED
      BY <1>2, <1>3, <1>6, <3>1
  <2>2. ~Less(layers, d, q)
    <3>1. Less(layers, d, q) => GetParameterOrdering(layers, d) <= GetParameterOrdering(layers, q)
      BY <1>1, LessCompares
    <3> QED
      BY <1>2, <1>3, <1>6, <3>1
  <2> QED
    BY <1>2, <1>3, <1>6, <2>1, <2>2
<1> QED
  BY <1>5, <1>6

\* device_simulation is inserted behind the overridden layers, and they before it.
LEMMA FitsDevsim ==
    ASSUME NEW layers, NEW old \in Seq(Params), NEW p \in Params, NEW at \in 1..(Len(old) + 1),
           DevsimExplicit(layers),
           Follows(old, Len(old), DevsimBehind(layers)), Fits(layers, old, p, at),
           \A q \in Range(old) : q.key # p.key,
           \A d, q \in Range(old) \cup {p} :
              /\ d.key = Devsim /\ d.state = "overridden" /\ q.key # Devsim /\ q.state = "overridden"
              /\ d.rank # NO_RANK /\ q.rank # NO_RANK
              => q.rank < d.rank
    PROVE  \A i \in 1..Len(old) : /\ i < at => <<old[i], p>> \in DevsimBehind(layers)
                                  /\ i >= at => <<p, old[i]>> \in DevsimBehind(layers)
<1> DEFINE n == Len(old)
           class(q) == GetParameterOrdering(layers, q)
<1>1. n \in Nat /\ at \in Nat /\ 1 <= at /\ at <= n + 1 /\ \A i \in 1..n : old[i] \in Params /\ old[i] \in Range(old)
  BY DEF Range
<1>2. Follows(old, n, ByClass(layers))
  BY DEF Follows, DevsimBehind
<1>3. \A i \in 1..n : /\ i < at => <<old[i], p>> \in ByClass(layers)
                      /\ i >= at => <<p, old[i]>> \in ByClass(layers)
  BY <1>2, FitsByClass
<1>4. \A i \in 1..n : /\ i < at => class(old[i]) <= class(p)
                      /\ i >= at => class(p) <= class(old[i])
  BY <1>3 DEF ByClass
<1>5. \A i, j \in 1..n : i < j => class(old[i]) <= class(old[j])
  BY <1>2 DEF Follows, ByClass
<1>6. \A q \in Params : /\ q.state \in States /\ class(q) \in 0..5
                        /\ class(q) = 4 => q.state = "overridden"
                        /\ q.state = "overridden" => class(q) # 5
  <2>1. \A q \in Params : q.state \in States
    BY DEF Params
  <2> QED
    BY <2>1, Ordering
<1>7. \/ at = 1 /\ (n = 0 \/ Less(layers, p, old[1]))
      \/ at > 1 /\ ~Less(layers, p, old[at - 1]) /\ \A i \in at..n : Less(layers, p, old[i])
  BY DEF Fits
<1>8. \A i \in 1..n : ~Less(layers, p, old[i]) => class(old[i]) <= class(p)
  BY <1>1, <1>6, LessCompares
<1>9. \A i, j \in 1..n : i < j /\ old[i].state = "overridden" /\ old[i].key = Devsim
                         => old[j].state # "overridden"
  BY DEF Follows, DevsimBehind
<1>10. ASSUME NEW i \in 1..n, i < at, old[i].state = "overridden", old[i].key = Devsim,
              p.state = "overridden"
       PROVE  FALSE
  <2>1. p.key # Devsim
    BY <1>1, <1>10
  <2>2. class(old[i]) = 4 /\ class(p) \in 0..4 /\ Less(layers, p, old[i])
    BY <1>1, <1>10, <2>1, DevsimCompares
  <2>3. at > 1 /\ at - 1 \in 1..n /\ ~Less(layers, p, old[at - 1])
    BY <1>1, <1>7, <1>10
  <2>4. i < at - 1
    BY <1>1, <1>10, <2>2, <2>3
  <2>5. old[at - 1].state # "overridden" /\ class(old[i]) <= class(old[at - 1])
    BY <1>5, <1>9, <1>10, <2>3, <2>4
  <2>6. class(old[at - 1]) \in 0..5 /\ class(old[at - 1]) # 4
    BY <1>1, <1>6, <2>3, <2>5
  <2>7. class(old[at - 1]) <= class(p)
    BY <1>8, <2>3
  <2> HIDE DEF class
  <2> QED
    BY <2>2, <2>5, <2>6, <2>7
<1>11. ASSUME NEW i \in 1..n, i >= at, p.state = "overridden", p.key = Devsim,
              old[i].state = "overridden"
       PROVE  FALSE
  <2>1. \A j \in 1..n : old[j].state = "overridden"
                        => class(p) = 4 /\ class(old[j]) \in 0..4 /\ ~Less(layers, p, old[j])
    <3> SUFFICES ASSUME NEW j \in 1..n, old[j].state = "overridden"
                 PROVE  class(p) = 4 /\ class(old[j]) \in 0..4 /\ ~Less(layers, p, old[j])
      OBVIOUS
    <3>1. old[j] \in Params /\ old[j] \in Range(old) /\ old[j].key # Devsim
      BY <1>1, <1>11
    <3> QED
      BY <1>11, <3>1, DevsimCompares
  <2>2. class(p) = 4 /\ class(old[i]) \in 0..4 /\ ~Less(layers, p, old[i]) /\ class(p) <= class(old[i])
    BY <1>4, <1>11, <2>1
  <2>3. ~(at > 1)
    BY <1>1, <1>7, <1>11, <2>2
  <2>4. at = 1 /\ 1 \in 1..n /\ Less(layers, p, old[1])
    BY <1>1, <1>7, <2>3
  <2>5. i # 1
    BY <2>2, <2>4
  <2>6. class(old[1]) <= class(old[i]) /\ class(p) <= class(old[1])
    BY <1>4, <1>5, <1>1, <2>4, <2>5
  <2>7. class(old[1]) \in 0..5
    BY <1>1, <1>6, <2>4
  <2>8. class(old[1]) = 4
    <3> HIDE DEF class
    <3> QED
      BY <2>2, <2>6, <2>7
  <2>9. old[1].state = "overridden"
    BY <1>1, <1>6, <2>4, <2>8
  <2> QED
    BY <2>1, <2>4, <2>9
<1> QED
  BY <1>3, <1>10, <1>11 DEF DevsimBehind

LEMMA SortsDevsimBehind ==
    ASSUME NEW layers, NEW list \in Seq(Params), OneEach(list), DevsimExplicit(layers),
           DevsimRanked(list)
    PROVE  Follows(Sorted(layers, list), Len(list), DevsimBehind(layers))
<1>1. ASSUME NEW k \in 0..(Len(list) - 1), NEW old \in Seq(Params), NEW at \in 1..(k + 1),
             Len(old) = k, Within(old, k, list, k), Follows(old, k, DevsimBehind(layers)),
             Fits(layers, old, list[k + 1], at)
      PROVE  \A i \in 1..k : /\ i < at => <<old[i], list[k + 1]>> \in DevsimBehind(layers)
                             /\ i >= at => <<list[k + 1], old[i]>> \in DevsimBehind(layers)
  <2>1. /\ list[k + 1] \in Params /\ k + 1 \in 1..Len(list) /\ DOMAIN old = 1..k
        /\ \A m \in 1..Len(list) : list[m] \in Range(list)
    BY <1>1 DEF Range
  <2>2. \A q \in Range(old) : \E m \in 1..Len(list) : m # k + 1 /\ q = list[m]
    <3> SUFFICES ASSUME NEW i \in 1..k PROVE \E m \in 1..Len(list) : m # k + 1 /\ old[i] = list[m]
      BY <2>1 DEF Range
    <3>1. PICK m \in 1..k : old[i] = list[m]
      BY <1>1 DEF Within
    <3>2. m \in 1..Len(list) /\ m # k + 1
      OBVIOUS
    <3> QED
      BY <3>1, <3>2
  <2>3. \A q \in Range(old) : q.key # list[k + 1].key
    BY <2>1, <2>2 DEF OneEach
  <2>4. \A q \in Range(old) \cup {list[k + 1]} : q \in Range(list)
    BY <2>1, <2>2
  <2>5. \A d, q \in Range(old) \cup {list[k + 1]} :
           /\ d.key = Devsim /\ d.state = "overridden" /\ q.key # Devsim /\ q.state = "overridden"
           /\ d.rank # NO_RANK /\ q.rank # NO_RANK
           => q.rank < d.rank
    BY <2>4 DEF DevsimRanked
  <2> QED
    BY <1>1, <2>1, <2>3, <2>5, FitsDevsim
<1> QED
  BY <1>1, SortFollows

(***************************************************************************)
(* Loading the layers.                                                     *)
(***************************************************************************)

Layers == [key : Keys, type : Types, folder : DOMAIN Manifests]

\* Lists of layers that are each in a manifest of their folder.
Catalogs ==
    {list \in Seq(Layers) :
       /\ OneEach(list)
       /\ \A n \in 1..Len(list) : \E m \in DOMAIN Manifests[list[n].folder] :
             LET manifest == Manifests[list[n].folder][m]
             IN manifest.key = list[n].key /\ manifest.type = list[n].type}

\* One manifest of LoadLayersFromPath.
LoadOne(layers, manifest, folder) ==
    IF manifest.key \in KeysOf(layers) THEN layers
    ELSE Append(layers, [key |-> manifest.key, type |-> manifest.type, folder |-> folder])

LEMMA NoLayers == << >> \in Catalogs
<1>1. << >> \in Seq(Layers) /\ Len(<< >>) = 0 /\ 1..0 = {}
  OBVIOUS
<1>2. OneEach(<< >>)
  BY <1>1 DEF OneEach
<1> QED
  BY <1>1, <1>2 DEF Catalogs

LEMMA LoadOneKeeps ==
    ASSUME NEW layers \in Catalogs, NEW folder \in DOMAIN Manifests,
           NEW m \in DOMAIN Manifests[folder]
    PROVE  /\ LoadOne(layers, Manifests[folder][m], folder) \in Catalogs
           /\ KeysOf(LoadOne(layers, Manifests[folder][m], folder))
                = KeysOf(layers) \cup {Manifests[folder][m].key}
<1> DEFINE manifest == Manifests[folder][m]
           e == [key |-> manifest.key, type |-> manifest.type, folder |-> folder]
           n == Len(layers)
           more == Append(layers, e)
<1>1. manifest \in [key : Keys, type : Types]
  <2>1. Manifests[folder] \in Seq([key : Keys, type : Types])
    BY ManifestsAssumption
  <2>2. \A T : \A list \in Seq(T) : \A i \in DOMAIN list : list[i] \in T
    OBVIOUS
  <2> QED
    BY <2>1, <2>2
<1>2. e \in Layers
  BY <1>1 DEF Layers
<1>3. /\ layers \in Seq(Layers) /\ n \in Nat /\ DOMAIN layers = 1..n
      /\ OneEach(layers)
      /\ \A i \in 1..n : \E j \in DOMAIN Manifests[layers[i].folder] :
            /\ Manifests[layers[i].folder][j].key = layers[i].key
            /\ Manifests[layers[i].folder][j].type = layers[i].type
  BY DEF Catalogs
<1>4. CASE manifest.key \in KeysOf(layers)
  BY <1>4 DEF LoadOne
<1>5. CASE manifest.key \notin KeysOf(layers)
  <2>1. LoadOne(layers, manifest, folder) = more
    BY <1>5 DEF LoadOne
  <2>2. e.key = manifest.key /\ e.type = manifest.type /\ e.folder = folder
    OBVIOUS
  <2> HIDE DEF e
  <2>3. /\ more \in Seq(Layers) /\ Len(more) = n + 1 /\ more[n + 1] = e
        /\ \A i \in 1..n : more[i] = layers[i]
    BY <1>2, <1>3
  <2>4. \A i \in 1..n : layers[i].key # e.key
    BY <1>3, <1>5, <2>2 DEF KeysOf
  <2> HIDE DEF more, n, manifest
  <2>5. OneEach(more)
    <3>1. \A i, j \in 1..n : layers[i].key = layers[j].key => i = j
      BY <1>3 DEF OneEach, n
    <3>2. \A i, j \in 1..(n + 1) : more[i].key = more[j].key => i = j
      BY <1>3, <2>3, <2>4, <3>1
    <3> QED
      BY <2>3, <3>2 DEF OneEach
  <2>6. ASSUME NEW i \in 1..(n + 1)
        PROVE  \E j \in DOMAIN Manifests[more[i].folder] :
                  /\ Manifests[more[i].folder][j].key = more[i].key
                  /\ Manifests[more[i].folder][j].type = more[i].type
    <3>1. CASE i = n + 1
      BY <2>2, <2>3, <3>1 DEF manifest
    <3>2. CASE i # n + 1
      <4>1. i \in 1..n
        BY <1>3, <3>2
      <4> QED
        BY <1>3, <2>3, <4>1
    <3> QED
      BY <3>1, <3>2
  <2>7. more \in Catalogs
    BY <2>3, <2>5, <2>6 DEF Catalogs
  <2>8. KeysOf(more) = KeysOf(layers) \cup {manifest.key}
    <3>1. DOMAIN more = 1..(n + 1) /\ n + 1 \in 1..(n + 1)
      BY <1>3, <2>3
    <3>2. \A i \in 1..(n + 1) : i = n + 1 \/ i \in 1..n
      BY <1>3
    <3>3. \A i \in 1..n : i \in 1..(n + 1)
      BY <1>3
    <3> QED
      BY <1>3, <2>2, <2>3, <3>1, <3>2, <3>3 DEF KeysOf
  <2> QED
    BY <2>1, <2>7, <2>8 DEF manifest
<1> QED
  BY <1>4, <1>5

\* A folder adds its layers to those that are known.
LEMMA LoadsPath ==
    ASSUME NEW first \in Catalogs, NEW folder \in DOMAIN Manifests
    PROVE  /\ LoadLayersFromPath(first, folder) \in Catalogs
           /\ KeysOf(LoadLayersFromPath(first, folder)) = KeysOf(first) \cup KeysOf(Manifests[folder])
<1> DEFINE list == Manifests[folder]
           n == Len(list)
           Keep(some, e) == LoadOne(some, e, folder)
           table == [p \in Catalogs \X (1..n) |-> Keep(p[1], list[p[2]])]
           total == CHOOSE iter : iter = [s \in SUBSET DOMAIN list |->
                         IF s = {} THEN first ELSE Keep(iter[s \ {Max(s)}], list[Max(s)])]
           stages == [k \in 0..n |-> total[1..k]]
<1>0. list \in Seq([key : Keys, type : Types])
  BY ManifestsAssumption
<1>1. n \in Nat /\ DOMAIN list = 1..n
  BY <1>0
<1>2. \A some \in Catalogs, k \in 1..n : Keep(some, list[k]) \in Catalogs
  BY <1>1, LoadOneKeeps
<1> HIDE DEF list
<1>3. table \in [Catalogs \X (1..n) -> Catalogs]
  <2> HIDE DEF Keep, n
  <2> QED
    BY <1>1, <1>2
<1>4. first \in Catalogs
  OBVIOUS
<1>5. PICK fold : Folding(fold, n, first, table) /\ \A s \in SUBSET (1..n) : fold[s] \in Catalogs
  <2> HIDE DEF table, n
  <2> QED
    BY <1>1, <1>3, <1>4, TypedFolding
<1>6. \A s \in SUBSET (1..n) : s # {} => Max(s) \in 1..n /\ fold[s \ {Max(s)}] \in Catalogs
  <2> HIDE DEF n
  <2> QED
    BY <1>1, <1>5, MaxInRange
<1>7. \A s \in SUBSET (1..n) :
         s # {} => table[<<fold[s \ {Max(s)}], Max(s)>>] = Keep(fold[s \ {Max(s)}], list[Max(s)])
  <2> HIDE DEF Keep, n
  <2> QED
    BY <1>6
<1>8. fold = [s \in SUBSET DOMAIN list |->
                 IF s = {} THEN first ELSE Keep(fold[s \ {Max(s)}], list[Max(s)])]
  <2> HIDE DEF table, n, Keep
  <2> QED
    BY <1>1, <1>5, <1>7 DEF Folding
<1>9. total = [s \in SUBSET DOMAIN list |->
                   IF s = {} THEN first ELSE Keep(total[s \ {Max(s)}], list[Max(s)])]
  <2> HIDE DEF Keep
  <2> QED
    BY <1>8
<1>10. LoadLayersFromPath(first, folder) = total[DOMAIN list]
  BY DEF LoadLayersFromPath, LoadOne, FoldLeft, MapThenFoldSet, list
<1> HIDE DEF total, table, Keep
<1>11. stages[0] = first
  <2>1. 1..0 = {} /\ 0 \in 0..n /\ {} \in SUBSET (1..n)
    BY <1>1
  <2> QED
    BY <1>1, <1>9, <2>1
<1>12. ASSUME NEW k \in 1..n
       PROVE  stages[k] = Keep(stages[k - 1], list[k])
  <2>1. /\ Max(1..k) = k /\ (1..k) \ {k} = 1..(k - 1)
        /\ 1..k # {} /\ 1..k \in SUBSET (1..n)
    <3> HIDE DEF n
    <3> QED
      BY <1>1, Intervals
  <2>2. total[1..k] = Keep(total[1..(k - 1)], list[k])
    <3> HIDE DEF n
    <3> QED
      BY <1>1, <1>9, <2>1
  <2>3. k \in 0..n /\ k - 1 \in 0..n
    BY <1>1
  <2> QED
    BY <2>2, <2>3
<1> DEFINE Typed == {k \in Nat : k <= n => stages[k] \in Catalogs}
<1>13. stages[n] = LoadLayersFromPath(first, folder)
  BY <1>1, <1>10
<1> HIDE DEF stages
<1>14. 0 \in Typed
  BY <1>4, <1>11
<1>15. \A k \in Nat : k \in Typed => k + 1 \in Typed
  <2> SUFFICES ASSUME NEW k \in Nat, k \in Typed, k + 1 <= n
               PROVE  stages[k + 1] \in Catalogs
    OBVIOUS
  <2>1. k + 1 \in 1..n /\ (k + 1) - 1 = k /\ stages[k] \in Catalogs
    BY <1>1
  <2> QED
    BY <1>1, <1>2, <1>12, <2>1
<1>16. \A k \in 0..n : stages[k] \in Catalogs
  <2>1. Nat \subseteq Typed
    <3> HIDE DEF Typed
    <3> QED
      BY <1>14, <1>15, InductionOnSet
  <2> QED
    BY <1>1, <2>1

<1> DEFINE KnownAt(k) == KeysOf(stages[k]) = KeysOf(first) \cup {list[i].key : i \in 1..k}
           Known == {k \in Nat : k <= n => KnownAt(k)}
<1>17. 0 \in Known
  <2>1. 1..0 = {}
    OBVIOUS
  <2> QED
    BY <1>11, <2>1
<1>18. \A k \in Nat : k \in Known => k + 1 \in Known
  <2> SUFFICES ASSUME NEW k \in Nat, k \in Known, k + 1 <= n
               PROVE  KnownAt(k + 1)
    <3> HIDE DEF KnownAt
    <3> QED
      OBVIOUS
  <2>1. k \in 0..n /\ k + 1 \in 1..n /\ (k + 1) - 1 = k
    BY <1>1
  <2>2. stages[k + 1] = LoadOne(stages[k], list[k + 1], folder) /\ stages[k] \in Catalogs
    BY <1>12, <1>16, <2>1 DEF Keep
  <2>3. KeysOf(stages[k + 1]) = KeysOf(stages[k]) \cup {list[k + 1].key}
    BY <1>1, <2>1, <2>2, LoadOneKeeps DEF list
  <2>4. KeysOf(stages[k]) = KeysOf(first) \cup {list[i].key : i \in 1..k}
    BY <2>1
  <2>5. 1..(k + 1) = (1..k) \cup {k + 1}
    OBVIOUS
  <2> QED
    BY <2>3, <2>4, <2>5
<1>19. n \in Known
  <2> HIDE DEF Known
  <2> QED
    BY <1>1, <1>17, <1>18, InductionOnSet
<1>20. KeysOf(stages[n]) = KeysOf(first) \cup KeysOf(list)
  <2>1. KnownAt(n)
    <3> HIDE DEF KnownAt
    <3> QED
      BY <1>1, <1>19
  <2>2. KeysOf(list) = {list[i].key : i \in 1..n}
    BY <1>1 DEF KeysOf
  <2> QED
    BY <2>1, <2>2
<1>21. n \in 0..n
  BY <1>1
<1> QED
  BY <1>13, <1>16, <1>20, <1>21 DEF list

\* Every layer of a folder that is searched is known, one way or the other.
LEMMA LoadsAll ==
    ASSUME NEW list \in Seq(DOMAIN Manifests)
    PROVE  /\ LoadAllInstalledLayers(list) \in Catalogs
           /\ \A folder \in Range(list) :
                 KeysOf(Manifests[folder]) \subseteq KeysOf(LoadAllInstalledLayers(list))
<1> DEFINE n == Len(list)
           Keep(some, e) == LoadLayersFromPath(some, e)
           table == [p \in Catalogs \X (1..n) |-> Keep(p[1], list[p[2]])]
           total == CHOOSE iter : iter = [s \in SUBSET DOMAIN list |->
                         IF s = {} THEN << >> ELSE Keep(iter[s \ {Max(s)}], list[Max(s)])]
           stages == [k \in 0..n |-> total[1..k]]
<1>1. n \in Nat /\ DOMAIN list = 1..n /\ \A k \in 1..n : list[k] \in DOMAIN Manifests
  OBVIOUS
<1>2. \A some \in Catalogs, k \in 1..n : Keep(some, list[k]) \in Catalogs
  BY <1>1, LoadsPath
<1>3. table \in [Catalogs \X (1..n) -> Catalogs]
  <2> HIDE DEF Keep, n
  <2> QED
    BY <1>1, <1>2
<1>4. << >> \in Catalogs
  BY NoLayers
<1>5. PICK fold : Folding(fold, n, << >>, table) /\ \A s \in SUBSET (1..n) : fold[s] \in Catalogs
  <2> HIDE DEF table, n
  <2> QED
    BY <1>1, <1>3, <1>4, TypedFolding
<1>6. \A s \in SUBSET (1..n) : s # {} => Max(s) \in 1..n /\ fold[s \ {Max(s)}] \in Catalogs
  <2> HIDE DEF n
  <2> QED
    BY <1>1, <1>5, MaxInRange
<1>7. \A s \in SUBSET (1..n) :
         s # {} => table[<<fold[s \ {Max(s)}], Max(s)>>] = Keep(fold[s \ {Max(s)}], list[Max(s)])
  <2> HIDE DEF Keep, n
  <2> QED
    BY <1>6
<1>8. fold = [s \in SUBSET DOMAIN list |->
                 IF s = {} THEN << >> ELSE Keep(fold[s \ {Max(s)}], list[Max(s)])]
  <2> HIDE DEF table, n, Keep
  <2> QED
    BY <1>1, <1>5, <1>7 DEF Folding
<1>9. total = [s \in SUBSET DOMAIN list |->
                   IF s = {} THEN << >> ELSE Keep(total[s \ {Max(s)}], list[Max(s)])]
  <2> HIDE DEF Keep
  <2> QED
    BY <1>8
<1>10. LoadAllInstalledLayers(list) = total[DOMAIN list]
  BY DEF LoadAllInstalledLayers, FoldLeft, MapThenFoldSet
<1> HIDE DEF total, table, Keep
<1>11. stages[0] = << >>
  <2>1. 1..0 = {} /\ 0 \in 0..n /\ {} \in SUBSET (1..n)
    BY <1>1
  <2> QED
    BY <1>1, <1>9, <2>1
<1>12. ASSUME NEW k \in 1..n
       PROVE  stages[k] = Keep(stages[k - 1], list[k])
  <2>1. /\ Max(1..k) = k /\ (1..k) \ {k} = 1..(k - 1)
        /\ 1..k # {} /\ 1..k \in SUBSET (1..n)
    <3> HIDE DEF n
    <3> QED
      BY <1>1, Intervals
  <2>2. total[1..k] = Keep(total[1..(k - 1)], list[k])
    <3> HIDE DEF n
    <3> QED
      BY <1>1, <1>9, <2>1
  <2>3. k \in 0..n /\ k - 1 \in 0..n
    BY <1>1
  <2> QED
    BY <2>2, <2>3
<1> DEFINE Typed == {k \in Nat : k <= n => stages[k] \in Catalogs}
<1>13. stages[n] = LoadAllInstalledLayers(list)
  BY <1>1, <1>10
<1> HIDE DEF stages
<1>14. 0 \in Typed
  BY <1>4, <1>11
<1>15. \A k \in Nat : k \in Typed => k + 1 \in Typed
  <2> SUFFICES ASSUME NEW k \in Nat, k \in Typed, k + 1 <= n
               PROVE  stages[k + 1] \in Catalogs
    OBVIOUS
  <2>1. k + 1 \in 1..n /\ (k + 1) - 1 = k /\ stages[k] \in Catalogs
    BY <1>1
  <2> QED
    BY <1>1, <1>2, <1>12, <2>1
<1>16. \A k \in 0..n : stages[k] \in Catalogs
  <2>1. Nat \subseteq Typed
    <3> HIDE DEF Typed
    <3> QED
      BY <1>14, <1>15, InductionOnSet
  <2> QED
    BY <1>1, <2>1

<1> DEFINE KnownAt(k) == \A i \in 1..k : KeysOf(Manifests[list[i]]) \subseteq KeysOf(stages[k])
           Known == {k \in Nat : k <= n => KnownAt(k)}
<1>17. 0 \in Known
  OBVIOUS
<1>18. \A k \in Nat : k \in Known => k + 1 \in Known
  <2> SUFFICES ASSUME NEW k \in Nat, k \in Known, k + 1 <= n
               PROVE  KnownAt(k + 1)
    <3> HIDE DEF KnownAt
    <3> QED
      OBVIOUS
  <2>1. k \in 0..n /\ k + 1 \in 1..n /\ (k + 1) - 1 = k
    BY <1>1
  <2>2. stages[k + 1] = LoadLayersFromPath(stages[k], list[k + 1]) /\ stages[k] \in Catalogs
    BY <1>12, <1>16, <2>1 DEF Keep
  <2>3. KeysOf(stages[k + 1]) = KeysOf(stages[k]) \cup KeysOf(Manifests[list[k + 1]])
    BY <1>1, <2>1, <2>2, LoadsPath
  <2>4. \A j \in 1..k : KeysOf(Manifests[list[j]]) \subseteq KeysOf(stages[k])
    BY <2>1
  <2>5. \A i \in 1..(k + 1) : i = k + 1 \/ i \in 1..k
    OBVIOUS
  <2> QED
    BY <2>3, <2>4, <2>5
<1>19. n \in Known
  <2> HIDE DEF Known
  <2> QED
    BY <1>1, <1>17, <1>18, InductionOnSet
<1>20. \A i \in 1..n : KeysOf(Manifests[list[i]]) \subseteq KeysOf(stages[n])
  BY <1>1, <1>19
<1>21. \A folder \in Range(list) : \E i \in 1..n : folder = list[i]
  BY <1>1 DEF Range
<1>22. n \in 0..n
  BY <1>1
<1> QED
  BY <1>13, <1>16, <1>20, <1>21, <1>22

(***************************************************************************)
(* Keys, states and places.                                                *)
(***************************************************************************)

LEMMA FindsByKey ==
    ASSUME NEW S, NEW list \in Seq(S), OneEach(list), NEW n \in 1..Len(list)
    PROVE  list[n].key \in KeysOf(list) /\ FindByKey(list, list[n].key) = list[n]
<1>1. DOMAIN list = 1..Len(list)
  OBVIOUS
<1> DEFINE at == CHOOSE m \in DOMAIN list : list[m].key = list[n].key
<1>2. at \in 1..Len(list) /\ list[at].key = list[n].key
  BY <1>1
<1> HIDE DEF at
<1>3. at = n
  BY <1>2 DEF OneEach
<1> QED
  BY <1>1, <1>3 DEF FindByKey, KeysOf, at

LEMMA StateOfEach ==
    ASSUME NEW S, NEW list \in Seq(S), OneEach(list)
    PROVE  /\ \A n \in 1..Len(list) : StateOf(list, list[n].key) = list[n].state
           /\ \A key : key \notin KeysOf(list) => StateOf(list, key) = "app"
           /\ \A key \in KeysOf(list) : \E n \in 1..Len(list) : key = list[n].key
<1>1. \A n \in 1..Len(list) : StateOf(list, list[n].key) = list[n].state
  BY FindsByKey DEF StateOf
<1>2. \A key : key \notin KeysOf(list) => StateOf(list, key) = "app"
  BY DEF StateOf
<1>3. DOMAIN list = 1..Len(list)
  OBVIOUS
<1> QED
  BY <1>1, <1>2, <1>3 DEF KeysOf

\* What a says of a layer, b says.
Says(a, b) ==
    \A i \in 1..Len(a) :
       \/ a[i].state = "app"
       \/ \E j \in 1..Len(b) : b[j].key = a[i].key /\ b[j].state = a[i].state

LEMMA SameStates ==
    ASSUME NEW S, NEW T, NEW a \in Seq(S), NEW b \in Seq(T), OneEach(a), OneEach(b),
           Says(a, b), Says(b, a), NEW key
    PROVE  StateOf(a, key) = StateOf(b, key)
<1>1. /\ \A n \in 1..Len(a) : StateOf(a, a[n].key) = a[n].state
      /\ key \notin KeysOf(a) => StateOf(a, key) = "app"
      /\ key \in KeysOf(a) => \E n \in 1..Len(a) : key = a[n].key
  BY StateOfEach
<1>2. /\ \A n \in 1..Len(b) : StateOf(b, b[n].key) = b[n].state
      /\ key \notin KeysOf(b) => StateOf(b, key) = "app"
      /\ key \in KeysOf(b) => \E n \in 1..Len(b) : key = b[n].key
  BY StateOfEach
<1>3. StateOf(a, key) # "app" => StateOf(b, key) = StateOf(a, key)
  <2> SUFFICES ASSUME StateOf(a, key) # "app" PROVE StateOf(b, key) = StateOf(a, key)
    OBVIOUS
  <2>1. PICK n \in 1..Len(a) : key = a[n].key
    BY <1>1
  <2>2. a[n].state = StateOf(a, key)
    BY <1>1, <2>1
  <2>3. PICK j \in 1..Len(b) : b[j].key = key /\ b[j].state = StateOf(a, key)
    BY <2>1, <2>2 DEF Says
  <2> QED
    BY <1>2, <2>3
<1>4. StateOf(b, key) # "app" => StateOf(a, key) = StateOf(b, key)
  <2> SUFFICES ASSUME StateOf(b, key) # "app" PROVE StateOf(a, key) = StateOf(b, key)
    OBVIOUS
  <2>1. PICK n \in 1..Len(b) : key = b[n].key
    BY <1>2
  <2>2. b[n].state = StateOf(b, key)
    BY <1>2, <2>1
  <2>3. PICK j \in 1..Len(a) : a[j].key = key /\ a[j].state = StateOf(b, key)
    BY <2>1, <2>2 DEF Says
  <2> QED
    BY <1>1, <2>3
<1> QED
  BY <1>3, <1>4

\* The names of the overridden layers of a list are one list.
LEMMA NamedOnce ==
    ASSUME NEW S, NEW T, NEW list, NEW x \in Seq(S), NEW y \in Seq(T), NEW toX, NEW toY,
           Len(list) \in Nat, Names(x, toX, list), Names(y, toY, list)
    PROVE  x = y
<1> DEFINE p == Len(x)
           q == Len(y)
           n == Len(list)
<1>1. p \in Nat /\ q \in Nat /\ n \in Nat /\ x = [i \in 1..p |-> x[i]] /\ y = [i \in 1..q |-> y[i]]
  OBVIOUS
<1>2. /\ toX \in [1..p -> 1..n] /\ toY \in [1..q -> 1..n]
      /\ \A i, j \in 1..p : i < j => toX[i] < toX[j]
      /\ \A i, j \in 1..q : i < j => toY[i] < toY[j]
      /\ \A i \in 1..p : x[i] = list[toX[i]].key /\ list[toX[i]].state = "overridden"
      /\ \A i \in 1..q : y[i] = list[toY[i]].key /\ list[toY[i]].state = "overridden"
      /\ \A k \in 1..n : list[k].state = "overridden" => \E i \in 1..p : toX[i] = k
      /\ \A k \in 1..n : list[k].state = "overridden" => \E i \in 1..q : toY[i] = k
  BY DEF Names
<1> HIDE DEF p, q, n
<1>3. toX \in Seq(Nat) /\ toY \in Seq(Nat) /\ Len(toX) = p /\ Len(toY) = q
  <2>1. toX \in [1..p -> Nat] /\ toY \in [1..q -> Nat]
    BY <1>1, <1>2
  <2>2. \A m \in Nat : \A f \in [1..m -> Nat] : f \in Seq(Nat) /\ Len(f) = m
    OBVIOUS
  <2> QED
    BY <1>1, <2>1, <2>2
<1>4. Follows(toX, p, Increasing) /\ Follows(toY, q, Increasing)
  <2>1. \A i \in 1..p : toX[i] \in Nat
    BY <1>1, <1>2
  <2>2. \A i \in 1..q : toY[i] \in Nat
    BY <1>1, <1>2
  <2> QED
    BY <1>2, <2>1, <2>2 DEF Follows, Increasing
<1>5. Asymmetric(Increasing)
  BY DEF Asymmetric, Increasing
<1>6. Within(toX, p, toY, q) /\ Within(toY, q, toX, p)
  BY <1>2 DEF Within
<1>7. toX = toY
  BY <1>3, <1>4, <1>5, <1>6, OneOrder
<1>8. p = q
  BY <1>3, <1>7
<1>9. \A i \in 1..p : x[i] = y[i]
  BY <1>2, <1>7, <1>8
<1> QED
  BY <1>1, <1>8, <1>9

\* Places change no name.
LEMMA SameNames ==
    ASSUME NEW S, NEW T, NEW a \in Seq(S), NEW b \in Seq(T), Len(a) = Len(b),
           \A n \in 1..Len(a) : a[n].key = b[n].key /\ a[n].state = b[n].state
    PROVE  Overridden(a) = Overridden(b)
<1>1. /\ Overridden(a) \in Seq({p.key : p \in Range(a)})
      /\ \E place : Names(Overridden(a), place, a)
  BY OverriddenNames
<1>2. /\ Overridden(b) \in Seq({p.key : p \in Range(b)})
      /\ \E place : Names(Overridden(b), place, b)
  BY OverriddenNames
<1>3. PICK toA : Names(Overridden(a), toA, a)
  BY <1>1
<1>4. PICK toB : Names(Overridden(b), toB, b)
  BY <1>2
<1>5. Names(Overridden(b), toB, a)
  BY <1>4 DEF Names
<1>6. Len(a) \in Nat
  OBVIOUS
<1> QED
  BY <1>1, <1>2, <1>3, <1>5, <1>6, NamedOnce

\* The overridden ones among the parameters of a list are in an order.
OverriddenFollow(list, R) ==
    \A i, j \in 1..Len(list) :
       i < j /\ list[i].state = "overridden" /\ list[j].state = "overridden"
       => <<list[i], list[j]>> \in R

\* The overridden parameters of a are among those of b.
OverriddenWithin(a, b) ==
    \A i \in 1..Len(a) : a[i].state = "overridden" => \E j \in 1..Len(b) : a[i] = b[j]

LEMMA SameOrder ==
    ASSUME NEW S, NEW a \in Seq(S), NEW b \in Seq(S), NEW R, Asymmetric(R),
           OverriddenFollow(a, R), OverriddenFollow(b, R),
           OverriddenWithin(a, b), OverriddenWithin(b, a)
    PROVE  Overridden(a) = Overridden(b)
<1> DEFINE keptA == {p \in Range(a) : p.state = "overridden"}
           keptB == {p \in Range(b) : p.state = "overridden"}
           x == Only(a, keptA)
           y == Only(b, keptB)
           m == Len(a)
           n == Len(b)
           p == Len(x)
           q == Len(y)
<1>1. x \in Seq(S) /\ y \in Seq(S)
  BY OnlyShows
<1>2. PICK toA : Shows(x, toA, a, keptA)
  BY OnlyShows
<1>3. PICK toB : Shows(y, toB, b, keptB)
  BY OnlyShows
<1>4. /\ \A i \in 1..m : a[i] \in keptA <=> a[i].state = "overridden"
      /\ \A i \in 1..n : b[i] \in keptB <=> b[i].state = "overridden"
  BY DEF Range
<1>5. Overridden(a) = [i \in DOMAIN x |-> x[i].key] /\ Overridden(b) = [i \in DOMAIN y |-> y[i].key]
  BY DEF Overridden
<1> HIDE DEF keptA, keptB, x, y
<1>6. m \in Nat /\ n \in Nat /\ p \in Nat /\ q \in Nat
  BY <1>1
<1>7. /\ toA \in [1..p -> 1..m]
      /\ \A i, j \in 1..p : i < j => toA[i] < toA[j]
      /\ \A i \in 1..p : x[i] = a[toA[i]] /\ a[toA[i]].state = "overridden"
      /\ \A k \in 1..m : a[k].state = "overridden" => \E i \in 1..p : toA[i] = k
  BY <1>2, <1>4 DEF Shows, ShowsUpTo
<1>8. /\ toB \in [1..q -> 1..n]
      /\ \A i, j \in 1..q : i < j => toB[i] < toB[j]
      /\ \A i \in 1..q : y[i] = b[toB[i]] /\ b[toB[i]].state = "overridden"
      /\ \A k \in 1..n : b[k].state = "overridden" => \E i \in 1..q : toB[i] = k
  BY <1>3, <1>4 DEF Shows, ShowsUpTo
<1>9. Follows(x, p, R)
  <2> SUFFICES ASSUME NEW i \in 1..p, NEW j \in 1..p, i < j PROVE <<x[i], x[j]>> \in R
    BY DEF Follows
  <2>1. toA[i] \in 1..m /\ toA[j] \in 1..m /\ toA[i] < toA[j]
    BY <1>7
  <2> QED
    BY <1>7, <2>1 DEF OverriddenFollow
<1>10. Follows(y, q, R)
  <2> SUFFICES ASSUME NEW i \in 1..q, NEW j \in 1..q, i < j PROVE <<y[i], y[j]>> \in R
    BY DEF Follows
  <2>1. toB[i] \in 1..n /\ toB[j] \in 1..n /\ toB[i] < toB[j]
    BY <1>8
  <2> QED
    BY <1>8, <2>1 DEF OverriddenFollow
<1>11. Within(x, p, y, q)
  <2> SUFFICES ASSUME NEW i \in 1..p PROVE \E j \in 1..q : x[i] = y[j]
    BY DEF Within
  <2>0. toA[i] \in 1..m /\ x[i] = a[toA[i]] /\ a[toA[i]].state = "overridden"
    BY <1>7
  <2>1. PICK k \in 1..n : x[i] = b[k]
    BY <2>0 DEF OverriddenWithin
  <2>2. b[k].state = "overridden"
    BY <2>0, <2>1
  <2>3. PICK j \in 1..q : toB[j] = k
    BY <1>8, <2>2
  <2> QED
    BY <1>8, <2>1, <2>3
<1>12. Within(y, q, x, p)
  <2> SUFFICES ASSUME NEW i \in 1..q PROVE \E j \in 1..p : y[i] = x[j]
    BY DEF Within
  <2>0. toB[i] \in 1..n /\ y[i] = b[toB[i]] /\ b[toB[i]].state = "overridden"
    BY <1>8
  <2>1. PICK k \in 1..m : y[i] = a[k]
    BY <2>0 DEF OverriddenWithin
  <2>2. a[k].state = "overridden"
    BY <2>0, <2>1
  <2>3. PICK j \in 1..p : toA[j] = k
    BY <1>7, <2>2
  <2> QED
    BY <1>7, <2>1, <2>3
<1>13. x = y
  BY <1>1, <1>9, <1>10, <1>11, <1>12, OneOrder
<1> QED
  BY <1>5, <1>13

LEMMA SameOrdering ==
    ASSUME NEW layers, NEW a, NEW b, a.key = b.key, a.state = b.state
    PROVE  GetParameterOrdering(layers, a) = GetParameterOrdering(layers, b)
BY DEF GetParameterOrdering

\* What OrderParameter gives: the parameters of the list, sorted, with their
\* places.
LEMMA Orders ==
    ASSUME NEW layers, NEW list \in Seq(Params), OneEach(list)
    PROVE  LET out == OrderParameter(list, layers)
               sort == Sorted(layers, list)
           IN /\ out \in Seq(Params) /\ Len(out) = Len(list)
              /\ sort \in Seq(Params) /\ Len(sort) = Len(list)
              /\ OneEach(out) /\ IsOrdered(out) /\ Says(list, out) /\ Says(out, list)
              /\ KeysOf(out) = KeysOf(list)
              /\ \A n \in 1..Len(list) : out[n].key = sort[n].key /\ out[n].state = sort[n].state
              /\ Follows(out, Len(out), ByClass(layers))
              /\ Overridden(out) = Overridden(sort)
<1> DEFINE out == OrderParameter(list, layers)
           sort == Sorted(layers, list)
           n == Len(list)
<1>1. n \in Nat /\ DOMAIN list = 1..n
  OBVIOUS
<1>2. /\ sort \in Seq(Params) /\ Len(sort) = n /\ OneEach(sort)
      /\ Within(sort, n, list, n) /\ Within(list, n, sort, n)
  BY SortPermutes
<1>3. Follows(sort, n, ByClass(layers))
  BY SortsByClass
<1>4. out = [k \in DOMAIN sort |->
               [sort[k] EXCEPT !.rank = IF sort[k].state = "overridden" THEN k - 1 ELSE NO_RANK]]
  BY DEF OrderParameter, Ranked
<1> HIDE DEF out, sort, n
<1>5. DOMAIN sort = 1..n /\ \A k \in 1..n : sort[k] \in Params
  BY <1>1, <1>2
<1>6. ASSUME NEW k \in 1..n
      PROVE  /\ out[k] \in Params /\ out[k].key = sort[k].key /\ out[k].state = sort[k].state
             /\ out[k].rank = IF out[k].state = "overridden" THEN k - 1 ELSE NO_RANK
  <2>1. k - 1 \in {NO_RANK} \cup Nat /\ NO_RANK \in {NO_RANK} \cup Nat
    BY <1>1
  <2>2. out[k] = [sort[k] EXCEPT !.rank = IF sort[k].state = "overridden" THEN k - 1 ELSE NO_RANK]
    BY <1>4, <1>5
  <2>3. sort[k] \in Params
    BY <1>5
  <2> QED
    BY <2>1, <2>2, <2>3 DEF Params
<1>7. out \in Seq(Params) /\ Len(out) = n /\ DOMAIN out = 1..n
  <2>1. out \in [1..n -> Params]
    BY <1>4, <1>5, <1>6
  <2>2. \A m \in Nat : \A f \in [1..m -> Params] : f \in Seq(Params) /\ Len(f) = m /\ DOMAIN f = 1..m
    OBVIOUS
  <2> QED
    BY <1>1, <2>1, <2>2
<1>8. OneEach(out)
  BY <1>2, <1>6, <1>7 DEF OneEach
<1>9. IsOrdered(out)
  BY <1>6, <1>7 DEF IsOrdered
<1>10. \A i \in 1..n : \E j \in 1..n : out[j].key = list[i].key /\ out[j].state = list[i].state
  <2> SUFFICES ASSUME NEW i \in 1..n
               PROVE  \E j \in 1..n : out[j].key = list[i].key /\ out[j].state = list[i].state
    OBVIOUS
  <2>1. PICK j \in 1..n : list[i] = sort[j]
    BY <1>2 DEF Within
  <2> QED
    BY <1>6, <2>1
<1>11. \A i \in 1..n : \E j \in 1..n : list[j].key = out[i].key /\ list[j].state = out[i].state
  <2> SUFFICES ASSUME NEW i \in 1..n
               PROVE  \E j \in 1..n : list[j].key = out[i].key /\ list[j].state = out[i].state
    OBVIOUS
  <2>1. PICK j \in 1..n : sort[i] = list[j]
    BY <1>2 DEF Within
  <2> QED
    BY <1>6, <2>1
<1>12. KeysOf(out) = KeysOf(list)
  <2>1. KeysOf(out) = {out[i].key : i \in 1..n} /\ KeysOf(list) = {list[i].key : i \in 1..n}
    BY <1>1, <1>7 DEF KeysOf
  <2>2. \A i \in 1..n : out[i].key \in KeysOf(list)
    BY <1>11, <2>1
  <2>3. \A i \in 1..n : list[i].key \in KeysOf(out)
    BY <1>10, <2>1
  <2> QED
    BY <2>1, <2>2, <2>3
<1>15. Says(list, out) /\ Says(out, list)
  BY <1>7, <1>10, <1>11 DEF Says, n
<1>13. Follows(out, n, ByClass(layers))
  <2> SUFFICES ASSUME NEW i \in 1..n, NEW j \in 1..n, i < j
               PROVE  <<out[i], out[j]>> \in ByClass(layers)
    BY DEF Follows
  <2>1. GetParameterOrdering(layers, sort[i]) <= GetParameterOrdering(layers, sort[j])
    BY <1>3 DEF Follows, ByClass
  <2>2. \A k \in 1..n : GetParameterOrdering(layers, out[k]) = GetParameterOrdering(layers, sort[k])
    BY <1>6, SameOrdering
  <2> QED
    BY <1>6, <2>1, <2>2 DEF ByClass
<1>14. Overridden(out) = Overridden(sort)
  BY <1>2, <1>6, <1>7, SameNames
<1> QED
  BY <1>2, <1>6, <1>7, <1>8, <1>9, <1>12, <1>13, <1>14, <1>15 DEF out, sort, n

LEMMA OnlyOneEach ==
    ASSUME NEW S, NEW list \in Seq(S), NEW kept, OneEach(list)
    PROVE  OneEach(Only(list, kept))
<1>1. PICK place : Shows(Only(list, kept), place, list, kept)
  BY OnlyShows
<1> DEFINE some == Only(list, kept)
<1>2. some \in Seq(S)
  BY OnlyShows
<1> HIDE DEF some
<1>3. /\ place \in [1..Len(some) -> 1..Len(list)]
      /\ \A i, j \in 1..Len(some) : i < j => place[i] < place[j]
      /\ \A i \in 1..Len(some) : some[i] = list[place[i]]
  BY <1>1 DEF Shows, ShowsUpTo, some
<1>4. ASSUME NEW i \in 1..Len(some), NEW j \in 1..Len(some), some[i].key = some[j].key
      PROVE  i = j
  <2>1. place[i] = place[j] /\ place[i] \in 1..Len(list) /\ place[j] \in 1..Len(list)
    BY <1>3, <1>4 DEF OneEach
  <2>2. ~(i < j) /\ ~(j < i)
    BY <1>3, <2>1
  <2> QED
    BY <1>2, <2>2
<1>5. OneEach(some)
  BY <1>4 DEF OneEach
<1> QED
  BY <1>5 DEF some

\* Parameters for the layers that have none.
LEMMA NewOfAbsent ==
    ASSUME NEW list \in Seq(Params), NEW layers \in Catalogs, NEW implicit \in BOOLEAN
    PROVE  LET new == New(Absent(list, layers, implicit))
           IN /\ new \in Seq(Params) /\ OneEach(new)
              /\ \A n \in 1..Len(new) :
                    /\ new[n].state = "app" /\ new[n].key \notin KeysOf(list)
                    /\ \E m \in 1..Len(layers) : /\ layers[m].key = new[n].key
                                                 /\ (layers[m].type = "implicit") = implicit
              /\ \A m \in 1..Len(layers) :
                    /\ (layers[m].type = "implicit") = implicit
                    /\ layers[m].key \notin KeysOf(list)
                    => \E n \in 1..Len(new) : new[n].key = layers[m].key
<1> DEFINE kept == {layer \in Range(layers) : /\ (layer.type = "implicit") = implicit
                                              /\ layer.key \notin KeysOf(list)}
           some == Absent(list, layers, implicit)
           new == New(some)
<1>1. layers \in Seq(Layers) /\ OneEach(layers) /\ DOMAIN layers = 1..Len(layers)
  BY DEF Catalogs
<1>2. some = Only(layers, kept)
  BY DEF Absent
<1> HIDE DEF some
<1>3. some \in Seq(Layers) /\ Range(some) = Range(layers) \cap kept /\ OneEach(some)
  <2> HIDE DEF kept
  <2> QED
    BY <1>1, <1>2, OnlyHolds, OnlyOneEach
<1>4. DOMAIN some = 1..Len(some) /\ Len(some) \in Nat /\ \A n \in 1..Len(some) : some[n] \in Layers
  BY <1>3
<1>5. \A n \in 1..Len(some) : some[n] \in kept
  BY <1>3, <1>4 DEF Range
<1>6. \A m \in 1..Len(layers) : layers[m] \in kept => \E n \in 1..Len(some) : some[n] = layers[m]
  <2> SUFFICES ASSUME NEW m \in 1..Len(layers), layers[m] \in kept
               PROVE  \E n \in 1..Len(some) : some[n] = layers[m]
    OBVIOUS
  <2>1. layers[m] \in Range(layers)
    BY <1>1 DEF Range
  <2>2. layers[m] \in Range(some)
    BY <1>3, <2>1
  <2> QED
    BY <1>4, <2>2 DEF Range
<1>7. new = [n \in 1..Len(some) |-> [key |-> some[n].key, state |-> "app",
                                      rank |-> NO_RANK, here |-> TRUE]]
  BY <1>4 DEF New, Parameter
<1> HIDE DEF new
<1>8. \A n \in 1..Len(some) : /\ new[n] \in Params /\ new[n].key = some[n].key
                              /\ new[n].state = "app"
  BY <1>4, <1>7 DEF Params, Layers, States
<1>9. new \in Seq(Params) /\ Len(new) = Len(some)
  <2>1. new \in [1..Len(some) -> Params]
    BY <1>7, <1>8
  <2>2. \A m \in Nat : \A f \in [1..m -> Params] : f \in Seq(Params) /\ Len(f) = m
    OBVIOUS
  <2> QED
    BY <1>4, <2>1, <2>2
<1>10. OneEach(new)
  BY <1>3, <1>8, <1>9 DEF OneEach
<1>11. ASSUME NEW n \in 1..Len(new)
       PROVE  /\ new[n].state = "app" /\ new[n].key \notin KeysOf(list)
              /\ \E m \in 1..Len(layers) : /\ layers[m].key = new[n].key
                                           /\ (layers[m].type = "implicit") = implicit
  <2>1. /\ new[n].key = some[n].key /\ new[n].state = "app" /\ some[n] \in kept
    BY <1>5, <1>8, <1>9
  <2>2. PICK m \in 1..Len(layers) : layers[m] = some[n]
    BY <1>1, <2>1 DEF Range
  <2> QED
    BY <2>1, <2>2
<1>12. ASSUME NEW m \in 1..Len(layers), (layers[m].type = "implicit") = implicit,
              layers[m].key \notin KeysOf(list)
       PROVE  \E n \in 1..Len(new) : new[n].key = layers[m].key
  <2>1. layers[m] \in kept
    BY <1>1, <1>12 DEF Range
  <2>2. PICK n \in 1..Len(some) : some[n] = layers[m]
    BY <1>6, <2>1
  <2> QED
    BY <1>8, <1>9, <2>2
<1> QED
  BY <1>9, <1>10, <1>11, <1>12 DEF new, some

\* Three lists after each other.
AfterEachOther(all, a, b, c) ==
    /\ \A i \in 1..Len(all) :
          \/ \E j \in 1..Len(a) : i = j /\ all[i] = a[j]
          \/ \E j \in 1..Len(b) : i = Len(a) + j /\ all[i] = b[j]
          \/ \E j \in 1..Len(c) : i = Len(a) + Len(b) + j /\ all[i] = c[j]
    /\ \A j \in 1..Len(a) : \E i \in 1..Len(all) : all[i] = a[j]
    /\ \A j \in 1..Len(b) : \E i \in 1..Len(all) : all[i] = b[j]
    /\ \A j \in 1..Len(c) : \E i \in 1..Len(all) : all[i] = c[j]

LEMMA JoinedThree ==
    ASSUME NEW S, NEW a \in Seq(S), NEW b \in Seq(S), NEW c \in Seq(S)
    PROVE  a \o b \o c \in Seq(S) /\ AfterEachOther(a \o b \o c, a, b, c)
<1> DEFINE ab == a \o b
           abc == ab \o c
           l == Len(a)
           m == Len(b)
           n == Len(c)
<1>1. l \in Nat /\ m \in Nat /\ n \in Nat
  OBVIOUS
<1>2. /\ ab \in Seq(S) /\ Len(ab) = l + m
      /\ \A j \in 1..l : ab[j] = a[j]
      /\ \A j \in 1..m : ab[l + j] = b[j]
  BY Joined
<1> HIDE DEF ab
<1>3. /\ abc \in Seq(S) /\ Len(abc) = l + m + n
      /\ \A j \in 1..(l + m) : abc[j] = ab[j]
      /\ \A j \in 1..n : abc[l + m + j] = c[j]
  <2>1. /\ abc \in Seq(S) /\ Len(abc) = Len(ab) + Len(c)
        /\ \A i \in 1..Len(ab) : abc[i] = ab[i]
        /\ \A i \in 1..Len(c) : abc[Len(ab) + i] = c[i]
    <3>1. ab \in Seq(S) /\ c \in Seq(S)
      BY <1>2
    <3>2. \A x, y \in Seq(S) :
             /\ x \o y \in Seq(S) /\ Len(x \o y) = Len(x) + Len(y)
             /\ \A i \in 1..Len(x) : (x \o y)[i] = x[i]
             /\ \A i \in 1..Len(y) : (x \o y)[Len(x) + i] = y[i]
      BY Joined
    <3> QED
      BY <3>1, <3>2, Zenon
  <2> HIDE DEF abc
  <2> QED
    BY <1>1, <1>2, <2>1
<1> HIDE DEF abc, l, m, n
<1>4. \A j \in 1..l : j \in 1..(l + m + n) /\ j \in 1..(l + m) /\ abc[j] = a[j]
  BY <1>1, <1>2, <1>3
<1>5. \A j \in 1..m : l + j \in 1..(l + m + n) /\ l + j \in 1..(l + m) /\ abc[l + j] = b[j]
  <2> SUFFICES ASSUME NEW j \in 1..m
               PROVE  l + j \in 1..(l + m + n) /\ l + j \in 1..(l + m) /\ abc[l + j] = b[j]
    OBVIOUS
  <2>1. l + j \in 1..(l + m + n) /\ l + j \in 1..(l + m)
    BY <1>1
  <2> QED
    BY <1>2, <1>3, <2>1
<1>6. \A j \in 1..n : l + m + j \in 1..(l + m + n) /\ abc[l + m + j] = c[j]
  BY <1>1, <1>3
<1>7. ASSUME NEW i \in 1..(l + m + n)
      PROVE  \/ \E j \in 1..l : i = j /\ abc[i] = a[j]
             \/ \E j \in 1..m : i = l + j /\ abc[i] = b[j]
             \/ \E j \in 1..n : i = l + m + j /\ abc[i] = c[j]
  <2>1. CASE i \in 1..l
    BY <1>4, <2>1
  <2>2. CASE i > l /\ i <= l + m
    <3>1. i - l \in 1..m /\ i = l + (i - l)
      BY <1>1, <2>2
    <3> QED
      BY <1>5, <3>1
  <2>3. CASE i > l + m
    <3>1. i - (l + m) \in 1..n /\ i = l + m + (i - (l + m))
      BY <1>1, <2>3
    <3> QED
      BY <1>6, <3>1
  <2> QED
    BY <1>1, <2>1, <2>2, <2>3
<1>8. a \o b \o c = abc
  BY DEF abc, ab
<1> QED
  BY <1>3, <1>4, <1>5, <1>6, <1>7, <1>8 DEF l, m, n, AfterEachOther

\* The list that BuildParameters orders.
Completed(list, layers) ==
    New(Absent(list, layers, TRUE)) \o list \o New(Absent(list, layers, FALSE))

LEMMA Completes ==
    ASSUME NEW list \in Seq(Params), OneEach(list), NEW layers \in Catalogs
    PROVE  LET all == Completed(list, layers)
           IN /\ all \in Seq(Params) /\ OneEach(all)
              /\ \A i \in 1..Len(all) : \/ all[i].state = "app"
                                        \/ \E j \in 1..Len(list) : all[i] = list[j]
              /\ \A j \in 1..Len(list) : \E i \in 1..Len(all) : all[i] = list[j]
              /\ \A m \in 1..Len(layers) : layers[m].key \in KeysOf(all)
              /\ KeysOf(list) \subseteq KeysOf(all)
<1> DEFINE a == New(Absent(list, layers, TRUE))
           c == New(Absent(list, layers, FALSE))
           all == a \o list \o c
<1>1. /\ a \in Seq(Params) /\ OneEach(a)
      /\ \A n \in 1..Len(a) :
            /\ a[n].state = "app" /\ a[n].key \notin KeysOf(list)
            /\ \E m \in 1..Len(layers) : /\ layers[m].key = a[n].key
                                         /\ (layers[m].type = "implicit") = TRUE
      /\ \A m \in 1..Len(layers) :
            /\ (layers[m].type = "implicit") = TRUE
            /\ layers[m].key \notin KeysOf(list)
            => \E n \in 1..Len(a) : a[n].key = layers[m].key
  BY NewOfAbsent
<1>2. /\ c \in Seq(Params) /\ OneEach(c)
      /\ \A n \in 1..Len(c) :
            /\ c[n].state = "app" /\ c[n].key \notin KeysOf(list)
            /\ \E m \in 1..Len(layers) : /\ layers[m].key = c[n].key
                                         /\ (layers[m].type = "implicit") = FALSE
      /\ \A m \in 1..Len(layers) :
            /\ (layers[m].type = "implicit") = FALSE
            /\ layers[m].key \notin KeysOf(list)
            => \E n \in 1..Len(c) : c[n].key = layers[m].key
  BY NewOfAbsent
<1>3. OneEach(layers)
  BY DEF Catalogs
<1>4. DOMAIN list = 1..Len(list)
  OBVIOUS
<1> HIDE DEF a, c
<1>5. /\ all \in Seq(Params)
      /\ \A i \in 1..Len(all) :
            \/ \E j \in 1..Len(a) : i = j /\ all[i] = a[j]
            \/ \E j \in 1..Len(list) : i = Len(a) + j /\ all[i] = list[j]
            \/ \E j \in 1..Len(c) : i = Len(a) + Len(list) + j /\ all[i] = c[j]
      /\ \A j \in 1..Len(a) : \E i \in 1..Len(all) : all[i] = a[j]
      /\ \A j \in 1..Len(list) : \E i \in 1..Len(all) : all[i] = list[j]
      /\ \A j \in 1..Len(c) : \E i \in 1..Len(all) : all[i] = c[j]
  <2>1. all \in Seq(Params) /\ AfterEachOther(all, a, list, c)
    BY <1>1, <1>2, JoinedThree
  <2> HIDE DEF all
  <2> QED
    BY <2>1 DEF AfterEachOther
<1> HIDE DEF all
<1>6. \A i \in 1..Len(a), j \in 1..Len(c) : a[i].key # c[j].key
  <2> SUFFICES ASSUME NEW i \in 1..Len(a), NEW j \in 1..Len(c), a[i].key = c[j].key
               PROVE  FALSE
    OBVIOUS
  <2>1. PICK m \in 1..Len(layers) : layers[m].key = a[i].key /\ layers[m].type = "implicit"
    BY <1>1
  <2>2. PICK n \in 1..Len(layers) : layers[n].key = c[j].key /\ layers[n].type # "implicit"
    BY <1>2
  <2>3. m = n
    BY <1>3, <2>1, <2>2 DEF OneEach
  <2> QED
    BY <2>1, <2>2, <2>3
<1>7. \A j \in 1..Len(list) : list[j].key \in KeysOf(list)
  BY <1>4 DEF KeysOf
<1>8. ASSUME NEW i \in 1..Len(all), NEW j \in 1..Len(all), all[i].key = all[j].key
      PROVE  i = j
  <2>1. CASE \E k \in 1..Len(a) : i = k /\ all[i] = a[k]
    <3>1. PICK k \in 1..Len(a) : i = k /\ all[i] = a[k]
      BY <2>1
    <3>2. a[k].key \notin KeysOf(list) /\ \A l \in 1..Len(c) : a[k].key # c[l].key
      BY <1>1, <1>6
    <3>3. PICK l \in 1..Len(a) : j = l /\ all[j] = a[l]
      <4>1. ~\E l \in 1..Len(list) : all[j] = list[l]
        BY <1>7, <1>8, <3>1, <3>2
      <4>2. ~\E l \in 1..Len(c) : all[j] = c[l]
        BY <1>8, <3>1, <3>2
      <4> QED
        BY <1>5, <4>1, <4>2
    <3> QED
      BY <1>1, <1>8, <3>1, <3>3 DEF OneEach
  <2>2. CASE \E k \in 1..Len(list) : i = Len(a) + k /\ all[i] = list[k]
    <3>1. PICK k \in 1..Len(list) : i = Len(a) + k /\ all[i] = list[k]
      BY <2>2
    <3>2. list[k].key \in KeysOf(list)
      BY <1>7
    <3>3. PICK l \in 1..Len(list) : j = Len(a) + l /\ all[j] = list[l]
      <4>1. ~\E l \in 1..Len(a) : all[j] = a[l]
        BY <1>1, <1>8, <3>1, <3>2
      <4>2. ~\E l \in 1..Len(c) : all[j] = c[l]
        BY <1>2, <1>8, <3>1, <3>2
      <4> QED
        BY <1>5, <4>1, <4>2
    <3> QED
      BY <1>8, <3>1, <3>3 DEF OneEach
  <2>3. CASE \E k \in 1..Len(c) : i = Len(a) + Len(list) + k /\ all[i] = c[k]
    <3>1. PICK k \in 1..Len(c) : i = Len(a) + Len(list) + k /\ all[i] = c[k]
      BY <2>3
    <3>2. c[k].key \notin KeysOf(list) /\ \A l \in 1..Len(a) : a[l].key # c[k].key
      BY <1>2, <1>6
    <3>3. PICK l \in 1..Len(c) : j = Len(a) + Len(list) + l /\ all[j] = c[l]
      <4>1. ~\E l \in 1..Len(list) : all[j] = list[l]
        BY <1>7, <1>8, <3>1, <3>2
      <4>2. ~\E l \in 1..Len(a) : all[j] = a[l]
        BY <1>8, <3>1, <3>2
      <4> QED
        BY <1>5, <4>1, <4>2
    <3> QED
      BY <1>2, <1>8, <3>1, <3>3 DEF OneEach
  <2> QED
    BY <1>5, <2>1, <2>2, <2>3
<1>9. DOMAIN all = 1..Len(all) /\ \A i \in 1..Len(all) : all[i].key \in KeysOf(all)
  <2>1. DOMAIN all = 1..Len(all)
    BY <1>5
  <2> QED
    BY <2>1 DEF KeysOf
<1>10. KeysOf(list) \subseteq KeysOf(all)
  <2>1. \A j \in 1..Len(list) : list[j].key \in KeysOf(all)
    BY <1>5, <1>9
  <2>2. KeysOf(list) = {list[j].key : j \in 1..Len(list)}
    BY <1>4 DEF KeysOf
  <2> QED
    BY <2>1, <2>2
<1>11. ASSUME NEW m \in 1..Len(layers)
       PROVE  layers[m].key \in KeysOf(all)
  <2>1. CASE layers[m].key \in KeysOf(list)
    BY <1>10, <2>1
  <2>2. CASE layers[m].key \notin KeysOf(list) /\ layers[m].type = "implicit"
    <3>1. PICK n \in 1..Len(a) : a[n].key = layers[m].key
      BY <1>1, <2>2
    <3>2. PICK i \in 1..Len(all) : all[i] = a[n]
      BY <1>5
    <3> QED
      BY <1>9, <3>1, <3>2
  <2>3. CASE layers[m].key \notin KeysOf(list) /\ layers[m].type # "implicit"
    <3>1. PICK n \in 1..Len(c) : c[n].key = layers[m].key
      BY <1>2, <2>3
    <3>2. PICK i \in 1..Len(all) : all[i] = c[n]
      BY <1>5
    <3> QED
      BY <1>9, <3>1, <3>2
  <2> QED
    BY <2>1, <2>2, <2>3
<1>12. \A i \in 1..Len(all) : all[i].state = "app" \/ \E j \in 1..Len(list) : all[i] = list[j]
  <2> SUFFICES ASSUME NEW i \in 1..Len(all)
               PROVE  all[i].state = "app" \/ \E j \in 1..Len(list) : all[i] = list[j]
    OBVIOUS
  <2>1. CASE \E j \in 1..Len(a) : all[i] = a[j]
    BY <1>1, <2>1
  <2>2. CASE \E j \in 1..Len(c) : all[i] = c[j]
    BY <1>2, <2>2
  <2> QED
    BY <1>5, <2>1, <2>2
<1>13. OneEach(all)
  BY <1>8 DEF OneEach
<1>14. all = Completed(list, layers)
  BY DEF all, a, c, Completed
<1> QED
  BY <1>5, <1>10, <1>11, <1>12, <1>13, <1>14

\* What BuildParameters gives.
LEMMA Builds ==
    ASSUME NEW list \in Seq(Params), OneEach(list), NEW layers \in Catalogs
    PROVE  LET out == BuildParameters(list, layers)
           IN /\ out = OrderParameter(Completed(list, layers), layers)
              /\ out \in Seq(Params) /\ OneEach(out) /\ IsOrdered(out)
              /\ KeysOf(layers) \subseteq KeysOf(out)
              /\ Follows(out, Len(out), ByClass(layers))
              /\ \A key : StateOf(out, key) = StateOf(list, key)
<1> DEFINE all == Completed(list, layers)
           out == BuildParameters(list, layers)
<1>1. /\ all \in Seq(Params) /\ OneEach(all)
      /\ \A i \in 1..Len(all) : \/ all[i].state = "app"
                                \/ \E j \in 1..Len(list) : all[i] = list[j]
      /\ \A j \in 1..Len(list) : \E i \in 1..Len(all) : all[i] = list[j]
      /\ \A m \in 1..Len(layers) : layers[m].key \in KeysOf(all)
  BY Completes
<1>2. out = OrderParameter(all, layers)
  BY DEF BuildParameters, Completed
<1> HIDE DEF all, out
<1>3. /\ out \in Seq(Params) /\ OneEach(out) /\ IsOrdered(out) /\ Says(all, out) /\ Says(out, all)
      /\ KeysOf(out) = KeysOf(all)
      /\ Follows(out, Len(out), ByClass(layers))
  BY <1>1, <1>2, Orders
<1>4. Says(all, list) /\ Says(list, all)
  BY <1>1 DEF Says
<1>5. \A key : StateOf(all, key) = StateOf(list, key)
  BY <1>1, <1>4, SameStates
<1>6. \A key : StateOf(out, key) = StateOf(all, key)
  BY <1>1, <1>3, SameStates
<1>7. KeysOf(layers) \subseteq KeysOf(out)
  <2>1. layers \in Seq(Layers)
    BY DEF Catalogs
  <2>2. DOMAIN layers = 1..Len(layers)
    BY <2>1
  <2> QED
    BY <1>1, <1>3, <2>2 DEF KeysOf
<1> QED
  BY <1>2, <1>3, <1>5, <1>6, <1>7 DEF all, out

\* A list whose parameters are changed in place.
LEMMA Remade ==
    ASSUME NEW list \in Seq(Params), OneEach(list), NEW out, DOMAIN out = DOMAIN list,
           out = [n \in DOMAIN list |-> out[n]],
           \A n \in 1..Len(list) : out[n] \in Params /\ out[n].key = list[n].key
    PROVE  /\ out \in Seq(Params) /\ Len(out) = Len(list) /\ OneEach(out)
           /\ KeysOf(out) = KeysOf(list)
           /\ \A n \in 1..Len(list) : StateOf(out, list[n].key) = out[n].state
           /\ \A key : key \notin KeysOf(list) => StateOf(out, key) = "app"
<1>1. DOMAIN list = 1..Len(list) /\ Len(list) \in Nat
  OBVIOUS
<1>2. out \in Seq(Params) /\ Len(out) = Len(list)
  <2>1. out \in [1..Len(list) -> Params]
    BY <1>1
  <2>2. \A m \in Nat : \A f \in [1..m -> Params] : f \in Seq(Params) /\ Len(f) = m
    OBVIOUS
  <2> QED
    BY <1>1, <2>1, <2>2
<1>3. OneEach(out)
  BY <1>2 DEF OneEach
<1>4. KeysOf(out) = KeysOf(list)
  <2>1. KeysOf(out) = {out[n].key : n \in 1..Len(list)} /\ KeysOf(list) = {list[n].key : n \in 1..Len(list)}
    BY <1>1 DEF KeysOf
  <2>2. \A n \in 1..Len(list) : out[n].key = list[n].key
    OBVIOUS
  <2>3. \A n \in 1..Len(list) : out[n].key \in {list[m].key : m \in 1..Len(list)}
    BY <2>2
  <2>4. \A n \in 1..Len(list) : list[n].key \in {out[m].key : m \in 1..Len(list)}
    BY <2>2
  <2>5. \A x \in KeysOf(out) : x \in KeysOf(list)
    BY <2>1, <2>3
  <2>6. \A x \in KeysOf(list) : x \in KeysOf(out)
    BY <2>1, <2>4
  <2> QED
    BY <2>5, <2>6
<1>5. /\ \A n \in 1..Len(list) : StateOf(out, out[n].key) = out[n].state
      /\ \A key : key \notin KeysOf(out) => StateOf(out, key) = "app"
  BY <1>2, <1>3, StateOfEach
<1> QED
  BY <1>2, <1>3, <1>4, <1>5

\* The state of a layer is a state.
LEMMA StateOfType ==
    ASSUME NEW list \in Seq(Params), OneEach(list), NEW key
    PROVE  StateOf(list, key) \in States
<1>1. /\ \A n \in 1..Len(list) : StateOf(list, list[n].key) = list[n].state
      /\ key \notin KeysOf(list) => StateOf(list, key) = "app"
      /\ key \in KeysOf(list) => \E n \in 1..Len(list) : key = list[n].key
  BY StateOfEach
<1>2. \A n \in 1..Len(list) : list[n].state \in States
  <2>1. \A p \in Params : p.state \in States
    BY DEF Params
  <2> QED
    BY <2>1
<1> QED
  BY <1>1, <1>2 DEF States

\* device_simulation is the last of the overridden layers.
DevsimEnds(list) ==
    StateOf(list, Devsim) = "overridden" => Last(Overridden(list)) = Devsim

LEMMA OrdersDevsim ==
    ASSUME NEW layers, DevsimExplicit(layers), NEW list \in Seq(Params), OneEach(list),
           DevsimRanked(list)
    PROVE  DevsimRanked(OrderParameter(list, layers)) /\ DevsimEnds(OrderParameter(list, layers))
<1> DEFINE out == OrderParameter(list, layers)
           sort == Sorted(layers, list)
           n == Len(list)
<1>1. /\ out \in Seq(Params) /\ Len(out) = n /\ OneEach(out) /\ IsOrdered(out)
      /\ \A i \in 1..n : out[i].key = sort[i].key /\ out[i].state = sort[i].state
  BY Orders
<1>2. Follows(sort, n, DevsimBehind(layers))
  BY SortsDevsimBehind
<1> HIDE DEF out, sort
<1>3. \A i, j \in 1..n : i < j /\ out[i].key = Devsim /\ out[i].state = "overridden"
                         => out[j].state # "overridden"
  <2> SUFFICES ASSUME NEW i \in 1..n, NEW j \in 1..n, i < j,
                      out[i].key = Devsim, out[i].state = "overridden"
               PROVE  out[j].state # "overridden"
    OBVIOUS
  <2>1. <<sort[i], sort[j]>> \in DevsimBehind(layers)
    BY <1>2 DEF Follows
  <2>2. sort[i].key = Devsim /\ sort[i].state = "overridden" /\ sort[j].state = out[j].state
    BY <1>1
  <2> QED
    BY <2>1, <2>2 DEF DevsimBehind
<1>4. n \in Nat /\ DOMAIN out = 1..n
  BY <1>1
<1>5. DevsimRanked(out)
  <2> SUFFICES ASSUME NEW i \in 1..n, NEW j \in 1..n, out[i].key = Devsim,
                      out[i].state = "overridden", out[j].key # Devsim, out[j].state = "overridden"
               PROVE  out[j].rank < out[i].rank
    BY <1>4 DEF DevsimRanked, Range
  <2>1. out[i].rank = i - 1 /\ out[j].rank = j - 1
    BY <1>1, <1>4 DEF IsOrdered
  <2>2. ~(i < j) /\ i # j
    BY <1>3
  <2> QED
    BY <2>1, <2>2
<1>6. ASSUME StateOf(out, Devsim) = "overridden"
      PROVE  Last(Overridden(out)) = Devsim
  <2>1. PICK i \in 1..n : out[i].key = Devsim /\ out[i].state = "overridden"
    <3>1. /\ \A m \in 1..n : StateOf(out, out[m].key) = out[m].state
          /\ Devsim \notin KeysOf(out) => StateOf(out, Devsim) = "app"
          /\ Devsim \in KeysOf(out) => \E m \in 1..n : Devsim = out[m].key
      BY <1>1, StateOfEach
    <3> QED
      BY <1>6, <3>1
  <2> DEFINE keys == Overridden(out)
             l == Len(keys)
  <2>2. keys \in Seq({p.key : p \in Range(out)}) /\ \E place : Names(keys, place, out)
    BY <1>1, OverriddenNames
  <2>3. PICK place : Names(keys, place, out)
    BY <2>2
  <2> HIDE DEF keys
  <2>4. /\ l \in Nat /\ place \in [1..l -> 1..n]
        /\ \A j, k \in 1..l : j < k => place[j] < place[k]
        /\ \A k \in 1..l : keys[k] = out[place[k]].key /\ out[place[k]].state = "overridden"
        /\ \A k \in 1..n : out[k].state = "overridden" => \E m \in 1..l : place[m] = k
    BY <1>1, <2>2, <2>3 DEF Names
  <2>5. PICK m \in 1..l : place[m] = i
    BY <2>1, <2>4
  <2>6. m = l
    <3> SUFFICES ASSUME m < l PROVE FALSE
      BY <2>4
    <3>1. l \in 1..l /\ place[m] < place[l] /\ place[l] \in 1..n
      BY <2>4
    <3> QED
      BY <1>3, <2>1, <2>4, <2>5, <3>1
  <2>7. keys[l] = Devsim
    BY <2>1, <2>4, <2>5, <2>6
  <2> QED
    BY <2>7 DEF Last, keys
<1> QED
  BY <1>5, <1>6 DEF DevsimEnds, out

\* Places of overridden layers grow along a list.
RanksGrow(list) ==
    /\ \A i \in 1..Len(list) : list[i].state = "overridden" => list[i].rank \in Nat
    /\ \A i, j \in 1..Len(list) :
          i < j /\ list[i].state = "overridden" /\ list[j].state = "overridden"
          => list[i].rank < list[j].rank

LEMMA OrderedGrow ==
    ASSUME NEW S, NEW list \in Seq(S), IsOrdered(list)
    PROVE  RanksGrow(list)
<1>1. DOMAIN list = 1..Len(list)
  OBVIOUS
<1>2. \A i \in 1..Len(list) : list[i].state = "overridden" => list[i].rank = i - 1
  BY <1>1 DEF IsOrdered
<1> QED
  BY <1>2 DEF RanksGrow

\* What the configuration keeps of the dialog's copy.
LEMMA Filters ==
    ASSUME NEW list \in Seq(Params), OneEach(list)
    PROVE  LET out == FilterParameters(list, "app")
           IN /\ out \in Seq(Params) /\ OneEach(out) /\ \A p \in Range(out) : p.state # "app"
              /\ Range(out) \subseteq Range(list)
              /\ Overridden(out) = Overridden(list)
              /\ \A key : StateOf(out, key) = StateOf(list, key)
              /\ \A R : Follows(list, Len(list), R) => Follows(out, Len(out), R)
              /\ RanksGrow(list) => RanksGrow(out)
<1> DEFINE kept == {p \in Range(list) : p.state # "app"}
           out == Only(list, kept)
           m == Len(out)
           n == Len(list)
<1>1. FilterParameters(list, "app") = out
  BY DEF FilterParameters
<1>2. \A i \in 1..n : list[i] \in Range(list)
  BY DEF Range
<1>3. \A i \in 1..n : list[i] \in kept <=> list[i].state # "app"
  BY <1>2
<1>4. \A p \in kept : p.state # "app"
  OBVIOUS
<1> HIDE DEF kept
<1>5. out \in Seq(Params) /\ Range(out) = Range(list) \cap kept /\ OneEach(out)
  BY OnlyHolds, OnlyOneEach
<1>6. Overridden(out) = Overridden(list)
  <2>1. \A i \in 1..n : list[i].state = "overridden" => list[i] \in kept
    BY <1>3
  <2> QED
    BY <2>1, OverriddenOfOnly
<1>7. PICK place : Shows(out, place, list, kept)
  BY OnlyShows
<1> HIDE DEF out
<1>8. /\ m \in Nat /\ n \in Nat
      /\ place \in [1..m -> 1..n]
      /\ \A i, j \in 1..m : i < j => place[i] < place[j]
      /\ \A i \in 1..m : out[i] = list[place[i]]
      /\ \A k \in 1..n : list[k] \in kept => \E i \in 1..m : place[i] = k
  BY <1>5, <1>7 DEF Shows, ShowsUpTo
<1> HIDE DEF m, n
<1>9. ASSUME NEW key
      PROVE  StateOf(out, key) = StateOf(list, key)
  <2>1. Says(out, list)
    BY <1>8 DEF Says, m, n
  <2>2. Says(list, out)
    <3> SUFFICES ASSUME NEW k \in 1..n, list[k].state # "app"
                 PROVE  \E i \in 1..m : out[i].key = list[k].key /\ out[i].state = list[k].state
      BY DEF Says, m, n
    <3>1. PICK i \in 1..m : place[i] = k
      BY <1>3, <1>8
    <3> QED
      BY <1>8, <3>1
  <2> QED
    BY <1>5, <2>1, <2>2, SameStates
<1>10. ASSUME NEW R, Follows(list, n, R)
       PROVE  Follows(out, m, R)
  <2> SUFFICES ASSUME NEW i \in 1..m, NEW j \in 1..m, i < j PROVE <<out[i], out[j]>> \in R
    BY DEF Follows
  <2>1. place[i] \in 1..n /\ place[j] \in 1..n /\ place[i] < place[j]
    BY <1>8
  <2> QED
    BY <1>8, <1>10, <2>1 DEF Follows
<1>11. ASSUME RanksGrow(list)
       PROVE  RanksGrow(out)
  <2>1. ASSUME NEW i \in 1..m, out[i].state = "overridden"
        PROVE  out[i].rank \in Nat
    <3>1. place[i] \in 1..n /\ out[i] = list[place[i]]
      BY <1>8
    <3> QED
      BY <1>11, <2>1, <3>1 DEF RanksGrow, n
  <2>2. ASSUME NEW i \in 1..m, NEW j \in 1..m, i < j,
               out[i].state = "overridden", out[j].state = "overridden"
        PROVE  out[i].rank < out[j].rank
    <3>1. /\ place[i] \in 1..n /\ place[j] \in 1..n /\ place[i] < place[j]
          /\ out[i] = list[place[i]] /\ out[j] = list[place[j]]
      BY <1>8, <2>2
    <3> QED
      BY <1>11, <2>2, <3>1 DEF RanksGrow, n
  <2> QED
    BY <2>1, <2>2 DEF RanksGrow, m
<1> QED
  BY <1>1, <1>4, <1>5, <1>6, <1>9, <1>10, <1>11 DEF m, n

(***************************************************************************)
(* What the clicks make of a list.                                         *)
(***************************************************************************)

LEMMA SetsState ==
    ASSUME NEW list \in Seq(Params), OneEach(list), NEW key \in KeysOf(list), NEW state \in States
    PROVE  LET out == SetState(list, key, state)
           IN /\ out \in Seq(Params) /\ OneEach(out) /\ KeysOf(out) = KeysOf(list)
              /\ \A k : StateOf(out, k) = IF k = key THEN state ELSE StateOf(list, k)
              /\ DevsimRanked(list) => DevsimRanked(out)
<1> DEFINE out == SetState(list, key, state)
<1>1. DOMAIN list = 1..Len(list)
  OBVIOUS
<1>2. out = [n \in DOMAIN list |-> IF list[n].key = key
                                   THEN [list[n] EXCEPT !.state = state, !.rank = NO_RANK]
                                   ELSE list[n]]
  BY DEF SetState
<1>3. out = [n \in DOMAIN list |-> out[n]] /\ DOMAIN out = DOMAIN list
  BY <1>2
<1> HIDE DEF out
<1>4. ASSUME NEW n \in 1..Len(list)
      PROVE  /\ out[n] \in Params /\ out[n].key = list[n].key
             /\ out[n].state = IF list[n].key = key THEN state ELSE list[n].state
             /\ out[n].rank = IF list[n].key = key THEN NO_RANK ELSE list[n].rank
  <2>1. list[n] \in Params
    OBVIOUS
  <2>2. CASE list[n].key = key
    <3>1. out[n] = [list[n] EXCEPT !.state = state, !.rank = NO_RANK]
      BY <1>1, <1>2, <2>2
    <3> QED
      BY <2>1, <2>2, <3>1 DEF Params
  <2>3. CASE list[n].key # key
    BY <1>1, <1>2, <2>1, <2>3
  <2> QED
    BY <2>2, <2>3
<1>5. /\ out \in Seq(Params) /\ Len(out) = Len(list) /\ OneEach(out)
      /\ KeysOf(out) = KeysOf(list)
      /\ \A n \in 1..Len(list) : StateOf(out, list[n].key) = out[n].state
      /\ \A k : k \notin KeysOf(list) => StateOf(out, k) = "app"
  BY <1>3, <1>4, Remade
<1>6. /\ \A n \in 1..Len(list) : StateOf(list, list[n].key) = list[n].state
      /\ \A k : k \notin KeysOf(list) => StateOf(list, k) = "app"
      /\ \A k \in KeysOf(list) : \E n \in 1..Len(list) : k = list[n].key
  BY StateOfEach
<1>7. ASSUME NEW k
      PROVE  StateOf(out, k) = IF k = key THEN state ELSE StateOf(list, k)
  <2>1. CASE k \in KeysOf(list)
    <3>1. PICK n \in 1..Len(list) : k = list[n].key
      BY <1>6, <2>1
    <3> QED
      BY <1>4, <1>5, <1>6, <3>1
  <2>2. CASE k \notin KeysOf(list)
    BY <1>5, <1>6, <2>2
  <2> QED
    BY <2>1, <2>2
<1>8. ASSUME DevsimRanked(list)
      PROVE  DevsimRanked(out)
  <2> SUFFICES ASSUME NEW i \in 1..Len(list), NEW j \in 1..Len(list),
                      out[i].key = Devsim, out[i].state = "overridden",
                      out[j].key # Devsim, out[j].state = "overridden",
                      out[i].rank # NO_RANK, out[j].rank # NO_RANK
               PROVE  out[j].rank < out[i].rank
    BY <1>1, <1>3 DEF DevsimRanked, Range
  <2>1. list[i].key # key /\ list[j].key # key
    BY <1>4
  <2>2. list[i] \in Range(list) /\ list[j] \in Range(list)
    BY <1>1 DEF Range
  <2> QED
    BY <1>4, <1>8, <2>1, <2>2 DEF DevsimRanked
<1> QED
  BY <1>5, <1>7, <1>8 DEF out

LEMMA SwapsRanks ==
    ASSUME NEW list \in Seq(Params), OneEach(list), NEW u \in 1..Len(list), NEW l \in 1..Len(list),
           u # l, list[u].state = "overridden", list[l].state = "overridden"
    PROVE  LET out == SwapRanks(list, list[u].key, list[l].key)
           IN /\ out \in Seq(Params) /\ Len(out) = Len(list) /\ OneEach(out)
              /\ KeysOf(out) = KeysOf(list)
              /\ \A n \in 1..Len(list) :
                    /\ out[n].key = list[n].key /\ out[n].state = list[n].state
                    /\ out[n].rank = IF n = u THEN list[l].rank
                                     ELSE IF n = l THEN list[u].rank ELSE list[n].rank
              /\ \A k : StateOf(out, k) = StateOf(list, k)
              /\ DevsimRanked(list) /\ Devsim \notin {list[u].key, list[l].key} => DevsimRanked(out)
<1> DEFINE upper == list[u].key
           lower == list[l].key
           out == SwapRanks(list, upper, lower)
<1>1. DOMAIN list = 1..Len(list)
  OBVIOUS
<1>2. FindByKey(list, upper) = list[u] /\ FindByKey(list, lower) = list[l]
  BY FindsByKey
<1>3. out = [n \in DOMAIN list |->
               CASE list[n].key = upper -> [list[n] EXCEPT !.rank = list[l].rank]
                 [] list[n].key = lower -> [list[n] EXCEPT !.rank = list[u].rank]
                 [] OTHER -> list[n]]
  BY <1>2 DEF SwapRanks
<1>4. out = [n \in DOMAIN list |-> out[n]] /\ DOMAIN out = DOMAIN list
  BY <1>3
<1> HIDE DEF out
<1>5. \A n \in 1..Len(list) : /\ list[n].key = upper <=> n = u
                              /\ list[n].key = lower <=> n = l
  BY DEF OneEach
<1> HIDE DEF upper, lower
<1>6. ASSUME NEW n \in 1..Len(list)
      PROVE  /\ out[n] \in Params /\ out[n].key = list[n].key /\ out[n].state = list[n].state
             /\ out[n].rank = IF n = u THEN list[l].rank
                              ELSE IF n = l THEN list[u].rank ELSE list[n].rank
  <2>1. list[n] \in Params /\ list[u] \in Params /\ list[l] \in Params
    OBVIOUS
  <2>2. CASE n = u
    <3>1. out[n] = [list[n] EXCEPT !.rank = list[l].rank]
      BY <1>1, <1>3, <1>5, <2>2
    <3> QED
      BY <2>1, <2>2, <3>1 DEF Params
  <2>3. CASE n = l
    <3>1. list[n].key # upper /\ list[n].key = lower
      BY <1>5, <2>3
    <3>2. out[n] = [list[n] EXCEPT !.rank = list[u].rank]
      BY <1>1, <1>3, <3>1
    <3> QED
      BY <2>1, <2>3, <3>2 DEF Params
  <2>4. CASE n # u /\ n # l
    <3>1. list[n].key # upper /\ list[n].key # lower
      BY <1>5, <2>4
    <3>2. out[n] = list[n]
      BY <1>1, <1>3, <3>1
    <3> QED
      BY <2>1, <2>4, <3>2
  <2> QED
    BY <2>2, <2>3, <2>4
<1>7. /\ out \in Seq(Params) /\ Len(out) = Len(list) /\ OneEach(out)
      /\ KeysOf(out) = KeysOf(list)
      /\ \A n \in 1..Len(list) : StateOf(out, list[n].key) = out[n].state
      /\ \A k : k \notin KeysOf(list) => StateOf(out, k) = "app"
  BY <1>4, <1>6, Remade
<1>8. /\ \A n \in 1..Len(list) : StateOf(list, list[n].key) = list[n].state
      /\ \A k : k \notin KeysOf(list) => StateOf(list, k) = "app"
      /\ \A k \in KeysOf(list) : \E n \in 1..Len(list) : k = list[n].key
  BY StateOfEach
<1>9. ASSUME NEW k
      PROVE  StateOf(out, k) = StateOf(list, k)
  <2>1. CASE k \in KeysOf(list)
    <3>1. PICK n \in 1..Len(list) : k = list[n].key
      BY <1>8, <2>1
    <3> QED
      BY <1>6, <1>7, <1>8, <3>1
  <2>2. CASE k \notin KeysOf(list)
    BY <1>7, <1>8, <2>2
  <2> QED
    BY <2>1, <2>2
<1>10. ASSUME DevsimRanked(list), Devsim \notin {upper, lower}
       PROVE  DevsimRanked(out)
  <2> SUFFICES ASSUME NEW i \in 1..Len(list), NEW j \in 1..Len(list),
                      out[i].key = Devsim, out[i].state = "overridden",
                      out[j].key # Devsim, out[j].state = "overridden",
                      out[i].rank # NO_RANK, out[j].rank # NO_RANK
               PROVE  out[j].rank < out[i].rank
    BY <1>1, <1>4 DEF DevsimRanked, Range
  <2>1. /\ i # u /\ i # l /\ out[i].rank = list[i].rank
        /\ list[i].key = Devsim /\ list[i].state = "overridden"
    BY <1>5, <1>6, <1>10
  <2>2. PICK m \in 1..Len(list) : /\ out[j].rank = list[m].rank
                                  /\ list[m].key # Devsim /\ list[m].state = "overridden"
    <3>1. CASE j = u
      BY <1>5, <1>6, <1>10, <3>1
    <3>2. CASE j # u /\ j = l
      BY <1>5, <1>6, <1>10, <3>2
    <3>3. CASE j # u /\ j # l
      BY <1>6, <3>3
    <3> QED
      BY <3>1, <3>2, <3>3
  <2>3. list[i] \in Range(list) /\ list[m] \in Range(list)
    BY <1>1 DEF Range
  <2> QED
    BY <1>10, <2>1, <2>2, <2>3 DEF DevsimRanked
<1> QED
  BY <1>6, <1>7, <1>9, <1>10 DEF out, upper, lower

\* What OverrideAll makes of a state.
Taken(key, state) ==
    IF state = "app" /\ key \in KeysOf(available) /\ FindByKey(available, key).type # "implicit"
    THEN IF key = Validation THEN "overridden" ELSE "excluded"
    ELSE state

LEMMA OverridesAll ==
    ASSUME NEW list \in Seq(Params), OneEach(list), IsOrdered(list)
    PROVE  LET out == OverrideAll(list)
           IN /\ out \in Seq(Params) /\ OneEach(out) /\ KeysOf(out) = KeysOf(list)
              /\ \A k \in KeysOf(list) : StateOf(out, k) = Taken(k, StateOf(list, k))
              /\ \A k : k \notin KeysOf(list) => StateOf(out, k) = StateOf(list, k)
              /\ DevsimRanked(list) => DevsimRanked(out)
<1> DEFINE out == OverrideAll(list)
<1>1. DOMAIN list = 1..Len(list)
  OBVIOUS
<1>2. out = [n \in DOMAIN list |->
               IF /\ list[n].state = "app" /\ list[n].key \in KeysOf(available)
                  /\ FindByKey(available, list[n].key).type # "implicit"
               THEN [list[n] EXCEPT !.state = IF list[n].key = Validation THEN "overridden"
                                              ELSE "excluded"]
               ELSE list[n]]
  BY DEF OverrideAll
<1>3. out = [n \in DOMAIN list |-> out[n]] /\ DOMAIN out = DOMAIN list
  BY <1>2
<1> HIDE DEF out
<1>4. ASSUME NEW n \in 1..Len(list)
      PROVE  /\ out[n] \in Params /\ out[n].key = list[n].key /\ out[n].rank = list[n].rank
             /\ out[n].state = Taken(list[n].key, list[n].state)
  <2>1. list[n] \in Params
    OBVIOUS
  <2> DEFINE taken == /\ list[n].state = "app" /\ list[n].key \in KeysOf(available)
                      /\ FindByKey(available, list[n].key).type # "implicit"
  <2>2. CASE taken
    <3>1. out[n] = [list[n] EXCEPT !.state = IF list[n].key = Validation THEN "overridden"
                                             ELSE "excluded"]
      BY <1>1, <1>2, <2>2
    <3>2. Taken(list[n].key, list[n].state)
            = IF list[n].key = Validation THEN "overridden" ELSE "excluded"
      BY <2>2 DEF Taken
    <3> HIDE DEF taken
    <3> QED
      BY <2>1, <3>1, <3>2 DEF Params, States
  <2>3. CASE ~taken
    <3>1. out[n] = list[n]
      BY <1>1, <1>2, <2>3
    <3>2. Taken(list[n].key, list[n].state) = list[n].state
      BY <2>3 DEF Taken
    <3> QED
      BY <2>1, <3>1, <3>2
  <2> QED
    BY <2>2, <2>3
<1>5. /\ out \in Seq(Params) /\ Len(out) = Len(list) /\ OneEach(out)
      /\ KeysOf(out) = KeysOf(list)
      /\ \A n \in 1..Len(list) : StateOf(out, list[n].key) = out[n].state
      /\ \A k : k \notin KeysOf(list) => StateOf(out, k) = "app"
  BY <1>3, <1>4, Remade
<1>6. /\ \A n \in 1..Len(list) : StateOf(list, list[n].key) = list[n].state
      /\ \A k : k \notin KeysOf(list) => StateOf(list, k) = "app"
      /\ \A k \in KeysOf(list) : \E n \in 1..Len(list) : k = list[n].key
  BY StateOfEach
<1>7. \A k \in KeysOf(list) : StateOf(out, k) = Taken(k, StateOf(list, k))
  <2> SUFFICES ASSUME NEW k \in KeysOf(list) PROVE StateOf(out, k) = Taken(k, StateOf(list, k))
    OBVIOUS
  <2>1. PICK n \in 1..Len(list) : k = list[n].key
    BY <1>6
  <2> QED
    BY <1>4, <1>5, <1>6, <2>1
<1>8. ASSUME DevsimRanked(list)
      PROVE  DevsimRanked(out)
  <2> SUFFICES ASSUME NEW i \in 1..Len(list), NEW j \in 1..Len(list),
                      out[i].key = Devsim, out[i].state = "overridden",
                      out[j].key # Devsim, out[j].state = "overridden",
                      out[i].rank # NO_RANK, out[j].rank # NO_RANK
               PROVE  out[j].rank < out[i].rank
    BY <1>1, <1>3 DEF DevsimRanked, Range
  <2>1. ASSUME NEW n \in 1..Len(list), out[n].rank # NO_RANK
        PROVE  out[n].state = list[n].state
    <3>1. list[n].state # "app"
      BY <1>1, <1>4, <2>1 DEF IsOrdered
    <3> QED
      BY <1>4, <3>1 DEF Taken
  <2>2. list[i] \in Range(list) /\ list[j] \in Range(list)
    BY <1>1 DEF Range
  <2> QED
    BY <1>4, <1>8, <2>1, <2>2 DEF DevsimRanked
<1> QED
  BY <1>5, <1>6, <1>7, <1>8 DEF out

\* The list of a reset to zero.
Zeroed(list) == [n \in DOMAIN list |-> [list[n] EXCEPT !.state = "app", !.rank = NO_RANK]]

LEMMA Zeroes ==
    ASSUME NEW list \in Seq(Params), OneEach(list)
    PROVE  /\ Zeroed(list) \in Seq(Params) /\ OneEach(Zeroed(list))
           /\ \A k : StateOf(Zeroed(list), k) = "app"
           /\ DevsimRanked(Zeroed(list))
<1> DEFINE out == Zeroed(list)
<1>1. DOMAIN list = 1..Len(list)
  OBVIOUS
<1>2. out = [n \in DOMAIN list |-> [list[n] EXCEPT !.state = "app", !.rank = NO_RANK]]
  BY DEF Zeroed
<1>3. out = [n \in DOMAIN list |-> out[n]] /\ DOMAIN out = DOMAIN list
  BY <1>2
<1> HIDE DEF out
<1>4. \A n \in 1..Len(list) : out[n] \in Params /\ out[n].key = list[n].key /\ out[n].state = "app"
  <2> SUFFICES ASSUME NEW n \in 1..Len(list)
               PROVE  out[n] \in Params /\ out[n].key = list[n].key /\ out[n].state = "app"
    OBVIOUS
  <2>1. list[n] \in Params
    OBVIOUS
  <2>2. out[n] = [list[n] EXCEPT !.state = "app", !.rank = NO_RANK]
    BY <1>1, <1>2
  <2> QED
    BY <2>1, <2>2 DEF Params, States
<1>5. /\ out \in Seq(Params) /\ Len(out) = Len(list) /\ OneEach(out)
      /\ KeysOf(out) = KeysOf(list)
      /\ \A n \in 1..Len(list) : StateOf(out, list[n].key) = out[n].state
      /\ \A k : k \notin KeysOf(list) => StateOf(out, k) = "app"
  BY <1>3, <1>4, Remade
<1>6. \A k \in KeysOf(list) : \E n \in 1..Len(list) : k = list[n].key
  BY StateOfEach
<1>7. \A k : StateOf(out, k) = "app"
  BY <1>4, <1>5, <1>6
<1>8. DevsimRanked(out)
  BY <1>1, <1>3, <1>4 DEF DevsimRanked, Range
<1> QED
  BY <1>5, <1>7, <1>8 DEF out

(***************************************************************************)
(* The inductive invariant.                                                *)
(***************************************************************************)

\* The layers are those of the paths, and each other variable has its type.
TypesHold ==
    /\ paths \in Seq(CustomPaths) /\ IsInjective(paths)
    /\ available = LoadAllInstalledLayers(paths \o Standard)
    /\ known \in Catalogs
    /\ source \in Files \cup {NoFile}
    /\ asked \in [Keys -> States] /\ chosen \in [Keys -> States]
    /\ refused \subseteq Keys
    /\ open \in BOOLEAN /\ moved \in BOOLEAN /\ clicks \in 0..MaxClicks
    /\ fate \in {"running", "crashed"}

\* The configuration is in the order of the layers that were known, and its
\* places grow.
SavedHolds ==
    /\ saved \in Seq(Params) /\ OneEach(saved)
    /\ \A p \in Range(saved) : p.state # "app"
    /\ Follows(saved, Len(saved), ByClass(known))
    /\ RanksGrow(saved)

\* A copy is in the order of the layers that are there, and has a parameter for
\* each of them.
Works(list, layers) ==
    /\ list \in Seq(Params) /\ OneEach(list)
    /\ IsOrdered(list)
    /\ Follows(list, Len(list), ByClass(layers))
    /\ KeysOf(layers) \subseteq KeysOf(list)

\* Until the first click, the copy is the configuration completed.
WorkingHolds ==
    /\ IF open THEN Works(working, available) ELSE working = << >>
    /\ open /\ clicks = 0 => working = BuildParameters(saved, available)

OverrideIsCurrent == override = Refreshed(saved, available)

IInv == TypesHold /\ SavedHolds /\ WorkingHolds /\ ChoicesKept /\ OverrideIsCurrent

\* Unless it was ordered by hand, device_simulation is last and has the last
\* place of those that were given.
DevsimHolds ==
    ~moved => \A list \in {saved, working} : DevsimRanked(list) /\ DevsimEnds(list)

LEMMA NoParameters ==
    /\ << >> \in Seq(Params) /\ OneEach(<< >>) /\ IsOrdered(<< >>) /\ RanksGrow(<< >>)
    /\ \A R : Follows(<< >>, Len(<< >>), R)
    /\ \A p \in Range(<< >>) : p.state # "app"
    /\ \A key : StateOf(<< >>, key) = "app"
    /\ DevsimRanked(<< >>) /\ DevsimEnds(<< >>)
<1>1. /\ << >> \in Seq(Params) /\ Len(<< >>) = 0 /\ 1..0 = {} /\ DOMAIN << >> = {}
  OBVIOUS
<1>2. OneEach(<< >>)
  BY <1>1 DEF OneEach
<1>3. IsOrdered(<< >>)
  BY <1>1 DEF IsOrdered
<1>4. RanksGrow(<< >>)
  BY <1>1 DEF RanksGrow
<1>5. \A R : Follows(<< >>, Len(<< >>), R)
  BY <1>1 DEF Follows
<1>6. Range(<< >>) = {} /\ KeysOf(<< >>) = {}
  BY <1>1 DEF Range, KeysOf
<1>7. \A key : StateOf(<< >>, key) = "app"
  BY <1>6 DEF StateOf
<1>8. DevsimRanked(<< >>)
  BY <1>6 DEF DevsimRanked
<1>9. DevsimEnds(<< >>)
  BY <1>7 DEF DevsimEnds
<1> QED
  BY <1>1, <1>2, <1>3, <1>4, <1>5, <1>6, <1>7, <1>8, <1>9

\* Ordering a list that has every layer.
LEMMA OrderedWorks ==
    ASSUME NEW layers, NEW list \in Seq(Params), OneEach(list), KeysOf(layers) \subseteq KeysOf(list)
    PROVE  /\ Works(OrderParameter(list, layers), layers)
           /\ \A key : StateOf(OrderParameter(list, layers), key) = StateOf(list, key)
<1> DEFINE out == OrderParameter(list, layers)
<1>1. /\ out \in Seq(Params) /\ OneEach(out) /\ IsOrdered(out) /\ Says(list, out) /\ Says(out, list)
      /\ KeysOf(out) = KeysOf(list) /\ Follows(out, Len(out), ByClass(layers))
  BY Orders
<1> HIDE DEF out
<1>2. Works(out, layers)
  BY <1>1 DEF Works
<1>3. \A key : StateOf(out, key) = StateOf(list, key)
  BY <1>1, SameStates
<1> QED
  BY <1>2, <1>3 DEF out

\* Completing a list.
LEMMA BuiltWorks ==
    ASSUME NEW list \in Seq(Params), OneEach(list), NEW layers \in Catalogs
    PROVE  /\ Works(BuildParameters(list, layers), layers)
           /\ \A key : StateOf(BuildParameters(list, layers), key) = StateOf(list, key)
           /\ DevsimExplicit(layers) /\ DevsimRanked(list)
              => /\ DevsimRanked(BuildParameters(list, layers))
                 /\ DevsimEnds(BuildParameters(list, layers))
<1> DEFINE out == BuildParameters(list, layers)
           all == Completed(list, layers)
<1>1. /\ out = OrderParameter(all, layers)
      /\ out \in Seq(Params) /\ OneEach(out) /\ IsOrdered(out)
      /\ KeysOf(layers) \subseteq KeysOf(out)
      /\ Follows(out, Len(out), ByClass(layers))
      /\ \A key : StateOf(out, key) = StateOf(list, key)
  BY Builds
<1>2. /\ all \in Seq(Params) /\ OneEach(all)
      /\ \A i \in 1..Len(all) : \/ all[i].state = "app"
                                \/ \E j \in 1..Len(list) : all[i] = list[j]
  BY Completes
<1> HIDE DEF out, all
<1>3. Works(out, layers)
  BY <1>1 DEF Works
<1>4. ASSUME DevsimExplicit(layers), DevsimRanked(list)
      PROVE  DevsimRanked(out) /\ DevsimEnds(out)
  <2>1. DOMAIN all = 1..Len(all) /\ DOMAIN list = 1..Len(list)
    BY <1>2
  <2>2. \A p \in Range(all) : p.state = "overridden" => p \in Range(list)
    BY <1>2, <2>1 DEF Range
  <2>3. DevsimRanked(all)
    BY <1>4, <2>2 DEF DevsimRanked
  <2> QED
    BY <1>1, <1>2, <1>4, <2>3, OrdersDevsim
<1> QED
  BY <1>1, <1>3, <1>4 DEF out

\* device_simulation is in a standard folder, and an explicit layer wherever it is.
DevsimInstalled ==
    /\ \E folder \in Range(Standard) : Devsim \in KeysOf(Manifests[folder])
    /\ \A folder \in DOMAIN Manifests : \A n \in DOMAIN Manifests[folder] :
          Manifests[folder][n].key = Devsim => Manifests[folder][n].type # "implicit"

\* The layers of any custom paths.
LEMMA PathsLoad ==
    ASSUME NEW list \in Seq(CustomPaths)
    PROVE  LET layers == LoadAllInstalledLayers(list \o Standard)
           IN layers \in Catalogs /\ (DevsimInstalled => DevsimExplicit(layers))
<1> DEFINE folders == list \o Standard
           layers == LoadAllInstalledLayers(folders)
<1>1. list \in Seq(DOMAIN Manifests)
  <2>1. list \in [1..Len(list) -> DOMAIN Manifests] /\ Len(list) \in Nat
    BY FoldersAssumption
  <2>2. \A m \in Nat : \A f \in [1..m -> DOMAIN Manifests] : f \in Seq(DOMAIN Manifests)
    OBVIOUS
  <2> QED
    BY <2>1, <2>2
<1>2. Standard \in Seq(DOMAIN Manifests)
  BY FoldersAssumption
<1>3. /\ folders \in Seq(DOMAIN Manifests) /\ Len(folders) = Len(list) + Len(Standard)
      /\ \A i \in 1..Len(Standard) : folders[Len(list) + i] = Standard[i]
  BY <1>1, <1>2, Joined
<1> HIDE DEF folders
<1>4. /\ layers \in Catalogs
      /\ \A folder \in Range(folders) : KeysOf(Manifests[folder]) \subseteq KeysOf(layers)
  BY <1>3, LoadsAll
<1> HIDE DEF layers
<1>5. ASSUME DevsimInstalled
      PROVE  DevsimExplicit(layers)
  <2>1. PICK folder \in Range(Standard) : Devsim \in KeysOf(Manifests[folder])
    BY <1>5 DEF DevsimInstalled
  <2>2. folder \in Range(folders)
    <3>1. DOMAIN Standard = 1..Len(Standard) /\ DOMAIN folders = 1..Len(folders)
      BY <1>2, <1>3
    <3>2. PICK i \in 1..Len(Standard) : folder = Standard[i]
      BY <3>1 DEF Range
    <3>3. Len(list) + i \in 1..Len(folders)
      BY <1>1, <1>2, <1>3
    <3> QED
      BY <1>3, <3>1, <3>2, <3>3 DEF Range
  <2>3. Devsim \in KeysOf(layers)
    BY <1>4, <2>1, <2>2
  <2>4. layers \in Seq(Layers) /\ OneEach(layers)
    BY <1>4 DEF Catalogs
  <2>5. PICK n \in 1..Len(layers) : Devsim = layers[n].key
    BY <2>3, <2>4, StateOfEach
  <2>6. FindByKey(layers, Devsim) = layers[n]
    BY <2>4, <2>5, FindsByKey
  <2>7. PICK m \in DOMAIN Manifests[layers[n].folder] :
           /\ Manifests[layers[n].folder][m].key = layers[n].key
           /\ Manifests[layers[n].folder][m].type = layers[n].type
    BY <1>4 DEF Catalogs
  <2>8. layers[n].folder \in DOMAIN Manifests
    <3>1. layers[n] \in Layers
      BY <2>4
    <3> QED
      BY <3>1 DEF Layers
  <2> QED
    BY <1>5, <2>3, <2>5, <2>6, <2>7, <2>8 DEF DevsimInstalled, DevsimExplicit
<1> QED
  BY <1>4, <1>5 DEF layers, folders

\* The parameters of a file.
LEMMA FileHolds ==
    ASSUME NEW file \in Files
    PROVE  file \in Seq(Params) /\ OneEach(file) /\ \A n \in 1..Len(file) : file[n].state # "app"
<1> DEFINE P == [key : Keys, state : {"overridden", "excluded"}, rank : {NO_RANK} \cup Nat, here : BOOLEAN]
<1>1. file \in Seq(P) /\ \A m, n \in DOMAIN file : file[m].key = file[n].key => m = n
  BY FilesAssumption
<1>2. \A p \in P : p \in Params /\ p.state # "app"
  BY DEF Params, States
<1> HIDE DEF P
<1>3. DOMAIN file = 1..Len(file) /\ Len(file) \in Nat /\ \A n \in 1..Len(file) : file[n] \in P
  BY <1>1
<1>4. file \in Seq(Params)
  <2>1. file \in [1..Len(file) -> Params]
    <3>1. file = [n \in 1..Len(file) |-> file[n]]
      BY <1>1
    <3> QED
      BY <1>2, <1>3, <3>1
  <2>2. \A m \in Nat : \A f \in [1..m -> Params] : f \in Seq(Params)
    OBVIOUS
  <2> QED
    BY <1>3, <2>1, <2>2
<1> QED
  BY <1>1, <1>2, <1>3, <1>4 DEF OneEach

(***************************************************************************)
(* Each step keeps the invariant.                                          *)
(***************************************************************************)

LEMMA PathsChange ==
    ASSUME NEW list \in SetToAllKPermutations(CustomPaths)
    PROVE  list \in Seq(CustomPaths) /\ IsInjective(list)
<1>1. PICK some \in SUBSET CustomPaths : list \in SetToSeqs(some)
  BY DEF SetToAllKPermutations
<1>2. Cardinality(some) \in Nat
  BY FoldersAssumption, FS_Subset, FS_CardinalityType
<1>3. /\ list \in [1..Cardinality(some) -> some]
      /\ \A i, j \in 1..Cardinality(some) : i # j => list[i] # list[j]
  BY <1>1 DEF SetToSeqs
<1> QED
  BY <1>2, <1>3 DEF IsInjective

\* What the invariant says of the lists and layers.
LEMMA Held ==
    ASSUME IInv
    PROVE  /\ saved \in Seq(Params) /\ OneEach(saved)
           /\ working \in Seq(Params) /\ OneEach(working) /\ IsOrdered(working)
           /\ Follows(working, Len(working), ByClass(available))
           /\ open => KeysOf(available) \subseteq KeysOf(working)
           /\ available \in Catalogs /\ (DevsimInstalled => DevsimExplicit(available))
           /\ asked \in [Keys -> States] /\ chosen \in [Keys -> States]
<1>1. TypesHold /\ SavedHolds /\ WorkingHolds
  BY DEF IInv
<1>2. available \in Catalogs /\ (DevsimInstalled => DevsimExplicit(available))
  BY <1>1, PathsLoad DEF TypesHold
<1>3. /\ working \in Seq(Params) /\ OneEach(working) /\ IsOrdered(working)
      /\ Follows(working, Len(working), ByClass(available))
  <2>1. CASE open
    BY <1>1, <2>1 DEF WorkingHolds, Works
  <2>2. CASE ~open
    BY <1>1, <2>2, NoParameters DEF WorkingHolds
  <2> QED
    BY <2>1, <2>2
<1>4. open => KeysOf(available) \subseteq KeysOf(working)
  BY <1>1 DEF WorkingHolds, Works
<1> QED
  BY <1>1, <1>2, <1>3, <1>4 DEF SavedHolds, TypesHold

LEMMA StatesOfType ==
    ASSUME NEW list \in Seq(Params), OneEach(list)
    PROVE  /\ StatesOf(list) \in [Keys -> States]
           /\ \A key \in Keys : StatesOf(list)[key] = StateOf(list, key)
BY StateOfType DEF StatesOf

LEMMA InitHolds ==
    ASSUME Init
    PROVE  IInv /\ (DevsimInstalled => DevsimHolds)
<1>1. paths \in Seq(CustomPaths) /\ IsInjective(paths)
  <2>1. CASE paths = << >>
    BY <2>1 DEF IsInjective
  <2>2. CASE \E path \in CustomPaths : paths = <<path>>
    BY <2>2 DEF IsInjective
  <2> QED
    BY <2>1, <2>2 DEF Init
<1>2. available = LoadAllInstalledLayers(paths \o Standard)
  BY DEF Init
<1>3. available \in Catalogs
  BY <1>1, <1>2, PathsLoad
<1>4. source = NoFile => SavedHolds
  BY NoParameters DEF SavedHolds, Init
<1>5. ASSUME source # NoFile
      PROVE  SavedHolds
  <2>1. source \in Files /\ saved = OrderParameter(source, available) /\ known = available
    BY <1>5 DEF Init
  <2>2. source \in Seq(Params) /\ OneEach(source) /\ \A n \in 1..Len(source) : source[n].state # "app"
    BY <2>1, FileHolds
  <2>3. /\ saved \in Seq(Params) /\ OneEach(saved) /\ IsOrdered(saved) /\ Says(source, saved)
        /\ KeysOf(saved) = KeysOf(source)
        /\ Follows(saved, Len(saved), ByClass(available))
    BY <2>1, <2>2, Orders
  <2>4. DOMAIN saved = 1..Len(saved) /\ DOMAIN source = 1..Len(source)
    BY <2>2, <2>3
  <2>5. ASSUME NEW i \in 1..Len(saved)
        PROVE  saved[i].state # "app"
    <3>1. saved[i].key \in KeysOf(source)
      BY <2>3, <2>4 DEF KeysOf
    <3>2. PICK j \in 1..Len(source) : saved[i].key = source[j].key
      BY <2>4, <3>1 DEF KeysOf
    <3>3. PICK k \in 1..Len(saved) : /\ saved[k].key = source[j].key
                                     /\ saved[k].state = source[j].state
      BY <2>2, <2>3 DEF Says
    <3>4. k = i
      BY <2>3, <3>2, <3>3 DEF OneEach
    <3> QED
      BY <2>2, <3>3, <3>4
  <2>6. \A p \in Range(saved) : p.state # "app"
    BY <2>4, <2>5 DEF Range
  <2>7. RanksGrow(saved)
    BY <2>3, OrderedGrow
  <2> QED
    BY <2>1, <2>3, <2>6, <2>7 DEF SavedHolds
<1>6. SavedHolds
  BY <1>4, <1>5
<1>7. /\ StatesOf(saved) \in [Keys -> States]
      /\ \A key \in Keys : StatesOf(saved)[key] = StateOf(saved, key)
  BY <1>6, StatesOfType DEF SavedHolds
<1>8. TypesHold
  <2>1. /\ available = LoadAllInstalledLayers(paths \o Standard) /\ known \in Catalogs
        /\ source \in Files \cup {NoFile} /\ asked \in [Keys -> States] /\ chosen \in [Keys -> States]
    BY <1>3, <1>7 DEF Init
  <2>2. /\ refused \subseteq Keys /\ open \in BOOLEAN /\ moved \in BOOLEAN
        /\ fate \in {"running", "crashed"}
    BY DEF Init
  <2>3. clicks \in 0..MaxClicks
    BY MaxClicksAssumption DEF Init
  <2> QED
    BY <1>1, <2>1, <2>2, <2>3 DEF TypesHold
<1>9. WorkingHolds
  BY DEF Init, WorkingHolds
<1>10. ChoicesKept
  BY <1>7 DEF Init, ChoicesKept
<1>11. OverrideIsCurrent
  BY DEF Init, OverrideIsCurrent
<1>12. DevsimHolds
  <2>1. CASE source = NoFile
    BY <2>1, NoParameters DEF Init, DevsimHolds
  <2>2. CASE source # NoFile
    BY <2>2 DEF Init, DevsimHolds
  <2> QED
    BY <2>1, <2>2
<1> QED
  BY <1>6, <1>8, <1>9, <1>10, <1>11, <1>12 DEF IInv

LEMMA OpenKeeps ==
    ASSUME IInv, Open
    PROVE  IInv' /\ (DevsimInstalled /\ DevsimHolds => DevsimHolds')
<1>1. /\ saved \in Seq(Params) /\ OneEach(saved)
      /\ available \in Catalogs /\ (DevsimInstalled => DevsimExplicit(available))
  BY Held
<1>2. /\ open' = TRUE /\ working' = BuildParameters(saved, available)
      /\ asked' = StatesOf(saved) /\ clicks' = 0
      /\ UNCHANGED <<paths, available, source, saved, override, fate, chosen,
                     refused, moved, known>>
  BY DEF Open
<1>3. /\ Works(working', available)
      /\ \A key : StateOf(working', key) = StateOf(saved, key)
      /\ DevsimExplicit(available) /\ DevsimRanked(saved)
         => DevsimRanked(working') /\ DevsimEnds(working')
  BY <1>1, <1>2, BuiltWorks
<1>4. asked' \in [Keys -> States] /\ \A key \in Keys : asked'[key] = StateOf(saved, key)
  BY <1>1, <1>2, StatesOfType
<1>5. TypesHold'
  <2>1. TypesHold
    BY DEF IInv
  <2>2. clicks' \in 0..MaxClicks
    BY <1>2, MaxClicksAssumption
  <2> QED
    BY <1>2, <1>4, <2>1, <2>2 DEF TypesHold
<1>6. SavedHolds'
  BY <1>2 DEF IInv, SavedHolds
<1>7. WorkingHolds'
  BY <1>2, <1>3 DEF WorkingHolds
<1>8. ChoicesKept'
  BY <1>2, <1>3, <1>4 DEF IInv, ChoicesKept
<1>9. OverrideIsCurrent'
  BY <1>2 DEF IInv, OverrideIsCurrent
<1>10. ASSUME DevsimInstalled, DevsimHolds
       PROVE  DevsimHolds'
  BY <1>1, <1>2, <1>3, <1>10 DEF DevsimHolds
<1> QED
  BY <1>5, <1>6, <1>7, <1>8, <1>9, <1>10 DEF IInv

LEMMA AcceptKeeps ==
    ASSUME IInv, accept
    PROVE  IInv' /\ (DevsimInstalled /\ DevsimHolds => DevsimHolds')
<1>1. /\ working \in Seq(Params) /\ OneEach(working) /\ IsOrdered(working)
      /\ Follows(working, Len(working), ByClass(available))
      /\ available \in Catalogs /\ asked \in [Keys -> States]
  BY Held
<1>2. /\ open = TRUE /\ open' = FALSE /\ saved' = FilterParameters(working, "app")
      /\ override' = Refreshed(saved', available) /\ working' = << >>
      /\ chosen' = asked /\ known' = available
      /\ UNCHANGED <<paths, available, source, fate, asked, refused, moved, clicks>>
  <2>1. open \in BOOLEAN
    BY DEF IInv, TypesHold
  <2> QED
    BY <2>1 DEF accept
<1>3. /\ saved' \in Seq(Params) /\ OneEach(saved') /\ \A p \in Range(saved') : p.state # "app"
      /\ Range(saved') \subseteq Range(working)
      /\ Overridden(saved') = Overridden(working)
      /\ \A key : StateOf(saved', key) = StateOf(working, key)
      /\ Follows(saved', Len(saved'), ByClass(available))
      /\ RanksGrow(saved')
  <2>1. RanksGrow(working)
    BY <1>1, OrderedGrow
  <2> QED
    BY <1>1, <1>2, <2>1, Filters
<1>4. TypesHold'
  BY <1>1, <1>2 DEF IInv, TypesHold
<1>5. SavedHolds'
  BY <1>2, <1>3 DEF SavedHolds
<1>6. WorkingHolds'
  BY <1>2 DEF WorkingHolds
<1>7. ChoicesKept'
  BY <1>2, <1>3 DEF IInv, ChoicesKept
<1>8. OverrideIsCurrent'
  BY <1>2 DEF OverrideIsCurrent
<1>9. ASSUME DevsimHolds, ~moved'
      PROVE  DevsimRanked(saved') /\ DevsimEnds(saved') /\ DevsimRanked(working') /\ DevsimEnds(working')
  <2>1. DevsimRanked(working) /\ DevsimEnds(working)
    BY <1>2, <1>9 DEF DevsimHolds
  <2>2. DevsimRanked(saved')
    BY <1>3, <2>1 DEF DevsimRanked
  <2>3. DevsimEnds(saved')
    BY <1>3, <2>1 DEF DevsimEnds
  <2> QED
    BY <1>2, <2>2, <2>3, NoParameters
<1> QED
  BY <1>4, <1>5, <1>6, <1>7, <1>8, <1>9 DEF IInv, DevsimHolds

LEMMA RejectKeeps ==
    ASSUME IInv, reject
    PROVE  IInv' /\ (DevsimInstalled /\ DevsimHolds => DevsimHolds')
<1>1. /\ open' = FALSE /\ override' = Refreshed(saved, available)
      /\ working' = << >> /\ asked' = chosen
      /\ UNCHANGED <<paths, available, source, saved, fate, chosen, refused, moved,
                     known, clicks>>
  BY DEF reject
<1>2. TypesHold'
  BY <1>1 DEF IInv, TypesHold
<1>3. SavedHolds'
  BY <1>1 DEF IInv, SavedHolds
<1>4. WorkingHolds'
  BY <1>1 DEF WorkingHolds
<1>5. ChoicesKept'
  BY <1>1 DEF IInv, ChoicesKept
<1>6. OverrideIsCurrent'
  BY <1>1 DEF OverrideIsCurrent
<1>7. DevsimHolds => DevsimHolds'
  BY <1>1, NoParameters DEF DevsimHolds
<1> QED
  BY <1>2, <1>3, <1>4, <1>5, <1>6, <1>7 DEF IInv

\* A click leaves the dialog open.
LEMMA Clicked ==
    ASSUME IInv, Click
    PROVE  open = TRUE /\ clicks' \in 0..MaxClicks /\ clicks' # 0
<1>1. open \in BOOLEAN /\ clicks \in 0..MaxClicks
  BY DEF IInv, TypesHold
<1> QED
  BY <1>1, MaxClicksAssumption DEF Click

LEMMA UseKeeps ==
    ASSUME IInv, NEW key \in Keys, NEW state \in States, layerUseChanged(key, state)
    PROVE  IInv' /\ (DevsimInstalled /\ DevsimHolds => DevsimHolds')
<1> DEFINE devsim == state = "overridden" /\ key = Devsim
           implicit == /\ state = "excluded" /\ key \in KeysOf(available)
                       /\ FindByKey(available, key).type = "implicit"
<1>1. /\ Click /\ key \in KeysOf(working)
      /\ UNCHANGED <<paths, available, source, saved, open, override, fate,
                     chosen, moved, known>>
  BY DEF layerUseChanged
<1>2. PICK yes \in BOOLEAN :
         /\ working' = OrderParameter(SetState(IF devsim /\ yes THEN OverrideAll(working)
                                               ELSE working, key, state), available)
         /\ asked' = [(IF devsim /\ yes THEN AskedAll ELSE asked) EXCEPT
                        ![key] = IF implicit /\ ~yes THEN "app" ELSE state]
         /\ refused' = IF implicit /\ ~yes THEN refused \cup {key} ELSE refused
  BY DEF layerUseChanged
<1> DEFINE base == IF devsim /\ yes THEN OverrideAll(working) ELSE working
           asks == IF devsim /\ yes THEN AskedAll ELSE asked
           set == SetState(base, key, state)
<1>3. open = TRUE /\ clicks' \in 0..MaxClicks /\ clicks' # 0
  BY <1>1, Clicked
<1>4. /\ working \in Seq(Params) /\ OneEach(working) /\ IsOrdered(working)
      /\ KeysOf(available) \subseteq KeysOf(working)
      /\ DevsimInstalled => DevsimExplicit(available)
      /\ asked \in [Keys -> States] /\ chosen \in [Keys -> States]
  BY <1>3, Held
<1>5. /\ OverrideAll(working) \in Seq(Params) /\ OneEach(OverrideAll(working))
      /\ KeysOf(OverrideAll(working)) = KeysOf(working)
      /\ \A k \in KeysOf(working) : StateOf(OverrideAll(working), k) = Taken(k, StateOf(working, k))
      /\ \A k : k \notin KeysOf(working) => StateOf(OverrideAll(working), k) = StateOf(working, k)
      /\ DevsimRanked(working) => DevsimRanked(OverrideAll(working))
  BY <1>4, OverridesAll
<1>6. /\ base \in Seq(Params) /\ OneEach(base) /\ KeysOf(base) = KeysOf(working)
      /\ DevsimRanked(working) => DevsimRanked(base)
  BY <1>4, <1>5
<1>7. AskedAll \in [Keys -> States] /\ \A k \in Keys : AskedAll[k] = Taken(k, asked[k])
  BY <1>4 DEF AskedAll, Taken, States
<1>8. asks \in [Keys -> States]
  BY <1>4, <1>7
<1>9. \A k \in Keys \ refused : StateOf(saved, k) = chosen[k] /\ StateOf(working, k) = asked[k]
  BY <1>3 DEF IInv, ChoicesKept
<1>10. \A k \in Keys \ refused : StateOf(base, k) = asks[k]
  <2> SUFFICES ASSUME NEW k \in Keys \ refused PROVE StateOf(base, k) = asks[k]
    OBVIOUS
  <2>1. CASE devsim /\ yes
    <3>1. base = OverrideAll(working) /\ asks[k] = Taken(k, StateOf(working, k))
      BY <1>7, <1>9, <2>1
    <3>2. CASE k \in KeysOf(working)
      BY <1>5, <3>1, <3>2
    <3>3. CASE k \notin KeysOf(working)
      <4>1. Taken(k, StateOf(working, k)) = StateOf(working, k)
        BY <1>4, <3>3 DEF Taken
      <4> QED
        BY <1>5, <3>1, <3>3, <4>1
    <3> QED
      BY <3>2, <3>3
  <2>2. CASE ~(devsim /\ yes)
    BY <1>9, <2>2
  <2> QED
    BY <2>1, <2>2
<1>11. /\ working' = OrderParameter(set, available)
       /\ asked' = [asks EXCEPT ![key] = IF implicit /\ ~yes THEN "app" ELSE state]
  BY <1>2
<1> HIDE DEF base, asks
<1>12. /\ set \in Seq(Params) /\ OneEach(set) /\ KeysOf(set) = KeysOf(base)
       /\ \A k : StateOf(set, k) = IF k = key THEN state ELSE StateOf(base, k)
       /\ DevsimRanked(base) => DevsimRanked(set)
  BY <1>1, <1>6, SetsState
<1> HIDE DEF set, devsim
<1>13. /\ Works(working', available)
       /\ \A k : StateOf(working', k) = StateOf(set, k)
  BY <1>4, <1>6, <1>11, <1>12, OrderedWorks
<1>14. /\ asked' \in [Keys -> States]
       /\ \A k \in Keys : asked'[k] = IF k = key THEN IF implicit /\ ~yes THEN "app" ELSE state
                                      ELSE asks[k]
  <2> HIDE DEF implicit
  <2> QED
    BY <1>8, <1>11 DEF States
<1>15. TypesHold'
  <2>1. TypesHold
    BY DEF IInv
  <2>2. refused' \subseteq Keys
    BY <1>2, <2>1 DEF TypesHold
  <2> QED
    BY <1>1, <1>3, <1>14, <2>1, <2>2 DEF TypesHold
<1>16. SavedHolds'
  BY <1>1 DEF IInv, SavedHolds
<1>17. WorkingHolds'
  BY <1>1, <1>3, <1>13 DEF WorkingHolds
<1>18. ChoicesKept'
  <2> SUFFICES ASSUME NEW k \in Keys \ refused'
               PROVE  StateOf(saved, k) = chosen[k] /\ StateOf(working', k) = asked'[k]
    BY <1>1 DEF ChoicesKept
  <2>1. k \in Keys \ refused /\ (k = key => ~(implicit /\ ~yes))
    <3> HIDE DEF implicit
    <3> QED
      BY <1>2
  <2>2. StateOf(working', k) = IF k = key THEN state ELSE asks[k]
    BY <1>10, <1>12, <1>13, <2>1
  <2> HIDE DEF implicit
  <2> QED
    BY <1>9, <1>14, <2>1, <2>2
<1>19. OverrideIsCurrent'
  BY <1>1 DEF IInv, OverrideIsCurrent
<1>20. ASSUME DevsimInstalled, DevsimHolds
       PROVE  DevsimHolds'
  <2> SUFFICES ASSUME ~moved
               PROVE  DevsimRanked(saved) /\ DevsimEnds(saved)
                      /\ DevsimRanked(working') /\ DevsimEnds(working')
    BY <1>1 DEF DevsimHolds
  <2>1. DevsimRanked(saved) /\ DevsimEnds(saved) /\ DevsimRanked(working)
    BY <1>20 DEF DevsimHolds
  <2>2. DevsimRanked(working') /\ DevsimEnds(working')
    BY <1>4, <1>6, <1>11, <1>12, <1>20, <2>1, OrdersDevsim
  <2> QED
    BY <2>1, <2>2
<1> QED
  BY <1>15, <1>16, <1>17, <1>18, <1>19, <1>20 DEF IInv

\* The places that Up and Down exchange.
LEMMA Neighbours ==
    ASSUME IInv, NEW n, OverrideOrder(n)
    PROVE  LET shown == Overridden(working)
           IN \E place :
                /\ Len(shown) \in Nat /\ n \in 1..(Len(shown) - 1)
                /\ shown = [i \in 1..Len(shown) |-> shown[i]]
                /\ Names(shown, place, working)
                /\ place[n] \in 1..Len(working) /\ place[n + 1] \in 1..Len(working)
                /\ place[n] # place[n + 1]
                /\ shown[n] = working[place[n]].key /\ shown[n + 1] = working[place[n + 1]].key
                /\ working[place[n]].state = "overridden" /\ working[place[n + 1]].state = "overridden"
<1> DEFINE shown == Overridden(working)
<1>1. working \in Seq(Params)
  BY Held
<1>2. /\ shown \in Seq({p.key : p \in Range(working)})
      /\ \E place : Names(shown, place, working)
  BY <1>1, OverriddenNames
<1>3. n \in 1..(Len(shown) - 1)
  BY DEF OverrideOrder
<1>4. PICK place : Names(shown, place, working)
  BY <1>2
<1> HIDE DEF shown
<1>5. Len(shown) \in Nat /\ shown = [i \in 1..Len(shown) |-> shown[i]]
  BY <1>2
<1>6. n \in 1..Len(shown) /\ n + 1 \in 1..Len(shown) /\ n < n + 1
  BY <1>3, <1>5
<1>7. /\ place \in [1..Len(shown) -> 1..Len(working)]
      /\ \A i, j \in 1..Len(shown) : i < j => place[i] < place[j]
      /\ \A i \in 1..Len(shown) : /\ shown[i] = working[place[i]].key
                                  /\ working[place[i]].state = "overridden"
  BY <1>4 DEF Names
<1>8. place[n] \in 1..Len(working) /\ place[n + 1] \in 1..Len(working) /\ place[n] < place[n + 1]
  BY <1>6, <1>7
<1>9. place[n] # place[n + 1]
  BY <1>8
<1> QED
  BY <1>3, <1>4, <1>5, <1>6, <1>7, <1>8, <1>9 DEF shown

LEMMA MoveKeeps ==
    ASSUME IInv, NEW n, OverrideOrder(n)
    PROVE  IInv' /\ (DevsimInstalled /\ DevsimHolds => DevsimHolds')
<1> DEFINE shown == Overridden(working)
           set == SwapRanks(working, shown[n], shown[n + 1])
<1>1. /\ Click /\ working' = OrderParameter(set, available)
      /\ moved' = (moved \/ Devsim \in {shown[n], shown[n + 1]})
      /\ UNCHANGED <<paths, available, source, saved, open, override, fate,
                     asked, chosen, refused, known>>
  BY DEF OverrideOrder
<1>2. open = TRUE /\ clicks' \in 0..MaxClicks /\ clicks' # 0
  BY <1>1, Clicked
<1>3. /\ working \in Seq(Params) /\ OneEach(working)
      /\ KeysOf(available) \subseteq KeysOf(working)
      /\ DevsimInstalled => DevsimExplicit(available)
  BY <1>2, Held
<1>4. PICK place :
         /\ place[n] \in 1..Len(working) /\ place[n + 1] \in 1..Len(working)
         /\ place[n] # place[n + 1]
         /\ shown[n] = working[place[n]].key /\ shown[n + 1] = working[place[n + 1]].key
         /\ working[place[n]].state = "overridden" /\ working[place[n + 1]].state = "overridden"
  BY Neighbours
<1> HIDE DEF shown
<1>5. /\ set \in Seq(Params) /\ OneEach(set) /\ KeysOf(set) = KeysOf(working)
      /\ \A k : StateOf(set, k) = StateOf(working, k)
      /\ DevsimRanked(working) /\ Devsim \notin {shown[n], shown[n + 1]} => DevsimRanked(set)
  BY <1>3, <1>4, SwapsRanks
<1> HIDE DEF set
<1>6. /\ Works(working', available)
      /\ \A k : StateOf(working', k) = StateOf(working, k)
  BY <1>1, <1>3, <1>5, OrderedWorks
<1>7. TypesHold'
  <2>1. TypesHold
    BY DEF IInv
  <2>2. moved' \in BOOLEAN
    BY <1>1, <2>1 DEF TypesHold
  <2> QED
    BY <1>1, <1>2, <2>1, <2>2 DEF TypesHold
<1>8. SavedHolds'
  BY <1>1 DEF IInv, SavedHolds
<1>9. WorkingHolds'
  BY <1>1, <1>2, <1>6 DEF WorkingHolds
<1>10. ChoicesKept'
  BY <1>1, <1>6 DEF IInv, ChoicesKept
<1>11. OverrideIsCurrent'
  BY <1>1 DEF IInv, OverrideIsCurrent
<1>12. ASSUME DevsimInstalled, DevsimHolds
       PROVE  DevsimHolds'
  <2> SUFFICES ASSUME ~moved, Devsim \notin {shown[n], shown[n + 1]}
               PROVE  DevsimRanked(saved) /\ DevsimEnds(saved)
                      /\ DevsimRanked(working') /\ DevsimEnds(working')
    BY <1>1 DEF DevsimHolds
  <2>1. DevsimRanked(saved) /\ DevsimEnds(saved) /\ DevsimRanked(working)
    BY <1>12 DEF DevsimHolds
  <2>2. DevsimRanked(working') /\ DevsimEnds(working')
    BY <1>1, <1>3, <1>5, <1>12, <2>1, OrdersDevsim
  <2> QED
    BY <2>1, <2>2
<1> QED
  BY <1>7, <1>8, <1>9, <1>10, <1>11, <1>12 DEF IInv

LEMMA ResetKeeps ==
    ASSUME IInv, on_pushButtonResetLayers_clicked
    PROVE  IInv' /\ (DevsimInstalled /\ DevsimHolds => DevsimHolds')
<1>1. /\ Click
      /\ moved' = (moved \/ source # NoFile)
      /\ UNCHANGED <<paths, available, source, saved, open, override, chosen, refused, known>>
  BY DEF on_pushButtonResetLayers_clicked
<1>2. open = TRUE /\ clicks' \in 0..MaxClicks /\ clicks' # 0
  BY <1>1, Clicked
<1>3. /\ working \in Seq(Params) /\ OneEach(working)
      /\ available \in Catalogs
      /\ DevsimInstalled => DevsimExplicit(available)
      /\ asked \in [Keys -> States]
  BY Held
<1>4. TypesHold /\ WorkingHolds /\ moved' \in BOOLEAN
  BY <1>1 DEF IInv, TypesHold
<1>5. SUFFICES /\ Works(working', available)
               /\ asked' \in [Keys -> States]
               /\ fate' \in {"running", "crashed"}
               /\ \A key \in Keys \ refused : StateOf(working', key) = asked'[key]
               /\ DevsimInstalled /\ DevsimHolds /\ source = NoFile /\ ~moved
                  => DevsimRanked(working') /\ DevsimEnds(working')
  <2>1. ASSUME /\ Works(working', available)
               /\ asked' \in [Keys -> States]
               /\ fate' \in {"running", "crashed"}
               /\ \A key \in Keys \ refused : StateOf(working', key) = asked'[key]
        PROVE  IInv'
    <3>1. TypesHold'
      BY <1>1, <1>2, <1>4, <2>1 DEF TypesHold
    <3>2. SavedHolds'
      BY <1>1 DEF IInv, SavedHolds
    <3>3. WorkingHolds'
      BY <1>1, <1>2, <2>1 DEF WorkingHolds
    <3>4. ChoicesKept'
      BY <1>1, <2>1 DEF IInv, ChoicesKept
    <3>5. OverrideIsCurrent'
      BY <1>1 DEF IInv, OverrideIsCurrent
    <3> QED
      BY <3>1, <3>2, <3>3, <3>4, <3>5 DEF IInv
  <2>2. ASSUME DevsimHolds,
               source = NoFile /\ ~moved => DevsimRanked(working') /\ DevsimEnds(working')
        PROVE  DevsimHolds'
    BY <1>1, <2>2 DEF DevsimHolds
  <2> QED
    BY <2>1, <2>2
<1>6. CASE source # NoFile
  <2> DEFINE list == OrderParameter(source, available)
  <2>1. /\ working' = BuildParameters(list, available)
        /\ asked' = StatesOf(source) /\ fate' = fate
    BY <1>6 DEF on_pushButtonResetLayers_clicked
  <2>2. source \in Seq(Params) /\ OneEach(source)
    BY <1>4, <1>6, FileHolds DEF TypesHold
  <2>3. /\ list \in Seq(Params) /\ OneEach(list) /\ Says(source, list) /\ Says(list, source)
    BY <2>2, Orders
  <2> HIDE DEF list
  <2>4. \A key : StateOf(list, key) = StateOf(source, key)
    BY <2>2, <2>3, SameStates
  <2>5. /\ Works(working', available)
        /\ \A key : StateOf(working', key) = StateOf(list, key)
    BY <1>3, <2>1, <2>3, BuiltWorks
  <2>6. asked' \in [Keys -> States] /\ \A key \in Keys : asked'[key] = StateOf(source, key)
    BY <2>1, <2>2, StatesOfType
  <2>7. fate' \in {"running", "crashed"}
    BY <1>4, <2>1 DEF TypesHold
  <2> QED
    BY <1>6, <2>4, <2>5, <2>6, <2>7
<1>7. CASE source = NoFile /\ KeysOf(working) \subseteq KeysOf(available)
  <2>1. /\ working' = BuildParameters(Zeroed(working), available)
        /\ asked' = [key \in Keys |-> "app"] /\ fate' = fate
    BY <1>7 DEF on_pushButtonResetLayers_clicked, Zeroed
  <2>2. /\ Zeroed(working) \in Seq(Params) /\ OneEach(Zeroed(working))
        /\ \A k : StateOf(Zeroed(working), k) = "app"
        /\ DevsimRanked(Zeroed(working))
    BY <1>3, Zeroes
  <2>3. /\ Works(working', available)
        /\ \A key : StateOf(working', key) = "app"
        /\ DevsimExplicit(available) => DevsimRanked(working') /\ DevsimEnds(working')
    BY <1>3, <2>1, <2>2, BuiltWorks
  <2>4. asked' \in [Keys -> States] /\ \A key \in Keys : asked'[key] = "app"
    BY <2>1 DEF States
  <2>5. fate' \in {"running", "crashed"}
    BY <1>4, <2>1 DEF TypesHold
  <2> QED
    BY <1>3, <2>3, <2>4, <2>5
<1>8. CASE source = NoFile /\ ~(KeysOf(working) \subseteq KeysOf(available))
  <2>1. fate' = "crashed" /\ UNCHANGED <<working, asked>>
    BY <1>8 DEF on_pushButtonResetLayers_clicked
  <2>2. Works(working, available)
    BY <1>2, <1>4 DEF WorkingHolds
  <2>3. \A key \in Keys \ refused : StateOf(working, key) = asked[key]
    BY <1>2 DEF IInv, ChoicesKept
  <2>4. ASSUME DevsimHolds
        PROVE  ~moved => DevsimRanked(working) /\ DevsimEnds(working)
    BY <2>4 DEF DevsimHolds
  <2>5. asked' \in [Keys -> States] /\ fate' \in {"running", "crashed"}
    BY <1>3, <2>1
  <2>6. Works(working', available)
    BY <2>1, <2>2
  <2>7. \A key \in Keys \ refused : StateOf(working', key) = asked'[key]
    BY <2>1, <2>3
  <2>8. DevsimHolds /\ source = NoFile /\ ~moved => DevsimRanked(working') /\ DevsimEnds(working')
    BY <2>1, <2>4
  <2> QED
    BY <2>5, <2>6, <2>7, <2>8
<1> QED
  BY <1>6, <1>7, <1>8

LEMMA CustomKeeps ==
    ASSUME IInv, on_pushButtonCustomLayers_clicked
    PROVE  IInv' /\ (DevsimInstalled /\ DevsimHolds => DevsimHolds')
<1>1. /\ Click
      /\ available' = LoadAllInstalledLayers(paths' \o Standard)
      /\ override' = Refreshed(saved, available')
      /\ working' = BuildParameters(working, available')
      /\ UNCHANGED <<source, saved, open, fate, asked, chosen, refused, moved, known>>
  BY DEF on_pushButtonCustomLayers_clicked, PathOverride
<1>2. open = TRUE /\ clicks' \in 0..MaxClicks /\ clicks' # 0
  BY <1>1, Clicked
<1>3. working \in Seq(Params) /\ OneEach(working)
  BY Held
<1>4. paths' \in Seq(CustomPaths) /\ IsInjective(paths')
  BY PathsChange DEF on_pushButtonCustomLayers_clicked
<1>5. available' \in Catalogs /\ (DevsimInstalled => DevsimExplicit(available'))
  BY <1>1, <1>4, PathsLoad
<1>6. /\ Works(working', available')
      /\ \A key : StateOf(working', key) = StateOf(working, key)
      /\ DevsimExplicit(available') /\ DevsimRanked(working)
         => DevsimRanked(working') /\ DevsimEnds(working')
  BY <1>1, <1>3, <1>5, BuiltWorks
<1>7. TypesHold'
  BY <1>1, <1>2, <1>4 DEF IInv, TypesHold
<1>8. SavedHolds'
  BY <1>1 DEF IInv, SavedHolds
<1>9. WorkingHolds'
  BY <1>1, <1>2, <1>6 DEF WorkingHolds
<1>10. ChoicesKept'
  BY <1>1, <1>6 DEF IInv, ChoicesKept
<1>11. OverrideIsCurrent'
  BY <1>1 DEF OverrideIsCurrent
<1>12. ASSUME DevsimInstalled, DevsimHolds
       PROVE  DevsimHolds'
  BY <1>1, <1>5, <1>6, <1>12 DEF DevsimHolds
<1> QED
  BY <1>7, <1>8, <1>9, <1>10, <1>11, <1>12 DEF IInv

LEMMA StepKeeps ==
    ASSUME IInv, [Next]_vars
    PROVE  IInv' /\ (DevsimInstalled /\ DevsimHolds => DevsimHolds')
<1>1. CASE Open
  BY <1>1, OpenKeeps
<1>2. CASE accept
  BY <1>2, AcceptKeeps
<1>3. CASE reject
  BY <1>3, RejectKeeps
<1>4. CASE \E key \in Keys, state \in States : layerUseChanged(key, state)
  BY <1>4, UseKeeps
<1>5. CASE \E n \in 1..Cardinality(Keys) : OverrideOrder(n)
  BY <1>5, MoveKeeps
<1>6. CASE on_pushButtonResetLayers_clicked
  BY <1>6, ResetKeeps
<1>7. CASE on_pushButtonCustomLayers_clicked
  BY <1>7, CustomKeeps
<1>8. CASE UNCHANGED vars
  <2>1. UNCHANGED <<paths, available, source, saved, open, working, override, fate,
                    asked, chosen, refused, moved, known, clicks>>
    BY <1>8 DEF vars, app, user
  <2>2. TypesHold' /\ SavedHolds' /\ WorkingHolds' /\ ChoicesKept' /\ OverrideIsCurrent'
    BY <2>1 DEF IInv, TypesHold, SavedHolds, WorkingHolds, ChoicesKept, OverrideIsCurrent
  <2>3. DevsimHolds => DevsimHolds'
    BY <2>1 DEF DevsimHolds
  <2> QED
    BY <2>2, <2>3 DEF IInv
<1> QED
  BY <1>1, <1>2, <1>3, <1>4, <1>5, <1>6, <1>7, <1>8 DEF Next

\* The invariant that the other theorems rest on: the copy of the dialog is in
\* the order of the layers that are there, the configuration in the order of
\* those it was last ordered with, choices are kept and the override is current.
THEOREM InvariantHolds == Spec => []IInv
<1>1. Init => IInv
  BY InitHolds
<1>2. IInv /\ [Next]_vars => IInv'
  BY StepKeeps
<1> QED
  BY <1>1, <1>2, PTL DEF Spec

\* A list with one parameter for each key has as many keys as parameters.
LEMMA KeysCounted ==
    ASSUME NEW S, NEW list \in Seq(S), OneEach(list)
    PROVE  Cardinality(KeysOf(list)) = Len(list)
<1> DEFINE n == Len(list)
           f == [i \in 1..n |-> list[i].key]
<1>1. n \in Nat /\ DOMAIN list = 1..n
  OBVIOUS
<1>2. \A i, j \in 1..n : f[i] = f[j] => i = j
  BY DEF OneEach
<1>3. f \in Bijection(1..n, KeysOf(list))
  <2>1. KeysOf(list) = {list[i].key : i \in 1..n}
    BY <1>1 DEF KeysOf
  <2> HIDE DEF n
  <2>2. f \in [1..n -> KeysOf(list)] /\ \A key \in KeysOf(list) : \E i \in 1..n : f[i] = key
    BY <2>1
  <2> HIDE DEF f
  <2> QED
    BY <1>2, <2>2 DEF Bijection, Injection, Surjection, IsInjective
<1>4. IsFiniteSet(1..n) /\ Cardinality(1..n) = n
  BY <1>1, FS_Interval
<1> HIDE DEF f, n
<1>5. Cardinality(KeysOf(list)) = Cardinality(1..n)
  BY <1>3, <1>4, FS_Bijection DEF ExistsBijection
<1> QED
  BY <1>4, <1>5 DEF n

\* The variables have their types: one parameter for each layer, none of the
\* configuration is left to the application, and the places of the dialog's
\* copy are the positions of its overridden layers (dialog_layers.cpp,
\* parameter.cpp).
THEOREM TypeCorrect == Spec => []TypeOK
<1>1. IInv => TypeOK
  <2> SUFFICES ASSUME IInv PROVE TypeOK
    OBVIOUS
  <2>1. TypesHold /\ SavedHolds
    BY DEF IInv
  <2>2. /\ saved \in Seq(Params) /\ OneEach(saved)
        /\ working \in Seq(Params) /\ OneEach(working) /\ IsOrdered(working)
    BY Held
  <2>3. \A list \in {saved, working} : Range(list) \subseteq Params
    <3>1. \A list \in Seq(Params) : Range(list) \subseteq Params
      BY DEF Range
    <3> QED
      BY <2>2, <3>1
  <2>4. \A list \in {saved, working} : Cardinality(KeysOf(list)) = Len(list)
    BY <2>2, KeysCounted
  <2>5. IsInjective(paths) /\ Range(paths) \subseteq CustomPaths
    <3>1. paths \in Seq(CustomPaths) /\ IsInjective(paths)
      BY <2>1 DEF TypesHold
    <3> QED
      BY <3>1 DEF Range
  <2> QED
    BY <2>1, <2>2, <2>3, <2>4, <2>5 DEF TypeOK, TypesHold, SavedHolds, Params
<1> QED
  BY <1>1, InvariantHolds, PTL

\* What the user asked for is what the configuration and the copy say, also of
\* a layer that is missing when the dialog is accepted (dialog_layers.cpp,
\* layerUseChanged and accept).
THEOREM ChoicesKeptCorrect == Spec => []ChoicesKept
<1>1. IInv => ChoicesKept
  BY DEF IInv
<1> QED
  BY <1>1, InvariantHolds, PTL

\* Where device_simulation is an explicit layer of a standard folder, it is
\* the last overridden layer until it is ordered by hand or by a file
\* (parameter.cpp, ParameterCompare).
THEOREM DevsimLastCorrect ==
    ASSUME DevsimInstalled
    PROVE  Spec => []DevsimLast
<1>1. Init => IInv /\ DevsimHolds
  BY InitHolds
<1>2. IInv /\ DevsimHolds /\ [Next]_vars => (IInv /\ DevsimHolds)'
  BY StepKeeps
<1>3. DevsimHolds => DevsimLast
  BY DEF DevsimHolds, DevsimEnds, DevsimLast
<1> QED
  BY <1>1, <1>2, <1>3, PTL DEF Spec

\* The override names the overridden layers of the saved configuration, and the
\* folder of each of them that is found, whatever the custom paths are
\* (override.cpp, WriteLayersOverride).
THEOREM OverrideFindsLayersCorrect == Spec => []OverrideFindsLayers
<1>1. IInv => OverrideFindsLayers
  <2> SUFFICES ASSUME IInv PROVE OverrideFindsLayers
    OBVIOUS
  <2>1. override = Refreshed(saved, available) /\ saved \in Seq(Params)
    BY DEF IInv, OverrideIsCurrent, SavedHolds
  <2>2. CASE HasOverride(saved)
    <3>1. override = OverrideOf(saved, available)
      BY <2>1, <2>2 DEF Refreshed
    <3>2. /\ override.components = Overridden(Here(saved))
          /\ override.folders = {layer.folder : layer \in
               {layer \in Range(available) : layer.key \in Range(Overridden(Here(saved)))}}
      BY <3>1 DEF OverrideOf
    <3> QED
      BY <3>2 DEF OverrideFindsLayers
  <2>3. CASE ~HasOverride(saved)
    <3> DEFINE some == Here(saved)
               keys == Overridden(some)
    <3>1. override.components = << >>
      BY <2>1, <2>3 DEF Refreshed, NoOverride
    <3>2. some \in Seq(Params) /\ Range(some) = Range(saved) \cap {p \in Range(saved) : p.here}
      BY <2>1, OnlyHolds DEF Here
    <3> HIDE DEF some
    <3>3. keys \in Seq({p.key : p \in Range(some)}) /\ \E place : Names(keys, place, some)
      BY <3>2, OverriddenNames
    <3>4. PICK place : Names(keys, place, some)
      BY <3>3
    <3> HIDE DEF keys
    <3>5. \A n \in 1..Len(some) : some[n].state = "app"
      <4>1. \A n \in 1..Len(some) : some[n] \in Range(some)
        BY <3>2 DEF Range
      <4>2. \A p \in Range(some) : \E n \in DOMAIN saved : p = saved[n] /\ p.here
        BY <3>2 DEF Range
      <4> QED
        BY <2>3, <4>1, <4>2 DEF HasOverride
    <3>6. Len(keys) = 0
      <4>1. \A i \in 1..Len(keys) : place[i] \in 1..Len(some) /\ some[place[i]].state = "overridden"
        BY <3>4 DEF Names
      <4>2. 1 \notin 1..Len(keys)
        BY <3>5, <4>1
      <4>3. Len(keys) \in Nat
        BY <3>3
      <4> QED
        BY <4>2, <4>3
    <3>7. keys = << >>
      BY <3>3, <3>6
    <3>8. \A key : key \notin Range(<< >>)
      BY DEF Range
    <3> QED
      BY <3>1, <3>7, <3>8 DEF OverrideFindsLayers, keys, some
  <2> QED
    BY <2>2, <2>3
<1> QED
  BY <1>1, InvariantHolds, PTL

(***************************************************************************)
(* Sorting what was in order.                                              *)
(***************************************************************************)

\* The order of overridden layers that are found and have places.
Ahead(layers) ==
    {pair \in Params \X Params :
       LET a == GetParameterOrdering(layers, pair[1])
           b == GetParameterOrdering(layers, pair[2])
       IN /\ pair[1].rank \in Nat /\ pair[2].rank \in Nat
          /\ a < b \/ (a = b /\ pair[1].rank < pair[2].rank)}

LEMMA AheadAsymmetric ==
    ASSUME NEW layers
    PROVE  Asymmetric(Ahead(layers))
<1> SUFFICES ASSUME NEW x, NEW y, <<x, y>> \in Ahead(layers), <<y, x>> \in Ahead(layers)
             PROVE  FALSE
  BY DEF Asymmetric
<1> DEFINE a == GetParameterOrdering(layers, x)
           b == GetParameterOrdering(layers, y)
<1>1. x \in Params /\ y \in Params /\ x.rank \in Nat /\ y.rank \in Nat
  BY DEF Ahead
<1>2. a \in 0..5 /\ b \in 0..5
  BY <1>1, FoundOrdering
<1>3. a < b \/ (a = b /\ x.rank < y.rank)
  BY DEF Ahead
<1>4. b < a \/ (b = a /\ y.rank < x.rank)
  BY DEF Ahead
<1> HIDE DEF a, b
<1> QED
  BY <1>1, <1>2, <1>3, <1>4

\* A list in the order of the numbers whose places grow.
LEMMA GrowingAhead ==
    ASSUME NEW layers, NEW list \in Seq(Params), Follows(list, Len(list), ByClass(layers)),
           RanksGrow(list)
    PROVE  OverriddenFollow(list, Ahead(layers))
<1> SUFFICES ASSUME NEW i \in 1..Len(list), NEW j \in 1..Len(list), i < j,
                    list[i].state = "overridden", list[j].state = "overridden"
             PROVE  <<list[i], list[j]>> \in Ahead(layers)
  BY DEF OverriddenFollow
<1> DEFINE a == GetParameterOrdering(layers, list[i])
           b == GetParameterOrdering(layers, list[j])
<1>1. list[i] \in Params /\ list[j] \in Params
  OBVIOUS
<1>2. a \in 0..5 /\ b \in 0..5
  BY <1>1, FoundOrdering
<1>3. a <= b
  BY DEF Follows, ByClass
<1>4. list[i].rank \in Nat /\ list[j].rank \in Nat /\ list[i].rank < list[j].rank
  BY DEF RanksGrow
<1> HIDE DEF a, b
<1>5. a < b \/ (a = b /\ list[i].rank < list[j].rank)
  BY <1>2, <1>3, <1>4
<1> QED
  BY <1>1, <1>4, <1>5 DEF Ahead, a, b

\* A sort of the parameters of a list that is in order gives the order of that
\* list, whatever Less says of the other layers.
LEMMA SortsTo ==
    ASSUME NEW layers, NEW x \in Seq(Params), NEW y \in Seq(Params),
           OverriddenFollow(x, Ahead(layers)), OverriddenWithin(x, y), OverriddenWithin(y, x),
           \A n \in 1..Len(y) : y[n].state = "overridden" =>
              y[n].key \in KeysOf(layers) /\ y[n].rank \in Nat,
           \A m, n \in 1..Len(y) :
              y[m].state = "overridden" /\ y[n].state = "overridden"
              /\ y[m].rank = y[n].rank => m = n
    PROVE  Overridden(Sorted(layers, y)) = Overridden(x)
<1> DEFINE s == Sorted(layers, y)
           n == Len(y)
<1>1. /\ s \in Seq(Params) /\ Len(s) = n /\ Within(s, n, y, n) /\ Within(y, n, s, n)
  BY SortPermutes
<1>2. Follows(s, n, ByRank(layers))
  BY SortsByRank
<1> HIDE DEF s
<1>3. \A i \in 1..n : s[i].state = "overridden" => s[i].rank \in Nat
  BY <1>1 DEF Within
<1>4. OverriddenFollow(s, Ahead(layers))
  <2> SUFFICES ASSUME NEW i \in 1..n, NEW j \in 1..n, i < j,
                      s[i].state = "overridden", s[j].state = "overridden"
               PROVE  <<s[i], s[j]>> \in Ahead(layers)
    BY <1>1 DEF OverriddenFollow
  <2> DEFINE a == GetParameterOrdering(layers, s[i])
             b == GetParameterOrdering(layers, s[j])
  <2>1. s[i] \in Params /\ s[j] \in Params
    BY <1>1
  <2>2. a \in 0..5 /\ b \in 0..5
    BY <2>1, FoundOrdering
  <2>3. a <= b /\ (a = b => s[i].rank < s[j].rank)
    BY <1>2 DEF Follows, ByRank, ByClass
  <2> HIDE DEF a, b
  <2>4. a < b \/ (a = b /\ s[i].rank < s[j].rank)
    BY <2>2, <2>3
  <2> QED
    BY <1>3, <2>1, <2>4 DEF Ahead, a, b
<1>5. OverriddenWithin(s, x)
  <2> SUFFICES ASSUME NEW i \in 1..n, s[i].state = "overridden" PROVE \E j \in 1..Len(x) : s[i] = x[j]
    BY <1>1 DEF OverriddenWithin
  <2>1. PICK k \in 1..n : s[i] = y[k]
    BY <1>1 DEF Within
  <2> QED
    BY <2>1 DEF OverriddenWithin
<1>6. OverriddenWithin(x, s)
  <2> SUFFICES ASSUME NEW i \in 1..Len(x), x[i].state = "overridden" PROVE \E j \in 1..n : x[i] = s[j]
    BY <1>1 DEF OverriddenWithin
  <2>1. PICK k \in 1..n : x[i] = y[k]
    BY DEF OverriddenWithin
  <2>2. PICK j \in 1..n : y[k] = s[j]
    BY <1>1 DEF Within
  <2> QED
    BY <2>1, <2>2
<1>7. Overridden(s) = Overridden(x)
  BY <1>1, <1>4, <1>5, <1>6, AheadAsymmetric, SameOrder
<1> QED
  BY <1>7 DEF s

LEMMA FoundKeys ==
    ASSUME NEW list \in Seq(Params), AllFound(list), NEW n \in 1..Len(list),
           list[n].state = "overridden"
    PROVE  list[n].key \in KeysOf(available)
<1> DEFINE keys == Overridden(list)
<1>1. /\ keys \in Seq({p.key : p \in Range(list)})
      /\ \E place : Names(keys, place, list)
  BY OverriddenNames
<1>2. PICK place : Names(keys, place, list)
  BY <1>1
<1> HIDE DEF keys
<1>3. PICK i \in 1..Len(keys) : keys[i] = list[n].key
  BY <1>2 DEF Names
<1>4. DOMAIN keys = 1..Len(keys)
  BY <1>1
<1>5. keys[i] \in Range(keys)
  BY <1>3, <1>4 DEF Range
<1> QED
  BY <1>3, <1>5 DEF AllFound, keys

\* Completing and ordering a configuration that is in order.
LEMMA BuildSettles ==
    ASSUME NEW list \in Seq(Params), OneEach(list), available \in Catalogs, AllFound(list),
           Follows(list, Len(list), ByClass(available)), RanksGrow(list)
    PROVE  Overridden(BuildParameters(list, available)) = Overridden(list)
<1> DEFINE all == Completed(list, available)
<1>1. /\ all \in Seq(Params) /\ OneEach(all)
      /\ \A i \in 1..Len(all) : \/ all[i].state = "app"
                                \/ \E j \in 1..Len(list) : all[i] = list[j]
      /\ \A j \in 1..Len(list) : \E i \in 1..Len(all) : all[i] = list[j]
  BY Completes
<1>2. BuildParameters(list, available) = OrderParameter(all, available)
  BY Builds
<1> HIDE DEF all
<1>3. Overridden(BuildParameters(list, available)) = Overridden(Sorted(available, all))
  BY <1>1, <1>2, Orders
<1>4. \A i \in 1..Len(all) : all[i].state = "overridden" => \E j \in 1..Len(list) : all[i] = list[j]
  BY <1>1
<1>5. OverriddenWithin(list, all) /\ OverriddenWithin(all, list)
  BY <1>1, <1>4 DEF OverriddenWithin
<1>6. ASSUME NEW i \in 1..Len(all), all[i].state = "overridden"
      PROVE  all[i].key \in KeysOf(available) /\ all[i].rank \in Nat
  <2>1. PICK j \in 1..Len(list) : all[i] = list[j]
    BY <1>4, <1>6
  <2> QED
    BY <1>6, <2>1, FoundKeys DEF RanksGrow
<1>7. ASSUME NEW m \in 1..Len(all), NEW n \in 1..Len(all), all[m].state = "overridden",
             all[n].state = "overridden", all[m].rank = all[n].rank
      PROVE  m = n
  <2>1. PICK i \in 1..Len(list) : all[m] = list[i]
    BY <1>4, <1>7
  <2>2. PICK j \in 1..Len(list) : all[n] = list[j]
    BY <1>4, <1>7
  <2>3. list[i].rank \in Nat /\ list[j].rank \in Nat /\ list[i].rank = list[j].rank
    BY <1>6, <1>7, <2>1, <2>2
  <2>4. ~(i < j) /\ ~(j < i)
    <3>1. i < j => list[i].rank < list[j].rank
      BY <1>7, <2>1, <2>2 DEF RanksGrow
    <3>2. j < i => list[j].rank < list[i].rank
      BY <1>7, <2>1, <2>2 DEF RanksGrow
    <3> QED
      BY <2>3, <3>1, <3>2
  <2>5. i = j
    BY <2>4
  <2> QED
    BY <1>1, <2>1, <2>2, <2>5 DEF OneEach
<1>8. Overridden(Sorted(available, all)) = Overridden(list)
  BY <1>1, <1>5, <1>6, <1>7, GrowingAhead, SortsTo
<1> QED
  BY <1>3, <1>8

\* Opening the dialog and accepting it without a click leaves the overridden
\* layers in their order, while each is found and none has come or gone since
\* they were ordered: the sort of a list that was sorted changes nothing
\* (parameter.cpp, OrderParameter; dialog_layers.cpp).
THEOREM OrderSettledCorrect == Spec => OrderSettled
<1>1. ASSUME IInv, [Next]_vars
      PROVE  (open /\ ~open' /\ clicks = 0 /\ AllFound(saved) /\ known = available)
               => Overridden(saved') = Overridden(saved)
  <2> SUFFICES ASSUME open, ~open', clicks = 0, AllFound(saved), known = available
               PROVE  Overridden(saved') = Overridden(saved)
    OBVIOUS
  <2>1. CASE accept
    <3>1. saved' = FilterParameters(working, "app") /\ working = BuildParameters(saved, available)
      BY <1>1, <2>1 DEF accept, IInv, WorkingHolds
    <3>2. /\ saved \in Seq(Params) /\ OneEach(saved)
          /\ working \in Seq(Params) /\ OneEach(working)
          /\ available \in Catalogs
      BY <1>1, Held
    <3>3. Overridden(saved') = Overridden(working)
      BY <3>1, <3>2, Filters
    <3>4. Follows(saved, Len(saved), ByClass(available)) /\ RanksGrow(saved)
      BY <1>1 DEF IInv, SavedHolds
    <3>5. Overridden(BuildParameters(saved, available)) = Overridden(saved)
      BY <3>2, <3>4, BuildSettles
    <3> QED
      BY <3>1, <3>3, <3>5
  <2>2. CASE reject
    BY <2>2 DEF reject
  <2>3. CASE UNCHANGED vars
    BY <2>3 DEF vars, app
  <2>4. ~Open
    BY DEF Open
  <2>5. ~\E key \in Keys, state \in States : layerUseChanged(key, state)
    BY DEF layerUseChanged
  <2>6. ~\E n \in 1..Cardinality(Keys) : OverrideOrder(n)
    BY DEF OverrideOrder
  <2>7. ~on_pushButtonResetLayers_clicked
    BY DEF on_pushButtonResetLayers_clicked
  <2>8. ~on_pushButtonCustomLayers_clicked
    BY DEF on_pushButtonCustomLayers_clicked
  <2> QED
    BY <1>1, <2>1, <2>2, <2>3, <2>4, <2>5, <2>6, <2>7, <2>8 DEF Next
<1>2. IInv /\ [Next]_vars
      => [(open /\ ~open' /\ clicks = 0 /\ AllFound(saved) /\ known = available)
            => Overridden(saved') = Overridden(saved)]_vars
  BY <1>1
<1> QED
  BY <1>2, InvariantHolds, PTL DEF Spec, OrderSettled

(***************************************************************************)
(* Moving a layer.                                                         *)
(***************************************************************************)

\* A list in which two parameters have changed places.
Exchanged(list, u, l) ==
    [i \in 1..Len(list) |-> IF i = u THEN list[l] ELSE IF i = l THEN list[u] ELSE list[i]]

\* Two layers of one number that exchange their places change places in the
\* sort.
LEMMA SwapSorts ==
    ASSUME NEW layers, NEW list \in Seq(Params), OneEach(list), IsOrdered(list),
           Follows(list, Len(list), ByClass(layers)),
           \A i \in 1..Len(list) : list[i].state = "overridden" => list[i].key \in KeysOf(layers),
           NEW u \in 1..Len(list), NEW l \in 1..Len(list), u # l,
           list[u].state = "overridden", list[l].state = "overridden",
           GetParameterOrdering(layers, list[u]) = GetParameterOrdering(layers, list[l])
    PROVE  LET set == SwapRanks(list, list[u].key, list[l].key)
               x == Exchanged(set, u, l)
           IN /\ Overridden(Sorted(layers, set)) = Overridden(x)
              /\ x \in Seq(Params) /\ Len(x) = Len(list)
              /\ \A i \in 1..Len(list) :
                    /\ x[i].state = list[i].state
                    /\ x[i].key = IF i = u THEN list[l].key
                                  ELSE IF i = l THEN list[u].key ELSE list[i].key
<1> DEFINE set == SwapRanks(list, list[u].key, list[l].key)
           n == Len(list)
           x == Exchanged(set, u, l)
<1>1. n \in Nat /\ DOMAIN list = 1..n
  OBVIOUS
<1>2. /\ set \in Seq(Params) /\ Len(set) = n
      /\ \A i \in 1..n :
            /\ set[i].key = list[i].key /\ set[i].state = list[i].state
            /\ set[i].rank = IF i = u THEN list[l].rank
                             ELSE IF i = l THEN list[u].rank ELSE list[i].rank
  BY SwapsRanks
<1> HIDE DEF set
<1>3. /\ \A i \in 1..n : x[i] = IF i = u THEN set[l] ELSE IF i = l THEN set[u] ELSE set[i]
      /\ x \in Seq(Params) /\ Len(x) = n
  <2>1. \A i \in 1..n : set[i] \in Params
    BY <1>2
  <2>2. x = [i \in 1..n |-> IF i = u THEN set[l] ELSE IF i = l THEN set[u] ELSE set[i]]
    BY <1>2 DEF Exchanged
  <2>3. u \in 1..n /\ l \in 1..n
    OBVIOUS
  <2>4. x \in [1..n -> Params]
    <3> HIDE DEF x, n
    <3> QED
      BY <2>1, <2>2, <2>3
  <2>5. \A m \in Nat : \A f \in [1..m -> Params] : f \in Seq(Params) /\ Len(f) = m
    OBVIOUS
  <2> QED
    BY <1>1, <2>2, <2>4, <2>5
<1> HIDE DEF x, n
<1>4. u \in 1..n /\ l \in 1..n /\ u # l /\ list[u].state = "overridden" /\ list[l].state = "overridden"
  BY DEF n
<1>5. ASSUME NEW i \in 1..n
      PROVE  /\ x[i].state = list[i].state /\ x[i].rank = list[i].rank
             /\ x[i].key = IF i = u THEN list[l].key ELSE IF i = l THEN list[u].key ELSE list[i].key
  <2>1. CASE i = u
    BY <1>2, <1>3, <1>4, <2>1
  <2>2. CASE i = l
    BY <1>2, <1>3, <1>4, <2>2
  <2>3. CASE i # u /\ i # l
    BY <1>2, <1>3, <1>4, <2>3
  <2> QED
    BY <2>1, <2>2, <2>3
<1>6. RanksGrow(list)
  BY OrderedGrow
<1>7. RanksGrow(x)
  <2>1. /\ \A i \in 1..n : list[i].state = "overridden" => list[i].rank \in Nat
        /\ \A i, j \in 1..n :
              i < j /\ list[i].state = "overridden" /\ list[j].state = "overridden"
              => list[i].rank < list[j].rank
    BY <1>6 DEF RanksGrow, n
  <2> QED
    BY <1>3, <1>5, <2>1 DEF RanksGrow
<1>8. \A i \in 1..n : GetParameterOrdering(layers, x[i]) = GetParameterOrdering(layers, list[i])
  <2> SUFFICES ASSUME NEW i \in 1..n
               PROVE  GetParameterOrdering(layers, x[i]) = GetParameterOrdering(layers, list[i])
    OBVIOUS
  <2>1. CASE i = u
    <3>1. GetParameterOrdering(layers, x[i]) = GetParameterOrdering(layers, list[l])
      BY <1>4, <1>5, <2>1, SameOrdering
    <3> QED
      BY <2>1, <3>1
  <2>2. CASE i = l
    <3>1. GetParameterOrdering(layers, x[i]) = GetParameterOrdering(layers, list[u])
      BY <1>4, <1>5, <2>2, SameOrdering
    <3> QED
      BY <2>2, <3>1
  <2>3. CASE i # u /\ i # l
    BY <1>5, <2>3, SameOrdering
  <2> QED
    BY <2>1, <2>2, <2>3
<1>9. Follows(x, n, ByClass(layers))
  <2> SUFFICES ASSUME NEW i \in 1..n, NEW j \in 1..n, i < j
               PROVE  <<x[i], x[j]>> \in ByClass(layers)
    BY DEF Follows
  <2>1. <<list[i], list[j]>> \in ByClass(layers)
    BY DEF Follows, n
  <2>2. x[i] \in Params /\ x[j] \in Params
    BY <1>3
  <2>3. GetParameterOrdering(layers, list[i]) <= GetParameterOrdering(layers, list[j])
    BY <2>1 DEF ByClass
  <2>4. GetParameterOrdering(layers, x[i]) <= GetParameterOrdering(layers, x[j])
    BY <1>8, <2>3
  <2> QED
    BY <2>2, <2>4 DEF ByClass
<1>10. OverriddenFollow(x, Ahead(layers))
  BY <1>3, <1>7, <1>9, GrowingAhead
<1>11. OverriddenWithin(x, set) /\ OverriddenWithin(set, x)
  <2>1. \A i \in 1..n : \E j \in 1..n : x[i] = set[j]
    BY <1>3, <1>4
  <2>2. \A i \in 1..n : \E j \in 1..n : set[i] = x[j]
    BY <1>3, <1>4
  <2> QED
    BY <1>2, <1>3, <2>1, <2>2 DEF OverriddenWithin
<1>12. ASSUME NEW i \in 1..n, set[i].state = "overridden"
       PROVE  set[i].key \in KeysOf(layers) /\ set[i].rank \in Nat
  <2>1. list[i].key \in KeysOf(layers) /\ list[i].rank \in Nat
    BY <1>2, <1>6, <1>12 DEF RanksGrow, n
  <2>2. list[u].rank \in Nat /\ list[l].rank \in Nat
    BY <1>4, <1>6 DEF RanksGrow, n
  <2> QED
    BY <1>2, <2>1, <2>2
<1>13. ASSUME NEW i \in 1..n, NEW j \in 1..n, set[i].state = "overridden", set[j].state = "overridden",
              set[i].rank = set[j].rank
       PROVE  i = j
  <2> DEFINE from(k) == IF k = u THEN l ELSE IF k = l THEN u ELSE k
  <2>1. \A k \in 1..n : from(k) \in 1..n /\ set[k].rank = list[from(k)].rank
                        /\ (set[k].state = "overridden" => list[from(k)].state = "overridden")
    BY <1>2, <1>4
  <2>2. \A k \in 1..n : list[k].state = "overridden" => list[k].rank = k - 1
    BY <1>1 DEF IsOrdered
  <2>3. from(i) - 1 = from(j) - 1 /\ from(i) \in 1..n /\ from(j) \in 1..n
    <3> HIDE DEF from
    <3> QED
      BY <1>13, <2>1, <2>2
  <2>4. from(i) = from(j)
    <3> HIDE DEF from
    <3> QED
      BY <2>3
  <2> QED
    BY <1>4, <2>4
<1>14. Overridden(Sorted(layers, set)) = Overridden(x)
  BY <1>2, <1>3, <1>10, <1>11, <1>12, <1>13, SortsTo
<1> QED
  BY <1>3, <1>5, <1>14 DEF set, x, n

LEMMA MoveExchanges ==
    ASSUME IInv, NEW n, OverrideOrder(n), AllFound(working),
           Alike(Overridden(working)[n], Overridden(working)[n + 1])
    PROVE  LET shown == Overridden(working)
           IN Overridden(working') = [shown EXCEPT ![n] = shown[n + 1], ![n + 1] = shown[n]]
<1> DEFINE shown == Overridden(working)
           set == SwapRanks(working, shown[n], shown[n + 1])
           after == [shown EXCEPT ![n] = shown[n + 1], ![n + 1] = shown[n]]
<1>1. working' = OrderParameter(set, available)
  BY DEF OverrideOrder
<1>2. /\ working \in Seq(Params) /\ OneEach(working) /\ IsOrdered(working)
      /\ Follows(working, Len(working), ByClass(available))
  BY Held
<1>3. PICK place :
         /\ Len(shown) \in Nat /\ n \in 1..(Len(shown) - 1)
         /\ shown = [i \in 1..Len(shown) |-> shown[i]]
         /\ Names(shown, place, working)
         /\ place[n] \in 1..Len(working) /\ place[n + 1] \in 1..Len(working)
         /\ place[n] # place[n + 1]
         /\ shown[n] = working[place[n]].key /\ shown[n + 1] = working[place[n + 1]].key
         /\ working[place[n]].state = "overridden" /\ working[place[n + 1]].state = "overridden"
  BY Neighbours
<1>4. \A i \in 1..Len(working) : working[i].state = "overridden" => working[i].key \in KeysOf(available)
  BY <1>2, FoundKeys
<1>5. Alike(shown[n], shown[n + 1])
  OBVIOUS
<1> DEFINE u == place[n]
           l == place[n + 1]
<1>6. /\ u \in 1..Len(working) /\ l \in 1..Len(working) /\ u # l
      /\ working[u].state = "overridden" /\ working[l].state = "overridden"
      /\ shown[n] = working[u].key /\ shown[n + 1] = working[l].key
  BY <1>3
<1>7. shown \in Seq({p.key : p \in Range(working)})
  BY <1>2, OverriddenNames
<1> HIDE DEF shown, u, l
<1>8. GetParameterOrdering(available, working[u]) = GetParameterOrdering(available, working[l])
  <2>1. working[u].key \in KeysOf(available) /\ working[l].key \in KeysOf(available)
    BY <1>4, <1>6
  <2>2. working[u].state \in States /\ working[l].state \in States
    BY <1>6 DEF States
  <2>3. GetParameterOrdering(available, working[u])
          = IF FindByKey(available, working[u].key).type = "implicit" THEN 3 ELSE 4
    BY <1>6, <2>1, <2>2, Ordering
  <2>4. GetParameterOrdering(available, working[l])
          = IF FindByKey(available, working[l].key).type = "implicit" THEN 3 ELSE 4
    BY <1>6, <2>1, <2>2, Ordering
  <2>5. (FindByKey(available, working[u].key).type = "implicit")
          = (FindByKey(available, working[l].key).type = "implicit")
    BY <1>5, <1>6 DEF Alike
  <2> QED
    BY <2>3, <2>4, <2>5
<1> DEFINE x == Exchanged(set, u, l)
           m == Len(working)
<1>9. /\ Overridden(Sorted(available, set)) = Overridden(x)
      /\ x \in Seq(Params) /\ Len(x) = m
      /\ \A i \in 1..m :
            /\ x[i].state = working[i].state
            /\ x[i].key = IF i = u THEN working[l].key
                          ELSE IF i = l THEN working[u].key ELSE working[i].key
  BY <1>2, <1>4, <1>6, <1>8, SwapSorts
<1>10. set \in Seq(Params) /\ OneEach(set)
  BY <1>2, <1>6, SwapsRanks
<1> HIDE DEF set, x, m
<1>11. Overridden(working') = Overridden(x)
  BY <1>1, <1>9, <1>10, Orders
<1> DEFINE k == Len(shown)
<1>12. /\ k \in Nat /\ n \in 1..k /\ n + 1 \in 1..k /\ n # n + 1
       /\ shown = [i \in 1..k |-> shown[i]]
  BY <1>3
<1>13. /\ after \in Seq({p.key : p \in Range(working)}) /\ Len(after) = k
       /\ \A i \in 1..k : after[i] = IF i = n THEN shown[n + 1]
                                     ELSE IF i = n + 1 THEN shown[n] ELSE shown[i]
  BY <1>7, <1>12
<1>14. Names(after, place, x)
  <2> HIDE DEF after, k
  <2>1. /\ place \in [1..k -> 1..m]
        /\ \A i, j \in 1..k : i < j => place[i] < place[j]
        /\ \A i \in 1..k : /\ shown[i] = working[place[i]].key
                           /\ working[place[i]].state = "overridden"
        /\ \A j \in 1..m : working[j].state = "overridden" => \E i \in 1..k : place[i] = j
    BY <1>3 DEF Names, k, m
  <2>2. \A i \in 1..k : place[i] \in 1..m
    BY <2>1
  <2>3. \A i \in 1..k : /\ i # n => place[i] # u
                        /\ i # n + 1 => place[i] # l
    BY <1>12, <2>1, <2>2 DEF u, l
  <2>4. ASSUME NEW i \in 1..k
        PROVE  after[i] = x[place[i]].key /\ x[place[i]].state = "overridden"
    <3>1. x[place[i]].state = "overridden"
      BY <1>9, <2>1, <2>2
    <3>2. CASE i = n
      <4>1. place[i] = u
        BY <3>2 DEF u
      <4> QED
        BY <1>6, <1>9, <1>13, <3>1, <3>2, <4>1 DEF m
    <3>3. CASE i = n + 1
      <4>1. place[i] = l /\ l # u
        BY <1>6, <3>3 DEF l
      <4> QED
        BY <1>6, <1>9, <1>12, <1>13, <3>1, <3>3, <4>1 DEF m
    <3>4. CASE i # n /\ i # n + 1
      <4>1. place[i] # u /\ place[i] # l
        BY <2>3, <3>4
      <4> QED
        BY <1>9, <1>13, <2>1, <2>2, <3>1, <3>4, <4>1
    <3> QED
      BY <3>2, <3>3, <3>4
  <2>5. \A j \in 1..m : x[j].state = "overridden" => \E i \in 1..k : place[i] = j
    BY <1>9, <2>1
  <2> QED
    BY <1>9, <1>13, <2>1, <2>4, <2>5 DEF Names
<1> DEFINE over == Overridden(x)
<1>15. over \in Seq({p.key : p \in Range(x)}) /\ \E to : Names(over, to, x)
  BY <1>9, OverriddenNames
<1>16. PICK to : Names(over, to, x)
  BY <1>15
<1>17. Len(x) \in Nat
  BY <1>9
<1> HIDE DEF after, over
<1>18. over = after
  BY <1>13, <1>14, <1>15, <1>16, <1>17, NamedOnce
<1> QED
  BY <1>11, <1>18 DEF after, over, shown

\* Up and Down exchange a layer with its neighbour and leave the others where
\* they are, when both are implicit or both are not and each overridden layer
\* is found (override.cpp; dialog_layers.cpp, the list of overridden layers).
THEOREM MovesAsAskedCorrect == Spec => MovesAsAsked
<1>1. IInv /\ [Next]_vars
      => [\A n \in 1..Cardinality(Keys) :
            OverrideOrder(n) =>
              LET shown == Overridden(working)
              IN AllFound(working) /\ Alike(shown[n], shown[n + 1]) =>
                   Overridden(working') =
                     [shown EXCEPT ![n] = shown[n + 1], ![n + 1] = shown[n]]]_vars
  BY MoveExchanges
<1> QED
  BY <1>1, InvariantHolds, PTL DEF Spec, MovesAsAsked
=============================================================================
