--------------------------- MODULE TradingProofs ---------------------------
(***************************************************************************)
(* The order book is sane, trades take no more than was reserved, actors   *)
(* reserve exactly what their active orders require, no order is stored    *)
(* twice before a restart, at rest the actors agree with the book and keep *)
(* no promise, the final statuses say what was executed, and what the      *)
(* orders require is covered by the balances: for any orders, prices,      *)
(* owners, balances and bounds, as long as no client sends an order again  *)
(* after a restart.                                                        *)
(*                                                                         *)
(* From the bottom up: helpers (filtering a sequence, sums, rounding);     *)
(* the sides of a book, one round of matching and all of them; the state   *)
(* of an actor and its handlers; what trades execute, cost and pay in      *)
(* fees; the entries of the queue and what they make of the book; the      *)
(* invariant and its steps; what events tell of an order, what an actor    *)
(* makes of them, and the invariant of what is under way with its steps;   *)
(* the invariant of what has been executed; what is left of an order never *)
(* grows, what open orders require is covered, and the steps of both; the  *)
(* theorems.                                                               *)
(***************************************************************************)
EXTENDS Trading, SequenceTheorems, FiniteSetTheorems, WellFoundedInduction, TLAPS

----------------------------------------------------------------------------
(* Natural numbers and recursive functions *)

\* A nonempty set of naturals has a least element.
LEMMA NatLeast ==
  ASSUME NEW T, T \subseteq Nat, T # {}
  PROVE  \E m \in T : \A k \in T : m <= k
<1>1. PICK m \in T : \A y \in T : <<y, m>> \notin OpToRel(<, Nat)
  BY NatLessThanWellFounded, WFMin
<1> SUFFICES ASSUME NEW k \in T, k < m PROVE FALSE  OBVIOUS
<1>2. <<k, m>> \in Nat \X Nat  OBVIOUS
<1>3. <<k, m>> \in OpToRel(<, Nat)  BY <1>2 DEF OpToRel
<1>4. QED BY <1>1, <1>3

\* Induction up to a bound, for a set of naturals.
LEMMA Climb ==
  ASSUME NEW n \in Nat, NEW T, 0 \in T,
         \A k \in 0 .. n : k # n /\ k \in T => k + 1 \in T
  PROVE  \A k \in 0 .. n : k \in T
<1> DEFINE Missing == {k \in 0 .. n : k \notin T}
<1> SUFFICES ASSUME Missing # {} PROVE FALSE  OBVIOUS
<1>0. Missing \subseteq Nat  OBVIOUS
<1>1. PICK m \in Missing : \A k \in Missing : m <= k
  BY <1>0, NatLeast
<1>2. m \in 1 .. n /\ m - 1 \in 0 .. n /\ m - 1 # n  OBVIOUS
<1>3. m - 1 \in T  BY <1>1, <1>2
<1>4. (m - 1) + 1 = m  OBVIOUS
<1> QED BY <1>2, <1>3, <1>4

\* f begins with s0 and goes on by the steps.
StepsBy(f, n, s0, step) == f[0] = s0 /\ \A k \in 1 .. n : f[k] = step[k][f[k - 1]]

\* A function on 0 .. n can be defined step by step.
LEMMA Recursion ==
  ASSUME NEW S, NEW n \in Nat, NEW s0 \in S, NEW step \in [1 .. n -> [S -> S]]
  PROVE  \E f \in [0 .. n -> S] : StepsBy(f, n, s0, step)
<1> DEFINE Good(f, m) == /\ f \in [0 .. m -> S]
                         /\ f[0] = s0
                         /\ \A k \in 1 .. m : f[k] = step[k][f[k - 1]]
           T == {m \in 0 .. n : \E f : Good(f, m)}
<1>1. 0 \in T
  <2> DEFINE f == [k \in 0 .. 0 |-> s0]
  <2>1. Good(f, 0)  OBVIOUS
  <2> HIDE DEF f, Good
  <2> QED BY <2>1
<1>2. ASSUME NEW m \in 0 .. n, m # n, m \in T PROVE m + 1 \in T
  <2>1. PICK f : Good(f, m)  BY <1>2
  <2> DEFINE g == [k \in 0 .. m + 1 |-> IF k <= m THEN f[k] ELSE step[m + 1][f[m]]]
  <2>2. m + 1 \in 1 .. n /\ f[m] \in S  BY <1>2, <2>1
  <2>3. step[m + 1][f[m]] \in S  BY <2>2
  <2>4. g \in [0 .. m + 1 -> S]  BY <2>1, <2>3
  <2>5. g[0] = s0  BY <2>1
  <2>6. ASSUME NEW k \in 1 .. m + 1 PROVE g[k] = step[k][g[k - 1]]
    BY <2>1
  <2>7. Good(g, m + 1)  BY <2>4, <2>5, <2>6
  <2> HIDE DEF g, Good
  <2> QED BY <2>7, <2>2
<1>3. \A k \in 0 .. n : k # n /\ k \in T => k + 1 \in T
  BY <1>2
<1> HIDE DEF T
<1>4. \A k \in 0 .. n : k \in T  BY <1>1, <1>3, Climb
<1>5. n \in T  BY <1>4
<1>6. PICK f : Good(f, n)  BY <1>5 DEF T
<1> QED BY <1>6 DEF StepsBy

----------------------------------------------------------------------------
(* Sequences *)

\* f[n] is what Where keeps of the first n elements of s.
Keeps(f, s, S) ==
  /\ f[0] = <<>>
  /\ \A n \in 1 .. Len(s) :
       f[n] = IF s[n] \in S THEN Append(f[n - 1], s[n]) ELSE f[n - 1]

\* Where is computed by such a function.
LEMMA WhereUnfolds ==
  ASSUME NEW T, NEW s \in Seq(T), NEW S
  PROVE  \E f \in [0 .. Len(s) -> Seq(T)] : Keeps(f, s, S) /\ Where(s, S) = f[Len(s)]
<1> DEFINE N == Len(s)
           Is(f) == f = [n \in 0 .. N |->
                           IF n = 0 THEN <<>>
                           ELSE IF s[n] \in S THEN Append(f[n - 1], s[n]) ELSE f[n - 1]]
           chosen == CHOOSE f : Is(f)
           step == [n \in 1 .. N |-> [x \in Seq(T) |->
                      IF s[n] \in S THEN Append(x, s[n]) ELSE x]]
<1>1. N \in Nat /\ \A n \in 1 .. N : s[n] \in T  OBVIOUS
<1>2. step \in [1 .. N -> [Seq(T) -> Seq(T)]]  BY <1>1
<1>3. <<>> \in Seq(T)  OBVIOUS
<1> HIDE DEF N, step
<1>4. PICK f \in [0 .. N -> Seq(T)] : StepsBy(f, N, <<>>, step)
  BY <1>1, <1>2, <1>3, Recursion
<1>5. ASSUME NEW n \in 1 .. N
      PROVE  f[n] = IF s[n] \in S THEN Append(f[n - 1], s[n]) ELSE f[n - 1]
  <2>1. f[n] = step[n][f[n - 1]] /\ f[n - 1] \in Seq(T)
    BY <1>1, <1>4 DEF StepsBy
  <2>2. QED BY <2>1 DEF step
<1>6. Is(f)
  <2> DEFINE g == [n \in 0 .. N |->
                     IF n = 0 THEN <<>>
                     ELSE IF s[n] \in S THEN Append(f[n - 1], s[n]) ELSE f[n - 1]]
  <2>1. ASSUME NEW n \in 0 .. N PROVE f[n] = g[n]
    <3>1. n = 0 \/ n \in 1 .. N  BY <1>1
    <3> QED BY <3>1, <1>4, <1>5 DEF StepsBy
  <2>2. DOMAIN f = 0 .. N /\ f = [n \in 0 .. N |-> f[n]]
    BY <1>4
  <2> QED BY <2>1, <2>2
<1>7. Is(chosen)  BY <1>6
<1>8. Where(s, S) = chosen[N]  BY DEF Where, N
<1> HIDE DEF chosen
<1>9. chosen[0] = <<>> /\ \A n \in 1 .. N :
        chosen[n] = IF s[n] \in S THEN Append(chosen[n - 1], s[n]) ELSE chosen[n - 1]
  <2>1. 0 \in 0 .. N /\ \A n \in 1 .. N : n \in 0 .. N /\ n # 0
    BY <1>1
  <2>2. \A n \in 0 .. N :
          chosen[n] = IF n = 0 THEN <<>>
                      ELSE IF s[n] \in S THEN Append(chosen[n - 1], s[n]) ELSE chosen[n - 1]
    BY <1>7
  <2> QED BY <2>1, <2>2
<1> DEFINE Same == {n \in 0 .. N : chosen[n] = f[n]}
<1>10. 0 \in Same  BY <1>1, <1>4, <1>9 DEF StepsBy
<1>11. ASSUME NEW n \in 0 .. N, n # N, n \in Same PROVE n + 1 \in Same
  <2>1. n + 1 \in 1 .. N /\ (n + 1) - 1 = n  BY <1>1, <1>11
  <2>2. QED BY <2>1, <1>5, <1>9, <1>11
<1>12. \A n \in 0 .. N : n \in Same
  BY <1>1, <1>10, <1>11, Climb
<1>13. Where(s, S) = f[N]  BY <1>1, <1>8, <1>12
<1>14. Keeps(f, s, S)  BY <1>4, <1>5 DEF Keeps, StepsBy, N
<1> QED BY <1>4, <1>13, <1>14 DEF N

\* What is in a sequence with one element more.
LEMMA ToSetAppend ==
  ASSUME NEW T, NEW s \in Seq(T), NEW e \in T
  PROVE  Append(s, e) \in Seq(T) /\ ToSet(Append(s, e)) = ToSet(s) \cup {e}
<1>1. Append(s, e) \in Seq(T) /\ Len(Append(s, e)) = Len(s) + 1 /\ Len(s) \in Nat
  OBVIOUS
<1>2. ASSUME NEW i \in 1 .. Len(s) PROVE Append(s, e)[i] = s[i]
  OBVIOUS
<1>3. Append(s, e)[Len(s) + 1] = e  OBVIOUS
<1>4. DOMAIN s = 1 .. Len(s) /\ DOMAIN Append(s, e) = 1 .. Len(s) + 1
  BY <1>1
<1>5. 1 .. Len(s) + 1 = (1 .. Len(s)) \cup {Len(s) + 1}
  BY <1>1
<1> QED BY <1>1, <1>2, <1>3, <1>4, <1>5 DEF ToSet

\* Where keeps exactly the elements that are in the set.
LEMMA WhereElements ==
  ASSUME NEW T, NEW s \in Seq(T), NEW S
  PROVE  Where(s, S) \in Seq(T) /\ ToSet(Where(s, S)) = ToSet(s) \cap S
<1>1. PICK f \in [0 .. Len(s) -> Seq(T)] : Keeps(f, s, S) /\ Where(s, S) = f[Len(s)]
  BY WhereUnfolds
<1> DEFINE N == Len(s)
           Upto(n) == {s[i] : i \in 1 .. n}
           Good == {n \in 0 .. N : ToSet(f[n]) = Upto(n) \cap S}
<1>2. N \in Nat /\ DOMAIN s = 1 .. N /\ \A n \in 1 .. N : s[n] \in T
  OBVIOUS
<1>3. 0 \in Good  BY <1>1, <1>2 DEF Keeps, ToSet
<1>4. ASSUME NEW n \in 0 .. N, n # N, n \in Good PROVE n + 1 \in Good
  <2>0. N \in Nat /\ n # N  BY <1>2, <1>4
  <2>1. n + 1 \in 1 .. N /\ (n + 1) - 1 = n /\ n + 1 \in 0 .. N
    BY <2>0
  <2>2. f[n + 1] = IF s[n + 1] \in S THEN Append(f[n], s[n + 1]) ELSE f[n]
    BY <1>1, <2>1 DEF Keeps
  <2>3. f[n] \in Seq(T) /\ s[n + 1] \in T  BY <1>1, <1>2, <2>1
  <2>4. 1 .. n + 1 = (1 .. n) \cup {n + 1}  BY <1>2
  <2>5. Upto(n + 1) = Upto(n) \cup {s[n + 1]}  BY <2>4
  <2>6. ToSet(f[n]) = Upto(n) \cap S  BY <1>4
  <2>7. CASE s[n + 1] \in S
    <3>1. ToSet(f[n + 1]) = ToSet(f[n]) \cup {s[n + 1]}
      BY <2>2, <2>3, <2>7, ToSetAppend
    <3> HIDE DEF Upto
    <3> QED BY <3>1, <2>1, <2>5, <2>6, <2>7
  <2>8. CASE s[n + 1] \notin S
    BY <2>2, <2>8, <2>1, <2>5, <2>6
  <2> QED BY <2>7, <2>8
<1>5. \A n \in 0 .. N : n \in Good  BY <1>2, <1>3, <1>4, Climb
<1>6. ToSet(f[N]) = Upto(N) \cap S  BY <1>2, <1>5
<1>7. Upto(N) = ToSet(s)  BY <1>2 DEF ToSet
<1>8. f[N] \in Seq(T)  BY <1>1, <1>2
<1> QED BY <1>1, <1>6, <1>7, <1>8

\* Two functions that keep the same of a prefix that two sequences share agree on it.
LEMMA KeepsSame ==
  ASSUME NEW f, NEW g, NEW s, NEW t, NEW S, NEW R,
         Len(s) \in Nat, Len(t) \in Nat, Len(s) <= Len(t),
         Keeps(f, s, S), Keeps(g, t, R),
         \A i \in 1 .. Len(s) : s[i] = t[i] /\ (s[i] \in S <=> t[i] \in R)
  PROVE  \A k \in 0 .. Len(s) : f[k] = g[k]
<1> DEFINE n == Len(s)
           Good == {k \in 0 .. n : f[k] = g[k]}
<1>0. n \in Nat  OBVIOUS
<1>1. 0 \in Good  BY DEF Keeps
<1>2. ASSUME NEW k \in 0 .. n, k # n, k \in Good PROVE k + 1 \in Good
  BY <1>0, <1>2 DEF Keeps
<1>3. \A k \in 0 .. n : k \in Good  BY <1>0, <1>1, <1>2, Climb
<1> QED BY <1>3

\* Where looks at no more of the set than the sequence has.
LEMMA WhereSame ==
  ASSUME NEW T, NEW s \in Seq(T), NEW S, NEW R, ToSet(s) \cap S = ToSet(s) \cap R
  PROVE  Where(s, S) = Where(s, R)
<1>1. PICK f \in [0 .. Len(s) -> Seq(T)] : Keeps(f, s, S) /\ Where(s, S) = f[Len(s)]
  BY WhereUnfolds
<1>2. PICK g \in [0 .. Len(s) -> Seq(T)] : Keeps(g, s, R) /\ Where(s, R) = g[Len(s)]
  BY WhereUnfolds
<1>3. Len(s) \in Nat /\ DOMAIN s = 1 .. Len(s)  OBVIOUS
<1>4. \A i \in 1 .. Len(s) : s[i] = s[i] /\ (s[i] \in S <=> s[i] \in R)
  BY <1>3 DEF ToSet
<1>5. \A k \in 0 .. Len(s) : f[k] = g[k]
  <2>1. Len(s) <= Len(s)  BY <1>3
  <2>2. Keeps(f, s, S) /\ Keeps(g, s, R)  BY <1>1, <1>2
  <2> QED BY ONLY <2>1, <2>2, <1>3, <1>4, KeepsSame
<1> QED BY <1>1, <1>2, <1>3, <1>5

\* One element more
LEMMA WhereAppend ==
  ASSUME NEW T, NEW s \in Seq(T), NEW e \in T, NEW S
  PROVE  Where(Append(s, e), S) = IF e \in S THEN Append(Where(s, S), e) ELSE Where(s, S)
<1> DEFINE t == Append(s, e)
<1>1. t \in Seq(T) /\ Len(t) = Len(s) + 1 /\ Len(s) \in Nat /\ t[Len(s) + 1] = e
  OBVIOUS
<1>2. \A i \in 1 .. Len(s) : t[i] = s[i]  OBVIOUS
<1> HIDE DEF t
<1>3. PICK f \in [0 .. Len(t) -> Seq(T)] : Keeps(f, t, S) /\ Where(t, S) = f[Len(t)]
  BY <1>1, WhereUnfolds
<1>4. PICK g \in [0 .. Len(s) -> Seq(T)] : Keeps(g, s, S) /\ Where(s, S) = g[Len(s)]
  BY WhereUnfolds
<1>5. \A k \in 0 .. Len(s) : g[k] = f[k]
  <2>1. \A i \in 1 .. Len(s) : s[i] = t[i] /\ (s[i] \in S <=> t[i] \in S)
    BY <1>2
  <2>2. Len(s) \in Nat /\ Len(t) \in Nat /\ Len(s) <= Len(t)
    BY <1>1
  <2> QED BY <1>3, <1>4, <2>1, <2>2, KeepsSame
<1>6. f[Len(s)] = g[Len(s)]  BY <1>1, <1>5
<1>7. Len(s) + 1 \in 1 .. Len(t) /\ (Len(s) + 1) - 1 = Len(s)
  BY <1>1
<1>8. f[Len(s) + 1] = IF t[Len(s) + 1] \in S THEN Append(f[Len(s)], t[Len(s) + 1]) ELSE f[Len(s)]
  BY <1>3, <1>7 DEF Keeps
<1> QED BY <1>1, <1>3, <1>4, <1>6, <1>8 DEF t

LEMMA WhereNothing == \A S : Where(<<>>, S) = <<>>
<1> SUFFICES ASSUME NEW S PROVE Where(<<>>, S) = <<>>  OBVIOUS
<1>1. <<>> \in Seq({}) /\ Len(<<>>) = 0  OBVIOUS
<1>2. PICK f \in [0 .. Len(<<>>) -> Seq({})] :
        Keeps(f, <<>>, S) /\ Where(<<>>, S) = f[Len(<<>>)]
  BY <1>1, WhereUnfolds
<1> QED BY <1>1, <1>2 DEF Keeps

----------------------------------------------------------------------------
(* Sums *)

OneOf(s) == CHOOSE x \in s : TRUE

\* iter[s] is the sum of the values of f on s, one argument after the other.
SumsUp(iter, f) ==
  \A s \in SUBSET DOMAIN f :
    iter[s] = IF s = {} THEN 0 ELSE f[OneOf(s)] + iter[s \ {OneOf(s)}]

\* A nonempty subset of a finite set, without one of its elements
LEMMA OneLess ==
  ASSUME NEW D, IsFiniteSet(D), NEW s \in SUBSET D, NEW x \in s
  PROVE  /\ IsFiniteSet(s) /\ s \ {x} \in SUBSET D
         /\ Cardinality(s) \in Nat /\ Cardinality(s) > 0
         /\ Cardinality(s \ {x}) = Cardinality(s) - 1
<1>1. IsFiniteSet(s)  BY FS_Subset
<1>2. Cardinality(s) \in Nat  BY <1>1, FS_CardinalityType
<1>3. Cardinality(s) # 0  BY <1>1, FS_EmptySet
<1>4. Cardinality(s \ {x}) = Cardinality(s) - 1
  BY <1>1, FS_RemoveElement
<1> QED BY <1>1, <1>2, <1>3, <1>4

LEMMA OneOfIn ==
  ASSUME NEW s, s # {}
  PROVE  OneOf(s) \in s
  BY DEF OneOf

\* The sum of the values of a function is computed so.
LEMMA SumUnfolds ==
  ASSUME NEW f, IsFiniteSet(DOMAIN f), \A x \in DOMAIN f : f[x] \in Int
  PROVE  \E iter \in [SUBSET DOMAIN f -> Int] : SumsUp(iter, f) /\ Sum(f) = iter[DOMAIN f]
<1> DEFINE D == DOMAIN f
           N == Cardinality(D)
           Is(iter) == iter = [s \in SUBSET D |->
                         IF s = {} THEN 0
                         ELSE f[CHOOSE x \in s : TRUE] + iter[s \ {CHOOSE x \in s : TRUE}]]
           chosen == CHOOSE iter : Is(iter)
           Values == [SUBSET D -> Int]
           none == [s \in SUBSET D |-> 0]
           step == [n \in 1 .. N |-> [iter \in Values |-> [s \in SUBSET D |->
                      IF s = {} THEN 0 ELSE f[OneOf(s)] + iter[s \ {OneOf(s)}]]]]
<1>1. N \in Nat  BY FS_CardinalityType
<1>2. none \in Values  OBVIOUS
<1>3. ASSUME NEW iter \in Values
      PROVE  [s \in SUBSET D |-> IF s = {} THEN 0 ELSE f[OneOf(s)] + iter[s \ {OneOf(s)}]] \in Values
  BY OneOfIn
<1>4. step \in [1 .. N -> [Values -> Values]]  BY <1>3
<1>5. PICK g \in [0 .. N -> Values] : StepsBy(g, N, none, step)
  BY <1>1, <1>2, <1>4, Recursion
<1>6. ASSUME NEW n \in 1 .. N, NEW s \in SUBSET D
      PROVE  g[n][s] = IF s = {} THEN 0 ELSE f[OneOf(s)] + g[n - 1][s \ {OneOf(s)}]
  <2>1. n - 1 \in 0 .. N /\ g[n - 1] \in Values
    <3> HIDE DEF N, Values
    <3> QED BY <1>1, <1>5
  <2>2. g[n] = step[n][g[n - 1]]  BY <1>5 DEF StepsBy
  <2> HIDE DEF Values
  <2> QED BY <2>1, <2>2
\* After n steps the sums of the sets with at most n elements stay as they are.
<1> DEFINE Good == {n \in 0 .. N : \A s \in SUBSET D : Cardinality(s) <= n =>
                      \A m \in n .. N : g[m][s] = g[n][s]}
<1>7. 0 \in Good
  <2> SUFFICES ASSUME NEW s \in SUBSET D, Cardinality(s) <= 0, NEW m \in 0 .. N
               PROVE  g[m][s] = g[0][s]
    BY <1>1
  <2>1. s = {}  BY FS_Subset, FS_CardinalityType, FS_EmptySet
  <2>2. g[0][s] = 0  BY <1>5 DEF StepsBy
  <2>3. CASE m = 0  BY <2>3
  <2>4. CASE m # 0
    <3>1. m \in 1 .. N  BY <1>1, <2>4
    <3> QED BY <1>6, <2>1, <2>2, <3>1
  <2> QED BY <2>3, <2>4
<1>8. ASSUME NEW n \in 0 .. N, n # N, n \in Good PROVE n + 1 \in Good
  <2> HIDE DEF N, step, Values
  <2>0. n \in Nat /\ n + 1 \in 0 .. N /\ n + 1 \in 1 .. N /\ (n + 1) - 1 = n
    BY <1>1, <1>8
  <2> SUFFICES ASSUME NEW s \in SUBSET D, Cardinality(s) <= n + 1, NEW m \in n + 1 .. N
               PROVE  g[m][s] = g[n + 1][s]
    BY <2>0
  <2>1. m \in 1 .. N /\ m - 1 \in n .. N  BY <1>1, <2>0
  <2>2. CASE s = {}  BY <1>6, <2>0, <2>1, <2>2
  <2>3. CASE s # {}
    <3> DEFINE r == s \ {OneOf(s)}
    <3>1. r \in SUBSET D /\ Cardinality(s) \in Nat /\ Cardinality(r) = Cardinality(s) - 1
      BY <2>3, OneOfIn, OneLess
    <3>2. Cardinality(r) <= n  BY <2>0, <3>1
    <3>3. g[m - 1][r] = g[n][r]  BY <1>8, <2>1, <3>1, <3>2
    <3>4. g[m][s] = f[OneOf(s)] + g[m - 1][r]
      BY <1>6, <2>1, <2>3
    <3>5. g[n + 1][s] = f[OneOf(s)] + g[n][r]
      BY <1>6, <2>0, <2>3
    <3> QED BY <3>3, <3>4, <3>5
  <2> QED BY <2>2, <2>3
<1>9. \A n \in 0 .. N : n \in Good  BY <1>1, <1>7, <1>8, Climb
<1>10. g[N] \in Values /\ Is(g[N])
  <2>0. g[N] \in Values  BY <1>1, <1>5
  <2>1. ASSUME NEW s \in SUBSET D
        PROVE  g[N][s] = IF s = {} THEN 0 ELSE f[OneOf(s)] + g[N][s \ {OneOf(s)}]
    <3> HIDE DEF Values, step
    <3>1. CASE N = 0  BY <3>1, FS_EmptySet, <1>5 DEF StepsBy
    <3>2. CASE N # 0 /\ s = {}
      <4>1. N \in 1 .. N  BY <1>1, <3>2
      <4> QED BY <3>2, <4>1, <1>6
    <3>3. CASE N # 0 /\ s # {}
      <4> DEFINE r == s \ {OneOf(s)}
      <4>1. r \in SUBSET D /\ Cardinality(s) \in Nat /\ Cardinality(r) = Cardinality(s) - 1
        BY <3>3, OneOfIn, OneLess
      <4>2. Cardinality(s) <= N  BY FS_Subset
      <4>3. N \in 1 .. N /\ N - 1 \in 0 .. N /\ N \in N - 1 .. N
        BY <1>1, <3>3
      <4>4. Cardinality(r) <= N - 1  BY <1>1, <4>1, <4>2
      <4>5. g[N][r] = g[N - 1][r]  BY <1>9, <4>3, <4>1, <4>4
      <4>6. g[N][s] = f[OneOf(s)] + g[N - 1][r]
        BY <1>6, <3>3, <4>3
      <4> QED BY <3>3, <4>5, <4>6
    <3> QED BY <3>1, <3>2, <3>3
  <2> DEFINE h == g[N]
  <2>2. h = [s \in SUBSET D |-> h[s]]  BY <2>0
  <2> HIDE DEF h
  <2>3. h = [s \in SUBSET D |-> IF s = {} THEN 0 ELSE f[OneOf(s)] + h[s \ {OneOf(s)}]]
    BY <2>1, <2>2 DEF h
  <2> QED BY <2>0, <2>3 DEF h, OneOf
<1>11. Is(chosen)
  <2> HIDE DEF Is
  <2> QED BY <1>10
<1>12. Sum(f) = chosen[D]
  BY DEF Sum, FoldFunction, FoldFunctionOnSet, MapThenFoldSet
<1> HIDE DEF chosen
<1>13. SumsUp(chosen, f)  BY <1>11 DEF SumsUp, OneOf
<1> DEFINE Typed == {n \in 0 .. N : \A s \in SUBSET D : Cardinality(s) = n => chosen[s] \in Int}
<1>14. 0 \in Typed
  <2> SUFFICES ASSUME NEW s \in SUBSET D, Cardinality(s) = 0 PROVE chosen[s] \in Int
    BY <1>1
  <2>1. s = {}  BY FS_Subset, FS_EmptySet
  <2>2. chosen[s] = 0  BY <2>1, <1>13 DEF SumsUp
  <2> QED BY <2>2
<1>15. ASSUME NEW n \in 0 .. N, n # N, n \in Typed PROVE n + 1 \in Typed
  <2> HIDE DEF N
  <2>0. n \in Nat /\ n + 1 \in 0 .. N  BY <1>1, <1>15
  <2> SUFFICES ASSUME NEW s \in SUBSET D, Cardinality(s) = n + 1 PROVE chosen[s] \in Int
    BY <2>0
  <2>1. s # {}
    <3>1. n + 1 # 0  BY <2>0
    <3>2. Cardinality(s) # 0  BY <3>1
    <3> QED BY <3>2, FS_EmptySet
  <2> DEFINE r == s \ {OneOf(s)}
  <2>2. r \in SUBSET D /\ Cardinality(r) = Cardinality(s) - 1
    BY <2>1, OneOfIn, OneLess
  <2>3. Cardinality(r) = n  BY <2>0, <2>2
  <2>4. chosen[r] \in Int  BY <1>15, <2>2, <2>3
  <2>5. chosen[s] = f[OneOf(s)] + chosen[r]
    BY <1>13, <2>1 DEF SumsUp
  <2>6. f[OneOf(s)] \in Int  BY <2>1, OneOfIn
  <2> QED BY <2>4, <2>5, <2>6
<1>16. \A n \in 0 .. N : n \in Typed
  <2> HIDE DEF Typed, N
  <2> QED BY <1>1, <1>14, <1>15, Climb
<1>17. ASSUME NEW s \in SUBSET D PROVE chosen[s] \in Int
  BY FS_Subset, FS_CardinalityType, <1>16
<1>18. chosen \in [SUBSET D -> Int]  BY <1>11, <1>17
<1> QED BY <1>12, <1>13, <1>18

\* The sum does not depend on the element taken first.
AnyFirst(iter, f) ==
  \A s \in SUBSET DOMAIN f : \A x \in s : iter[s] = f[x] + iter[s \ {x}]

LEMMA SumsUpAny ==
  ASSUME NEW f, IsFiniteSet(DOMAIN f), \A x \in DOMAIN f : f[x] \in Int,
         NEW iter \in [SUBSET DOMAIN f -> Int], SumsUp(iter, f)
  PROVE  AnyFirst(iter, f)
<1> DEFINE D == DOMAIN f
           N == Cardinality(D)
           Good == {n \in 0 .. N : \A t \in SUBSET D : Cardinality(t) = n =>
                      \A y \in t : iter[t] = f[y] + iter[t \ {y}]}
<1>1. N \in Nat  BY FS_CardinalityType
<1>2. 0 \in Good
  <2> SUFFICES ASSUME NEW t \in SUBSET D, Cardinality(t) = 0, NEW y \in t PROVE FALSE
    BY <1>1
  <2>1. Cardinality(t) > 0  BY OneLess
  <2> QED BY <2>1
<1>3. ASSUME NEW n \in 0 .. N, n # N, n \in Good PROVE n + 1 \in Good
  <2> HIDE DEF N
  <2>0. n \in Nat /\ n + 1 \in 0 .. N  BY <1>1, <1>3
  <2> SUFFICES ASSUME NEW t \in SUBSET D, Cardinality(t) = n + 1, NEW y \in t
               PROVE  iter[t] = f[y] + iter[t \ {y}]
    BY <2>0
  <2> DEFINE z == OneOf(t)
             r == t \ {y, z}
  <2>1. z \in t  BY OneOfIn
  <2> HIDE DEF z
  <2>2. iter[t] = f[z] + iter[t \ {z}]  BY DEF SumsUp, z
  <2>3. CASE y = z  BY <2>2, <2>3
  <2>4. CASE y # z
    <3>1. /\ t \ {z} \in SUBSET D /\ Cardinality(t \ {z}) = n
          /\ t \ {y} \in SUBSET D /\ Cardinality(t \ {y}) = n
      BY <2>1, OneLess, <2>0
    <3>2. y \in t \ {z} /\ z \in t \ {y}  BY <2>1, <2>4
    <3>3. iter[t \ {z}] = f[y] + iter[(t \ {z}) \ {y}]
      BY <1>3, <3>1, <3>2
    <3>4. iter[t \ {y}] = f[z] + iter[(t \ {y}) \ {z}]
      BY <1>3, <3>1, <3>2
    <3>5. (t \ {z}) \ {y} = r /\ (t \ {y}) \ {z} = r  OBVIOUS
    <3>6. f[y] \in Int /\ f[z] \in Int /\ iter[r] \in Int
      BY <2>1
    <3> HIDE DEF r
    <3>7. iter[t \ {z}] = f[y] + iter[r] /\ iter[t \ {y}] = f[z] + iter[r]
      BY <3>3, <3>4, <3>5
    <3> QED BY <2>2, <3>6, <3>7
  <2> QED BY <2>3, <2>4
<1>4. \A n \in 0 .. N : n \in Good  BY <1>1, <1>2, <1>3, Climb
<1>5. \A s \in SUBSET D : Cardinality(s) \in 0 .. N
  BY FS_Subset, FS_CardinalityType
<1> QED BY <1>4, <1>5 DEF AnyFirst

\* What is computed for a set does not depend on the values elsewhere.
LEMMA SumsUpSame ==
  ASSUME NEW f, NEW g, IsFiniteSet(DOMAIN f), IsFiniteSet(DOMAIN g),
         \A x \in DOMAIN f : f[x] \in Int,
         NEW iter, SumsUp(iter, f), NEW jter, SumsUp(jter, g),
         DOMAIN g \subseteq DOMAIN f, \A x \in DOMAIN g : g[x] = f[x]
  PROVE  iter[DOMAIN g] = jter[DOMAIN g]
<1> DEFINE D == DOMAIN g
           N == Cardinality(D)
           Good == {n \in 0 .. N : \A t \in SUBSET D : Cardinality(t) = n => iter[t] = jter[t]}
<1>1. N \in Nat  BY FS_CardinalityType
<1>2. 0 \in Good
  <2> SUFFICES ASSUME NEW t \in SUBSET D, Cardinality(t) = 0 PROVE iter[t] = jter[t]
    BY <1>1
  <2>1. t = {}  BY FS_Subset, FS_EmptySet
  <2>2. iter[t] = 0 /\ jter[t] = 0  BY <2>1 DEF SumsUp
  <2> QED BY <2>2
<1>3. ASSUME NEW n \in 0 .. N, n # N, n \in Good PROVE n + 1 \in Good
  <2> HIDE DEF N
  <2>0. n \in Nat /\ n + 1 \in 0 .. N  BY <1>1, <1>3
  <2> SUFFICES ASSUME NEW t \in SUBSET D, Cardinality(t) = n + 1 PROVE iter[t] = jter[t]
    BY <2>0
  <2>1. t # {}  BY <2>0, FS_EmptySet
  <2> DEFINE r == t \ {OneOf(t)}
  <2>2. OneOf(t) \in t  BY <2>1, OneOfIn
  <2>3. r \in SUBSET D /\ Cardinality(r) = Cardinality(t) - 1
    BY <2>2, OneLess
  <2>4. Cardinality(r) = n  BY <2>0, <2>3
  <2>5. iter[r] = jter[r]  BY <1>3, <2>3, <2>4
  <2>6. iter[t] = f[OneOf(t)] + iter[r] /\ jter[t] = g[OneOf(t)] + jter[r]
    BY <2>1 DEF SumsUp
  <2>7. g[OneOf(t)] = f[OneOf(t)]  BY <2>2
  <2> QED BY <2>5, <2>6, <2>7
<1>4. \A n \in 0 .. N : n \in Good  BY <1>1, <1>2, <1>3, Climb
<1>5. N \in 0 .. N  BY <1>1
<1> QED BY <1>4, <1>5

LEMMA SumNone == ASSUME NEW f, DOMAIN f = {} PROVE Sum(f) = 0
<1>1. IsFiniteSet(DOMAIN f)  BY FS_EmptySet
<1>2. PICK iter \in [SUBSET DOMAIN f -> Int] : SumsUp(iter, f) /\ Sum(f) = iter[DOMAIN f]
  BY <1>1, SumUnfolds
<1> QED BY <1>2 DEF SumsUp

\* A sum is an integer; it is the value at any argument and the sum of the rest.
LEMMA SumSplits ==
  ASSUME NEW f, IsFiniteSet(DOMAIN f), \A x \in DOMAIN f : f[x] \in Int
  PROVE  /\ Sum(f) \in Int
         /\ \A x \in DOMAIN f : \A g :
              DOMAIN g = DOMAIN f \ {x} /\ (\A y \in DOMAIN g : g[y] = f[y])
                => Sum(f) = f[x] + Sum(g) /\ Sum(g) \in Int
<1>1. PICK iter \in [SUBSET DOMAIN f -> Int] : SumsUp(iter, f) /\ Sum(f) = iter[DOMAIN f]
  BY SumUnfolds
<1>2. Sum(f) \in Int  BY <1>1
<1>3. ASSUME NEW x \in DOMAIN f, NEW g, DOMAIN g = DOMAIN f \ {x},
             \A y \in DOMAIN g : g[y] = f[y]
      PROVE  Sum(f) = f[x] + Sum(g) /\ Sum(g) \in Int
  <2>1. IsFiniteSet(DOMAIN g) /\ DOMAIN g \subseteq DOMAIN f
    BY <1>3, FS_Subset
  <2>2. \A y \in DOMAIN g : g[y] \in Int  BY <1>3
  <2>3. PICK jter \in [SUBSET DOMAIN g -> Int] : SumsUp(jter, g) /\ Sum(g) = jter[DOMAIN g]
    BY <2>1, <2>2, SumUnfolds
  <2>4. iter[DOMAIN g] = jter[DOMAIN g]
    BY <1>1, <1>3, <2>1, <2>3, SumsUpSame
  <2>5. iter[DOMAIN f] = f[x] + iter[DOMAIN f \ {x}]
    <3>1. AnyFirst(iter, f)  BY <1>1, SumsUpAny
    <3> QED BY <3>1 DEF AnyFirst
  <2> QED BY <1>1, <1>3, <2>3, <2>4, <2>5
<1> QED BY <1>2, <1>3

\* A function with one argument more than another
LEMMA SumOneMore ==
  ASSUME NEW f, NEW g, NEW x, x \notin DOMAIN g, IsFiniteSet(DOMAIN g),
         DOMAIN f = DOMAIN g \cup {x},
         \A y \in DOMAIN g : g[y] \in Int /\ f[y] = g[y], f[x] \in Int
  PROVE  Sum(f) = Sum(g) + f[x] /\ Sum(g) \in Int /\ Sum(f) \in Int
<1>1. IsFiniteSet(DOMAIN f)  BY FS_AddElement
<1>2. \A y \in DOMAIN f : f[y] \in Int  OBVIOUS
<1>3. DOMAIN g = DOMAIN f \ {x} /\ x \in DOMAIN f /\ \A y \in DOMAIN g : g[y] = f[y]
  OBVIOUS
<1>4. Sum(f) = f[x] + Sum(g) /\ Sum(g) \in Int /\ Sum(f) \in Int
  BY <1>1, <1>2, <1>3, SumSplits
<1> QED BY <1>4

----------------------------------------------------------------------------
(* Rounding *)

LEMMA DivFloor ==
  ASSUME NEW a \in Nat, NEW b \in Nat, b > 0
  PROVE  /\ a \div b \in Nat
         /\ (a \div b) * b <= a
         /\ a < (a \div b) * b + b
  OBVIOUS

LEMMA DivLargest ==
  ASSUME NEW a \in Nat, NEW b \in Nat, b > 0, NEW q \in Nat, q * b <= a
  PROVE  q <= a \div b
  OBVIOUS

LEMMA DivGrows ==
  ASSUME NEW a \in Nat, NEW b \in Nat, NEW c \in Nat, c > 0, a <= b
  PROVE  a \div c <= b \div c
<1>1. a \div c \in Nat /\ (a \div c) * c <= a  BY DivFloor
<1>2. (a \div c) * c <= b  BY <1>1
<1> QED BY <1>1, <1>2, DivLargest

LEMMA TimesGrows ==
  ASSUME NEW x \in Nat, NEW y \in Nat, NEW z \in Nat, x <= y
  PROVE  x * z <= y * z /\ x * z \in Nat /\ y * z \in Nat
  OBVIOUS

\* Two parts rounded down are no more than their sum rounded down.
LEMMA DivAdds ==
  ASSUME NEW a \in Nat, NEW b \in Nat, NEW c \in Nat, c > 0
  PROVE  (a \div c) + (b \div c) <= (a + b) \div c
<1> DEFINE p == a \div c
           q == b \div c
<1>1. p \in Nat /\ p * c <= a /\ q \in Nat /\ q * c <= b
  BY DivFloor
<1> HIDE DEF p, q
<1>2. (p + q) * c = p * c + q * c  BY <1>1
<1>3. (p + q) * c <= a + b /\ p + q \in Nat /\ a + b \in Nat
  BY <1>1, <1>2
<1>4. p + q <= (a + b) \div c  BY <1>3, DivLargest
<1> QED BY <1>4 DEF p, q

LEMMA CeilBounds ==
  ASSUME NEW a \in Nat, NEW b \in Nat, b > 0
  PROVE  /\ CeilDiv(a, b) \in Nat
         /\ a <= CeilDiv(a, b) * b
         /\ CeilDiv(a, b) * b < a + b
  BY DEF CeilDiv

LEMMA CeilSmallest ==
  ASSUME NEW a \in Nat, NEW b \in Nat, b > 0, NEW q \in Nat, a <= q * b
  PROVE  CeilDiv(a, b) <= q
  BY DEF CeilDiv

----------------------------------------------------------------------------
(* Limit orders *)

LimitOrders == [id : Id, amount : Nat, fee : Nat]

LEMMA OrderFacts ==
  ASSUME NEW o \in Id
  PROVE  /\ Orders[o].amount \in Nat /\ Orders[o].amount > 0
         /\ Orders[o].price \in Nat /\ Orders[o].price > 0
         /\ Orders[o].matcherFee \in Nat
         /\ Orders[o].orderType \in Side
         /\ PriceConstant \in Nat /\ PriceConstant > 0
         /\ Orders[o].timestamp \in Nat /\ Orders[o].expiration \in Nat
  BY OrdersAssumption DEF Side

LEMMA PriceAmountFacts ==
  ASSUME NEW amount \in Nat, NEW price \in Nat
  PROVE  /\ PriceAmount(amount, price) \in Nat
         /\ PriceAmount(amount, price) * PriceConstant <= amount * price
         /\ PriceAmount(amount, price) * PriceConstant \in Nat
         /\ amount * price \in Nat
<1>1. amount * price \in Nat /\ PriceConstant \in Nat /\ PriceConstant > 0
  BY OrdersAssumption
<1> QED BY <1>1, DivFloor DEF PriceAmount

\* An amount is never corrected upwards.
LEMMA CorrectedFacts ==
  ASSUME NEW amount \in Nat, NEW price \in Nat, price > 0
  PROVE  /\ CorrectedAmount(amount, price) \in Nat
         /\ CorrectedAmount(amount, price) <= amount
         /\ PriceAmount(amount, price) > 0 => CorrectedAmount(amount, price) > 0
<1> DEFINE worth == PriceAmount(amount, price) * PriceConstant
<1>1. worth \in Nat /\ worth <= amount * price
  BY PriceAmountFacts
<1>2. PriceAmount(amount, price) > 0 => worth > 0
  <2> DEFINE x == PriceAmount(amount, price)
  <2>1. x \in Nat /\ PriceConstant \in Nat /\ PriceConstant > 0
    BY PriceAmountFacts, OrdersAssumption
  <2> HIDE DEF x
  <2>2. x > 0 => x * PriceConstant > 0  BY <2>1
  <2> QED BY <2>2 DEF x
<1> HIDE DEF worth
<1>3. CeilDiv(worth, price) \in Nat /\ worth <= CeilDiv(worth, price) * price
  BY <1>1, CeilBounds
<1>4. CeilDiv(worth, price) <= amount  BY <1>1, CeilSmallest
<1>5. worth > 0 => CeilDiv(worth, price) > 0  BY <1>1, <1>3
<1> QED BY <1>2, <1>3, <1>4, <1>5 DEF CorrectedAmount, worth

\* What is worth something at its price is valid: the other three conditions follow.
LEMMA ValidIsWorth ==
  ASSUME NEW lo \in LimitOrders
  PROVE  IsValid(lo) <=> PriceAmount(lo.amount, Price(lo)) > 0
<1>1. lo.id \in Id /\ lo.amount \in Nat  BY DEF LimitOrders
<1>2. Price(lo) \in Nat /\ Price(lo) > 0 /\ PriceConstant \in Nat /\ PriceConstant > 0
  BY <1>1, OrderFacts DEF Price
<1>3. ASSUME PriceAmount(lo.amount, Price(lo)) > 0 PROVE IsValid(lo)
  <2>1. CorrectedAmount(lo.amount, Price(lo)) > 0
    BY <1>1, <1>2, <1>3, CorrectedFacts
  <2>2. PriceAmount(lo.amount, Price(lo)) * PriceConstant <= lo.amount * Price(lo)
    BY <1>1, <1>2, PriceAmountFacts
  <2>3. PriceAmount(lo.amount, Price(lo)) \in Nat
    BY <1>1, <1>2, PriceAmountFacts
  <2>4. PriceConstant <= PriceAmount(lo.amount, Price(lo)) * PriceConstant
    BY <1>2, <1>3, <2>3
  <2>5. lo.amount * Price(lo) \in Nat
    BY <1>1, <1>2, PriceAmountFacts
  <2>6. PriceConstant <= lo.amount * Price(lo)
    <3> DEFINE x == PriceAmount(lo.amount, Price(lo)) * PriceConstant
    <3>1. x \in Nat  BY <1>2, <2>3
    <3> HIDE DEF x
    <3>2. PriceConstant <= x /\ x <= lo.amount * Price(lo)
      BY <2>2, <2>4 DEF x
    <3> QED BY <1>2, <2>5, <3>1, <3>2
  <2>7. CeilDiv(PriceConstant, Price(lo)) <= lo.amount
    BY <1>1, <1>2, <2>6, CeilSmallest
  <2>8. CeilDiv(PriceConstant, Price(lo)) \in Nat
    BY <1>2, CeilBounds
  <2>9. lo.amount > 0  BY <1>1, <1>2, <2>6
  <2> QED BY <1>1, <1>3, <2>1, <2>7, <2>8, <2>9 DEF IsValid, IsValidAt, MinimalAmount
<1>4. ASSUME IsValid(lo) PROVE PriceAmount(lo.amount, Price(lo)) > 0
  BY <1>4 DEF IsValid, IsValidAt
<1> QED BY <1>3, <1>4

\* An order is valid as its owner signed it.
LEMMA LimitOrderFacts ==
  ASSUME NEW o \in Id
  PROVE  LimitOrder(o) \in LimitOrders /\ IsValid(LimitOrder(o))
<1>1. LimitOrder(o) \in LimitOrders
  BY OrderFacts DEF LimitOrder, LimitOrders
<1>2. PriceAmount(LimitOrder(o).amount, Price(LimitOrder(o))) > 0
  BY OrdersAssumption DEF LimitOrder, Price, PriceAmount
<1> QED BY <1>1, <1>2, ValidIsWorth

LEMMA PartialFeeFacts ==
  ASSUME NEW o \in Id, NEW amount \in Nat
  PROVE  PartialFee(o, amount) \in Nat
  BY OrderFacts, DivFloor DEF PartialFee

LEMMA ExecutedFacts ==
  ASSUME NEW submitted \in LimitOrders, NEW counter \in LimitOrders
  PROVE  /\ ExecutedAmount(submitted, counter) \in Nat
         /\ ExecutedAmount(submitted, counter) <= submitted.amount
         /\ ExecutedAmount(submitted, counter) <= counter.amount
<1>1. /\ submitted.amount \in Nat /\ counter.amount \in Nat /\ counter.id \in Id
  BY DEF LimitOrders
<1>2. Price(counter) \in Nat /\ Price(counter) > 0
  BY <1>1, OrderFacts DEF Price
<1>3. /\ CorrectedAmount(submitted.amount, Price(counter)) \in Nat
      /\ CorrectedAmount(submitted.amount, Price(counter)) <= submitted.amount
      /\ CorrectedAmount(counter.amount, Price(counter)) \in Nat
      /\ CorrectedAmount(counter.amount, Price(counter)) <= counter.amount
  BY <1>1, <1>2, CorrectedFacts
<1> QED BY <1>1, <1>3 DEF ExecutedAmount, Least

LEMMA RemainingFacts ==
  ASSUME NEW lo \in LimitOrders, NEW executed \in Nat, executed <= lo.amount
  PROVE  /\ Remaining(lo, executed) \in LimitOrders
         /\ Remaining(lo, executed).id = lo.id
         /\ Remaining(lo, executed).amount = lo.amount - executed
<1>1. PartialFee(lo.id, executed) \in Nat
  BY PartialFeeFacts DEF LimitOrders
<1>2. lo \in [id : Id, amount : Nat, fee : Nat]
  BY DEF LimitOrders
<1> DEFINE less == lo.amount - executed
           fee == NotNegative(lo.fee - PartialFee(lo.id, executed))
<1>3. less \in Nat /\ fee \in Nat
  BY <1>1, <1>2 DEF NotNegative
<1>4. NotNegative(less) = less  BY <1>3 DEF NotNegative
<1>5. Remaining(lo, executed) = [lo EXCEPT !.amount = less, !.fee = fee]
  BY <1>4 DEF Remaining
<1> HIDE DEF less, fee
<1>6. Remaining(lo, executed) = [id |-> lo.id, amount |-> less, fee |-> fee]
  BY <1>2, <1>5
<1> QED BY <1>2, <1>3, <1>6 DEF LimitOrders, less

\* Whatever was executed, what remains is a limit order with the same id.
LEMMA RemainingTyped ==
  ASSUME NEW lo \in LimitOrders, NEW executed \in Nat
  PROVE  Remaining(lo, executed) \in LimitOrders /\ Remaining(lo, executed).id = lo.id
<1>1. PartialFee(lo.id, executed) \in Nat
  BY PartialFeeFacts DEF LimitOrders
<1>2. lo \in [id : Id, amount : Nat, fee : Nat]
  BY DEF LimitOrders
<1> DEFINE less == NotNegative(lo.amount - executed)
           fee == NotNegative(lo.fee - PartialFee(lo.id, executed))
<1>3. less \in Nat /\ fee \in Nat
  BY <1>1, <1>2 DEF NotNegative
<1>4. Remaining(lo, executed) = [lo EXCEPT !.amount = less, !.fee = fee]
  BY DEF Remaining
<1> HIDE DEF less, fee
<1>5. Remaining(lo, executed) = [id |-> lo.id, amount |-> less, fee |-> fee]
  BY <1>2, <1>4
<1> QED BY <1>2, <1>3, <1>5 DEF LimitOrders

----------------------------------------------------------------------------
(* Events *)

Events ==
  [type : {"OrderAdded"}, lo : LimitOrders]
    \cup [type : {"OrderCanceled"}, lo : LimitOrders, unmatchable : BOOLEAN]
    \cup [type : {"OrderExecuted"}, submitted : LimitOrders, counter : LimitOrders,
          executed : Nat]

\* A trade executes no more than is left of either order.
LEMMA OrderExecutedFacts ==
  ASSUME NEW submitted \in LimitOrders, NEW counter \in LimitOrders
  PROVE  LET e == OrderExecuted(submitted, counter)
         IN  /\ e \in Events
             /\ e.executed <= submitted.amount /\ e.executed <= counter.amount
             /\ SubmittedRemaining(e) = Remaining(submitted, e.executed)
             /\ CounterRemaining(e) = Remaining(counter, e.executed)
             /\ SubmittedRemaining(e) \in LimitOrders
             /\ CounterRemaining(e) \in LimitOrders
             /\ SubmittedRemaining(e).id = submitted.id
             /\ CounterRemaining(e).id = counter.id
<1> DEFINE x == ExecutedAmount(submitted, counter)
<1>1. x \in Nat /\ x <= submitted.amount /\ x <= counter.amount
  BY ExecutedFacts
<1> HIDE DEF x
<1>2. OrderExecuted(submitted, counter) =
        [type |-> "OrderExecuted", submitted |-> submitted, counter |-> counter, executed |-> x]
  BY DEF OrderExecuted, x
<1>3. /\ Remaining(submitted, x) \in LimitOrders /\ Remaining(submitted, x).id = submitted.id
      /\ Remaining(counter, x) \in LimitOrders /\ Remaining(counter, x).id = counter.id
  BY <1>1, RemainingFacts
<1>4. OrderExecuted(submitted, counter) \in Events
  BY <1>1, <1>2 DEF Events
<1> QED BY <1>1, <1>2, <1>3, <1>4 DEF SubmittedRemaining, CounterRemaining

----------------------------------------------------------------------------
(* A side of the book *)

LEMMA InsertFacts ==
  ASSUME NEW T, NEW s \in Seq(T), NEW e \in T, NEW n \in 0 .. Len(s)
  PROVE  LET t == InsertAt(s, n + 1, e)
         IN  /\ t \in Seq(T) /\ Len(t) = Len(s) + 1
             /\ \A i \in 1 .. Len(s) + 1 :
                  t[i] = IF i <= n THEN s[i] ELSE IF i = n + 1 THEN e ELSE s[i - 1]
<1> DEFINE l == SubSeq(s, 1, n)
           r == SubSeq(s, n + 1, Len(s))
           t == InsertAt(s, n + 1, e)
<1>0. Len(s) \in Nat /\ n \in Nat /\ n <= Len(s) /\ (n + 1) - 1 = n
  OBVIOUS
<1>1. l \in Seq(T) /\ Len(l) = n /\ \A i \in 1 .. n : l[i] = s[i]
  BY <1>0
<1>2. r \in Seq(T) /\ Len(r) = Len(s) - n /\ \A i \in 1 .. Len(s) - n : r[i] = s[n + i]
  BY <1>0
<1>3. t = l \o <<e>> \o r  BY <1>0 DEF InsertAt
<1> HIDE DEF l, r, t
<1>4. l \o <<e>> \in Seq(T) /\ Len(l \o <<e>>) = n + 1 /\ (l \o <<e>>)[n + 1] = e
       /\ \A i \in 1 .. n : (l \o <<e>>)[i] = s[i]
  BY <1>0, <1>1
<1> DEFINE u == l \o <<e>>
<1> HIDE DEF u
<1>5. u \in Seq(T) /\ Len(u) = n + 1 /\ u[n + 1] = e /\ \A i \in 1 .. n : u[i] = s[i]
  BY <1>4 DEF u
<1>6. t = u \o r  BY <1>3 DEF u
<1>7. t \in Seq(T) /\ Len(t) = Len(s) + 1
  <2>1. t \in Seq(T) /\ Len(t) = Len(u) + Len(r)
    <3>1. u \in Seq(T) /\ r \in Seq(T)  BY <1>2, <1>5
    <3>2. u \o r \in Seq(T) /\ Len(u \o r) = Len(u) + Len(r)
      BY ONLY <3>1, ConcatProperties
    <3> QED BY <1>6, <3>2
  <2> QED BY <1>0, <1>2, <1>5, <2>1
<1>8. ASSUME NEW i \in 1 .. Len(s) + 1
      PROVE  t[i] = IF i <= n THEN s[i] ELSE IF i = n + 1 THEN e ELSE s[i - 1]
  <2>1. CASE i <= n + 1  BY <1>0, <1>2, <1>5, <1>6, <2>1
  <2>2. CASE i > n + 1
    <3>1. i - (n + 1) \in 1 .. Len(s) - n  BY <1>0, <2>2
    <3>2. t[i] = r[i - (n + 1)]
      BY <1>0, <1>2, <1>5, <1>6, <2>2
    <3>3. r[i - (n + 1)] = s[n + (i - (n + 1))]  BY <1>2, <3>1
    <3>4. n + (i - (n + 1)) = i - 1  BY <1>0
    <3> QED BY <1>0, <2>2, <3>2, <3>3, <3>4
  <2> QED BY <1>0, <2>1, <2>2
<1> QED BY <1>7, <1>8 DEF t

LEMMA RemoveFacts ==
  ASSUME NEW T, NEW s \in Seq(T), NEW n \in 1 .. Len(s)
  PROVE  LET t == RemoveAt(s, n)
         IN  /\ t \in Seq(T) /\ Len(t) = Len(s) - 1
             /\ \A i \in 1 .. Len(s) - 1 : t[i] = IF i < n THEN s[i] ELSE s[i + 1]
<1> DEFINE l == SubSeq(s, 1, n - 1)
           r == SubSeq(s, n + 1, Len(s))
           t == RemoveAt(s, n)
<1>0. Len(s) \in Nat /\ n \in Nat /\ n <= Len(s) /\ n >= 1
  OBVIOUS
<1>1. l \in Seq(T) /\ Len(l) = n - 1 /\ \A i \in 1 .. n - 1 : l[i] = s[i]
  BY <1>0
<1>2. r \in Seq(T) /\ Len(r) = Len(s) - n /\ \A i \in 1 .. Len(s) - n : r[i] = s[n + i]
  BY <1>0
<1>3. t = l \o r  BY DEF RemoveAt
<1> HIDE DEF l, r, t
<1>4. t \in Seq(T) /\ Len(t) = Len(s) - 1
  <2>1. t \in Seq(T) /\ Len(t) = Len(l) + Len(r)
    <3>1. l \in Seq(T) /\ r \in Seq(T)  BY <1>1, <1>2
    <3>2. l \o r \in Seq(T) /\ Len(l \o r) = Len(l) + Len(r)
      BY ONLY <3>1, ConcatProperties
    <3> QED BY <1>3, <3>2
  <2> QED BY <1>0, <1>1, <1>2, <2>1
<1>5. ASSUME NEW i \in 1 .. Len(s) - 1 PROVE t[i] = IF i < n THEN s[i] ELSE s[i + 1]
  <2>1. CASE i < n  BY <1>0, <1>1, <1>2, <1>3, <2>1
  <2>2. CASE i >= n
    <3>1. i - (n - 1) \in 1 .. Len(s) - n  BY <1>0, <2>2
    <3>2. t[i] = r[i - (n - 1)]
      BY <1>0, <1>1, <1>2, <1>3, <2>2
    <3>3. n + (i - (n - 1)) = i + 1  BY <1>0
    <3> QED BY <1>0, <1>2, <2>2, <3>1, <3>2, <3>3
  <2> QED BY <1>0, <2>1, <2>2
<1> QED BY <1>4, <1>5 DEF t

\* The limit orders of one side, sorted by price and able to be executed
GoodSide(s, side) ==
  /\ s \in Seq(LimitOrders)
  /\ \A i \in DOMAIN s : SideOf(s[i]) = side /\ IsValid(s[i])
  /\ \A i, j \in DOMAIN s : i < j => ~ IsBetter(s[j], s[i]) /\ s[i].id # s[j].id

LEMMA PriceFacts ==
  ASSUME NEW lo \in LimitOrders
  PROVE  /\ Price(lo) \in Nat /\ Price(lo) > 0 /\ SideOf(lo) \in Side
         /\ IsBuy(lo) <=> SideOf(lo) = "buy"
  BY OrderFacts DEF LimitOrders, Price, SideOf, IsBuy

\* Leaving out some of a side keeps it so.
LEMMA GoodSideLess ==
  ASSUME NEW s, NEW side, GoodSide(s, side), NEW t \in Seq(LimitOrders),
         NEW m \in [DOMAIN t -> DOMAIN s],
         \A i, j \in DOMAIN t : i < j => m[i] < m[j],
         \A i \in DOMAIN t : t[i] = s[m[i]]
  PROVE  GoodSide(t, side) /\ ToSet(t) \subseteq ToSet(s)
<1>1. ASSUME NEW i \in DOMAIN t PROVE SideOf(t[i]) = side /\ IsValid(t[i])
  BY DEF GoodSide
<1>2. ASSUME NEW i \in DOMAIN t, NEW j \in DOMAIN t, i < j
      PROVE  ~ IsBetter(t[j], t[i]) /\ t[i].id # t[j].id
  BY <1>2 DEF GoodSide
<1>3. ToSet(t) \subseteq ToSet(s)  BY DEF ToSet
<1> QED BY <1>1, <1>2, <1>3 DEF GoodSide

LEMMA GoodSideFrom ==
  ASSUME NEW s, NEW side, GoodSide(s, side), NEW n \in 0 .. Len(s)
  PROVE  LET t == SubSeq(s, n + 1, Len(s))
         IN  GoodSide(t, side) /\ ToSet(t) \subseteq ToSet(s)
<1> DEFINE t == SubSeq(s, n + 1, Len(s))
           m == [i \in DOMAIN t |-> n + i]
<1>0. s \in Seq(LimitOrders) /\ Len(s) \in Nat /\ n \in Nat /\ n <= Len(s) /\ DOMAIN s = 1 .. Len(s)
  BY DEF GoodSide
<1>1. t \in Seq(LimitOrders) /\ DOMAIN t = 1 .. Len(s) - n /\ \A i \in 1 .. Len(s) - n : t[i] = s[n + i]
  BY <1>0
<1> HIDE DEF t
<1>2. m \in [DOMAIN t -> DOMAIN s]  BY <1>0, <1>1
<1>3. \A i, j \in DOMAIN t : i < j => m[i] < m[j]
  BY <1>0, <1>1
<1>4. \A i \in DOMAIN t : t[i] = s[m[i]]  BY <1>0, <1>1
<1> HIDE DEF m
<1>5. GoodSide(t, side) /\ ToSet(t) \subseteq ToSet(s)
  BY <1>1, <1>2, <1>3, <1>4, GoodSideLess
<1> QED BY <1>5 DEF t

LEMMA GoodSideWithout ==
  ASSUME NEW s, NEW side, GoodSide(s, side), NEW n \in DOMAIN s
  PROVE  LET t == RemoveAt(s, n)
         IN  /\ GoodSide(t, side) /\ ToSet(t) \subseteq ToSet(s)
<1> DEFINE t == RemoveAt(s, n)
           m == [i \in DOMAIN t |-> IF i < n THEN i ELSE i + 1]
<1>0. s \in Seq(LimitOrders) /\ Len(s) \in Nat /\ n \in 1 .. Len(s) /\ DOMAIN s = 1 .. Len(s)
  BY DEF GoodSide
<1>1. /\ t \in Seq(LimitOrders) /\ DOMAIN t = 1 .. Len(s) - 1
      /\ \A i \in 1 .. Len(s) - 1 : t[i] = IF i < n THEN s[i] ELSE s[i + 1]
  <2>1. s \in Seq(LimitOrders) /\ n \in 1 .. Len(s)  BY <1>0
  <2>2. LET x == RemoveAt(s, n)
        IN  /\ x \in Seq(LimitOrders) /\ Len(x) = Len(s) - 1
            /\ \A i \in 1 .. Len(s) - 1 : x[i] = IF i < n THEN s[i] ELSE s[i + 1]
    BY ONLY <2>1, RemoveFacts
  <2> HIDE DEF t
  <2>3. /\ t \in Seq(LimitOrders) /\ Len(t) = Len(s) - 1
        /\ \A i \in 1 .. Len(s) - 1 : t[i] = IF i < n THEN s[i] ELSE s[i + 1]
    BY <2>2 DEF t
  <2>4. DOMAIN t = 1 .. Len(t)  BY <2>3
  <2> QED BY <2>3, <2>4
<1> HIDE DEF t
<1>2. m \in [DOMAIN t -> DOMAIN s]  BY <1>0, <1>1
<1>3. \A i, j \in DOMAIN t : i < j => m[i] < m[j]
  BY <1>0, <1>1
<1>4. \A i \in DOMAIN t : t[i] = s[m[i]]  BY <1>0, <1>1
<1> HIDE DEF m
<1>5. GoodSide(t, side) /\ ToSet(t) \subseteq ToSet(s)
  BY <1>1, <1>2, <1>3, <1>4, GoodSideLess
<1> QED BY <1>5 DEF t

\* The best order of a side is replaced by what is left of it.
LEMMA GoodSideReplaced ==
  ASSUME NEW s, NEW side, GoodSide(s, side), s # <<>>,
         NEW lo \in LimitOrders, lo.id = Head(s).id, IsValid(lo)
  PROVE  LET t == <<lo>> \o Tail(s)
         IN  /\ GoodSide(t, side)
             /\ ToSet(t) \subseteq ToSet(s) \cup {lo}
             /\ \A x \in ToSet(t) : x = lo \/ x.id # lo.id
<1> DEFINE t == <<lo>> \o Tail(s)
<1>0. s \in Seq(LimitOrders) /\ Len(s) \in Nat /\ Len(s) >= 1 /\ DOMAIN s = 1 .. Len(s) /\ Head(s) = s[1]
  BY DEF GoodSide
<1>1. /\ t \in Seq(LimitOrders) /\ DOMAIN t = 1 .. Len(s) /\ t[1] = lo
      /\ \A i \in 2 .. Len(s) : t[i] = s[i]
  BY <1>0
<1> HIDE DEF t
<1>2. \A i \in DOMAIN t : i = 1 \/ i \in 2 .. Len(s)
  BY <1>0, <1>1
<1>3. \A i \in DOMAIN t : t[i].id = s[i].id
  BY <1>0, <1>1, <1>2
<1>4. \A i \in DOMAIN t : SideOf(t[i]) = SideOf(s[i]) /\ Price(t[i]) = Price(s[i]) /\ IsBuy(t[i]) = IsBuy(s[i])
  BY <1>3 DEF SideOf, Price, IsBuy
<1>5. ASSUME NEW i \in DOMAIN t PROVE SideOf(t[i]) = side /\ IsValid(t[i])
  BY <1>0, <1>1, <1>2, <1>4 DEF GoodSide
<1>6. ASSUME NEW i \in DOMAIN t, NEW j \in DOMAIN t, i < j
      PROVE  ~ IsBetter(t[j], t[i]) /\ t[i].id # t[j].id
  BY <1>0, <1>1, <1>6, <1>3, <1>4 DEF GoodSide, IsBetter
<1>7. GoodSide(t, side)  BY <1>1, <1>5, <1>6 DEF GoodSide
<1>8. \A i \in DOMAIN t : i = 1 \/ (t[i] = s[i] /\ i \in DOMAIN s /\ 1 < i)
  BY <1>0, <1>1, <1>2
<1>9. ToSet(t) \subseteq ToSet(s) \cup {lo}
  BY <1>1, <1>8 DEF ToSet
<1>10. 1 \in DOMAIN t  BY <1>0, <1>1
<1>11. \A i \in DOMAIN t : i = 1 \/ t[i].id # lo.id
  BY <1>1, <1>6, <1>8, <1>10
<1>12. \A x \in ToSet(t) : x = lo \/ x.id # lo.id
  BY <1>1, <1>11 DEF ToSet
<1> QED BY <1>7, <1>9, <1>12 DEF t

\* Where AddToSide puts an order
Ahead(s, lo) ==
  CHOOSE n \in 0 .. Len(s) : \A i \in DOMAIN s : i <= n <=> IsBehind(lo, s[i])

\* The orders that it is behind come first.
LEMMA AheadFacts ==
  ASSUME NEW s, NEW side, GoodSide(s, side), NEW lo \in LimitOrders, SideOf(lo) = side
  PROVE  /\ Ahead(s, lo) \in 0 .. Len(s)
         /\ \A i \in DOMAIN s : i <= Ahead(s, lo) <=> IsBehind(lo, s[i])
<1>0. s \in Seq(LimitOrders) /\ Len(s) \in Nat /\ DOMAIN s = 1 .. Len(s)
  BY DEF GoodSide
<1> DEFINE T == {i \in 1 .. Len(s) + 1 : i = Len(s) + 1 \/ ~ IsBehind(lo, s[i])}
<1>1. T \subseteq Nat /\ T # {}  BY <1>0
<1>2. PICK m \in T : \A k \in T : m <= k  BY <1>1, NatLeast
<1>3. m \in Nat /\ m >= 1 /\ m <= Len(s) + 1 /\ m - 1 \in 0 .. Len(s)
  BY <1>0, <1>2
<1>4. ASSUME NEW i \in DOMAIN s PROVE i <= m - 1 <=> IsBehind(lo, s[i])
  <2>0. i \in 1 .. Len(s) /\ i \in 1 .. Len(s) + 1 /\ i # Len(s) + 1
    BY <1>0
  <2>1. CASE i <= m - 1  BY <1>2, <1>3, <2>0, <2>1
  <2>2. CASE i > m - 1
    <3>1. m \in DOMAIN s /\ ~ IsBehind(lo, s[m])
      BY <1>0, <1>2, <1>3, <2>0, <2>2
    <3>2. m = i \/ ~ IsBetter(s[i], s[m])
      BY <1>3, <2>0, <2>2, <3>1 DEF GoodSide
    <3>3. s[i] \in LimitOrders /\ s[m] \in LimitOrders
      BY <1>0, <3>1
    <3>4. SideOf(s[i]) = SideOf(lo) /\ SideOf(s[m]) = SideOf(lo)
      BY <3>1 DEF GoodSide
    <3>5. Price(s[i]) \in Nat /\ Price(s[m]) \in Nat /\ Price(lo) \in Nat
      BY <3>3, PriceFacts
    <3>6. IsBuy(s[i]) = IsBuy(lo) /\ IsBuy(s[m]) = IsBuy(lo)
      BY <3>4 DEF SideOf, IsBuy
    <3>7. ~ IsBehind(lo, s[i])
      BY <3>1, <3>2, <3>5, <3>6 DEF IsBehind, IsBetter
    <3> QED BY <1>3, <2>0, <2>2, <3>7
  <2> QED BY <1>3, <2>0, <2>1, <2>2
<1>5. \E n \in 0 .. Len(s) : \A i \in DOMAIN s : i <= n <=> IsBehind(lo, s[i])
  BY <1>3, <1>4
<1> QED BY <1>5 DEF Ahead

\* An order takes its place on its side.
LEMMA GoodSideInserted ==
  ASSUME NEW s, NEW side, GoodSide(s, side), NEW lo \in LimitOrders, SideOf(lo) = side,
         IsValid(lo), \A x \in ToSet(s) : x.id # lo.id
  PROVE  LET t == InsertAt(s, Ahead(s, lo) + 1, lo)
         IN  GoodSide(t, side) /\ ToSet(t) = ToSet(s) \cup {lo}
<1> DEFINE a == Ahead(s, lo)
           t == InsertAt(s, a + 1, lo)
<1>0. s \in Seq(LimitOrders) /\ Len(s) \in Nat /\ DOMAIN s = 1 .. Len(s)
  BY DEF GoodSide
<1>1. a \in 0 .. Len(s) /\ \A i \in DOMAIN s : i <= a <=> IsBehind(lo, s[i])
  BY AheadFacts
<1> HIDE DEF a
<1>2. /\ t \in Seq(LimitOrders) /\ Len(t) = Len(s) + 1
      /\ \A i \in 1 .. Len(s) + 1 :
           t[i] = IF i <= a THEN s[i] ELSE IF i = a + 1 THEN lo ELSE s[i - 1]
  <2>1. s \in Seq(LimitOrders) /\ lo \in LimitOrders /\ a \in 0 .. Len(s)
    BY <1>0, <1>1
  <2> QED BY ONLY <2>1, InsertFacts
<1> HIDE DEF t
<1>3. DOMAIN t = 1 .. Len(s) + 1  BY <1>2
<1> DEFINE m == [i \in DOMAIN t |-> IF i <= a THEN i ELSE i - 1]
<1>4. ASSUME NEW i \in DOMAIN t, i # a + 1
      PROVE  m[i] \in DOMAIN s /\ t[i] = s[m[i]] /\ (m[i] <= a <=> i < a + 1)
  BY <1>0, <1>1, <1>2, <1>3, <1>4
<1>5. a + 1 \in DOMAIN t /\ t[a + 1] = lo
  BY <1>0, <1>1, <1>2, <1>3
<1>6. \A i, j \in DOMAIN t : i < j /\ i # a + 1 /\ j # a + 1 => m[i] < m[j]
  BY <1>0, <1>1, <1>3
<1> HIDE DEF m
<1>7. ASSUME NEW i \in DOMAIN t PROVE SideOf(t[i]) = side /\ IsValid(t[i])
  BY <1>5, <1>4 DEF GoodSide
<1>8. ASSUME NEW k \in DOMAIN s PROVE s[k] \in LimitOrders /\ s[k].id # lo.id /\ SideOf(s[k]) = side
  BY <1>0 DEF GoodSide, ToSet
<1>9. ASSUME NEW k \in DOMAIN s
      PROVE  IF k <= a THEN ~ IsBetter(lo, s[k]) ELSE ~ IsBetter(s[k], lo)
  BY <1>1, <1>8, PriceFacts DEF SideOf, IsBuy, IsBehind, IsBetter
<1>10. ASSUME NEW i \in DOMAIN t, NEW j \in DOMAIN t, i < j
       PROVE  ~ IsBetter(t[j], t[i]) /\ t[i].id # t[j].id
  BY <1>0, <1>1, <1>3, <1>4, <1>10, <1>9, <1>5, <1>8, <1>6 DEF GoodSide
<1>11. GoodSide(t, side)  BY <1>2, <1>7, <1>10 DEF GoodSide
<1>12. ToSet(t) \subseteq ToSet(s) \cup {lo}
  BY <1>4, <1>5 DEF ToSet
<1>13. ASSUME NEW k \in DOMAIN s PROVE s[k] \in ToSet(t)
  <2> DEFINE i == IF k <= a THEN k ELSE k + 1
  <2>1. i \in DOMAIN t /\ t[i] = s[k]
    BY <1>0, <1>1, <1>2, <1>3
  <2> QED BY <2>1 DEF ToSet
<1>14. ToSet(s) \cup {lo} \subseteq ToSet(t)
  BY <1>5, <1>13 DEF ToSet
<1> QED BY <1>11, <1>12, <1>14 DEF t, a

----------------------------------------------------------------------------
(* A book as it should be, with the types of what is in it *)

Uncrossed(b) == \A x \in ToSet(b["buy"]), y \in ToSet(b["sell"]) : Price(x) < Price(y)

GoodBook(b) ==
  /\ b \in [Side -> Seq(LimitOrders)]
  /\ \A side \in Side : GoodSide(b[side], side)
  /\ Uncrossed(b)

IdsIn(b) == {lo.id : lo \in AllOrders(b)}

LEMMA GoodBookIsWellFormed == \A b : GoodBook(b) => WellFormed(b)
<1> SUFFICES ASSUME NEW b, GoodBook(b) PROVE WellFormed(b)
  OBVIOUS
<1>1. \A side \in Side : \A i \in DOMAIN b[side] : IsValid(b[side][i])
  BY DEF GoodBook, GoodSide
<1>2. \A x \in AllOrders(b) : IsValid(x)
  BY <1>1 DEF AllOrders, ToSet, Side
<1>3. \A side \in Side : \A i, j \in DOMAIN b[side] :
       i < j => ~ IsBetter(b[side][j], b[side][i]) /\ b[side][i].id # b[side][j].id
  BY DEF GoodBook, GoodSide
<1> QED BY <1>2, <1>3 DEF WellFormed, GoodBook, Uncrossed

LEMMA EmptyBookIsGood == GoodBook(EmptyBook) /\ AllOrders(EmptyBook) = {}
<1>1. EmptyBook \in [Side -> Seq(LimitOrders)]
  BY DEF EmptyBook
<1>2. \A side \in Side : EmptyBook[side] = <<>>
  BY DEF EmptyBook
<1>3. DOMAIN <<>> = {} /\ ToSet(<<>>) = {}  BY DEF ToSet
<1>4. \A side \in Side : GoodSide(<<>>, side)  BY DEF GoodSide
<1>5. "buy" \in Side /\ "sell" \in Side  BY DEF Side
<1> QED BY <1>1, <1>2, <1>3, <1>4, <1>5 DEF GoodBook, Uncrossed, AllOrders

\* The side of a limit order in a good book is where it is.
LEMMA GoodBookSides ==
  ASSUME NEW b, GoodBook(b), NEW side \in Side, NEW x \in ToSet(b[side])
  PROVE  x \in LimitOrders /\ SideOf(x) = side /\ IsValid(x)
  BY DEF GoodBook, GoodSide, ToSet

LEMMA CounterSideFacts ==
  ASSUME NEW lo \in LimitOrders
  PROVE  /\ SideOf(lo) \in Side /\ CounterSide(lo) \in Side /\ SideOf(lo) # CounterSide(lo)
         /\ {SideOf(lo), CounterSide(lo)} = Side
         /\ IsBuy(lo) <=> SideOf(lo) = "buy"
         /\ IsBuy(lo) <=> CounterSide(lo) = "sell"
         /\ ~ IsBuy(lo) <=> CounterSide(lo) = "buy"
  BY PriceFacts DEF CounterSide, Side

----------------------------------------------------------------------------
(* Matching *)

LEMMA LeftAfterFacts ==
  ASSUME NEW lo \in LimitOrders, NEW counter \in LimitOrders, NEW ts
  PROVE  LeftAfter(lo, counter, ts) \in LimitOrders /\ LeftAfter(lo, counter, ts).id = lo.id
  BY OrderExecutedFacts DEF LeftAfter

\* What is left of the submitted order, one counter order after the other
LEMMA LeftoversFacts ==
  ASSUME NEW lo \in LimitOrders, NEW counters \in Seq(LimitOrders), NEW ts
  PROVE  LET left == Leftovers(lo, counters, ts)
         IN  /\ left[0] = lo
             /\ \A k \in 1 .. Len(counters) : left[k] = LeftAfter(left[k - 1], counters[k], ts)
             /\ \A k \in 0 .. Len(counters) : left[k] \in LimitOrders /\ left[k].id = lo.id
<1> DEFINE N == Len(counters)
           Is(f) == f = [k \in 0 .. N |-> IF k = 0 THEN lo ELSE LeftAfter(f[k - 1], counters[k], ts)]
           left == CHOOSE f : Is(f)
           step == [k \in 1 .. N |-> [x \in LimitOrders |-> LeftAfter(x, counters[k], ts)]]
<1>1. N \in Nat /\ \A k \in 1 .. N : counters[k] \in LimitOrders
  OBVIOUS
<1>2. step \in [1 .. N -> [LimitOrders -> LimitOrders]]
  BY <1>1, LeftAfterFacts
<1> HIDE DEF N, step
<1>3. PICK f \in [0 .. N -> LimitOrders] : StepsBy(f, N, lo, step)
  BY <1>1, <1>2, Recursion
<1>4. ASSUME NEW k \in 1 .. N PROVE f[k] = LeftAfter(f[k - 1], counters[k], ts)
  <2>1. f[k] = step[k][f[k - 1]] /\ f[k - 1] \in LimitOrders
    BY <1>1, <1>3 DEF StepsBy
  <2> QED BY <2>1 DEF step
<1>5. Is(f)
  <2> DEFINE g == [k \in 0 .. N |-> IF k = 0 THEN lo ELSE LeftAfter(f[k - 1], counters[k], ts)]
  <2>1. ASSUME NEW k \in 0 .. N PROVE f[k] = g[k]
    BY <1>1, <1>3, <1>4 DEF StepsBy
  <2>2. DOMAIN f = 0 .. N /\ f = [k \in 0 .. N |-> f[k]]
    BY <1>3
  <2> QED BY <2>1, <2>2
<1>6. Is(left)  BY <1>5
<1>7. Leftovers(lo, counters, ts) = left  BY DEF Leftovers, N
<1> HIDE DEF left
<1>8. left[0] = lo /\ \A k \in 1 .. N : left[k] = LeftAfter(left[k - 1], counters[k], ts)
  BY <1>1, <1>6
<1> DEFINE Typed == {k \in 0 .. N : left[k] \in LimitOrders /\ left[k].id = lo.id}
<1>9. 0 \in Typed  BY <1>1, <1>8
<1>10. ASSUME NEW k \in 0 .. N, k # N, k \in Typed PROVE k + 1 \in Typed
  BY <1>1, <1>10, <1>8, LeftAfterFacts
<1>11. \A k \in 0 .. N : k \in Typed
  BY <1>1, <1>9, <1>10, Climb
<1>12. \A k \in 0 .. N : left[k] \in LimitOrders /\ left[k].id = lo.id
  BY <1>11
<1> QED BY <1>7, <1>8, <1>12 DEF N

\* The submitted order goes past the counter orders that let it, and no further.
LEMMA PassedFacts ==
  ASSUME NEW lo, NEW counters, Len(counters) \in Nat, NEW ts
  PROVE  LET left == Leftovers(lo, counters, ts)
             n == Passed(lo, counters, ts)
         IN  /\ n \in 0 .. Len(counters)
             /\ n < Len(counters) => ~ GoesOn(left[n], counters[n + 1], ts)
             /\ \A k \in 0 .. n - 1 : GoesOn(left[k], counters[k + 1], ts)
<1> DEFINE left == Leftovers(lo, counters, ts)
           N == Len(counters)
           Stops(k) == k < N => ~ GoesOn(left[k], counters[k + 1], ts)
           T == {k \in 0 .. N : Stops(k)}
           First(n) == Stops(n) /\ \A k \in 0 .. n - 1 : ~ Stops(k)
<1> HIDE DEF left
<1>1. N \in T /\ T \subseteq Nat  OBVIOUS
<1>2. PICK n \in T : \A k \in T : n <= k  BY <1>1, NatLeast
<1>3. n \in 0 .. N /\ First(n)  BY <1>2
<1>4. Passed(lo, counters, ts) = CHOOSE m \in 0 .. N : First(m)
  BY DEF Passed, left
<1> DEFINE p == CHOOSE m \in 0 .. N : First(m)
<1>5. p \in 0 .. N /\ First(p)  BY <1>3
<1> HIDE DEF p
<1>6. \A k \in 0 .. p - 1 : GoesOn(left[k], counters[k + 1], ts)
  BY <1>5
<1> QED BY <1>4, <1>5, <1>6 DEF p, left

\* It can still be executed after each of them.
LEMMA LeftIsValid ==
  ASSUME NEW lo \in LimitOrders, IsValid(lo), NEW counters \in Seq(LimitOrders), NEW ts
  PROVE  \A k \in 0 .. Passed(lo, counters, ts) : IsValid(Leftovers(lo, counters, ts)[k])
<1> DEFINE left == Leftovers(lo, counters, ts)
           n == Passed(lo, counters, ts)
           Good == {k \in 0 .. n : IsValid(left[k])}
<1>0. Len(counters) \in Nat  OBVIOUS
<1>1. n \in 0 .. Len(counters) /\ n \in Nat /\ \A k \in 0 .. n - 1 : GoesOn(left[k], counters[k + 1], ts)
  BY <1>0, PassedFacts
<1>2. /\ left[0] = lo
      /\ \A k \in 1 .. Len(counters) : left[k] = LeftAfter(left[k - 1], counters[k], ts)
  BY LeftoversFacts
<1> HIDE DEF left, n
<1>3. 0 \in Good  BY <1>1, <1>2
<1>4. ASSUME NEW k \in 0 .. n, k # n, k \in Good PROVE k + 1 \in Good
  BY <1>0, <1>1, <1>4, <1>2 DEF GoesOn, LeftAfter
<1>5. \A k \in 0 .. n : k \in Good  BY <1>1, <1>3, <1>4, Climb
<1> QED BY <1>5 DEF left, n

----------------------------------------------------------------------------
(* The last round of matching *)

\* The orders of one side do not meet those of the other.
DoNotMeet(s, side, counters) ==
  \A x \in ToSet(s), y \in ToSet(counters) :
    IF side = "buy" THEN Price(x) < Price(y) ELSE Price(y) < Price(x)

WithSide(b, side, s) == [b EXCEPT ![side] = s]

\* One side of a book is replaced.
LEMMA GoodBookSide ==
  ASSUME NEW b, GoodBook(b), NEW side \in Side, NEW other \in Side, other # side,
         NEW s, GoodSide(s, side), DoNotMeet(s, side, b[other])
  PROVE  /\ GoodBook(WithSide(b, side, s))
         /\ WithSide(b, side, s)[side] = s /\ WithSide(b, side, s)[other] = b[other]
         /\ AllOrders(WithSide(b, side, s)) = ToSet(s) \cup ToSet(b[other])
<1> DEFINE c == WithSide(b, side, s)
<1>1. b \in [Side -> Seq(LimitOrders)] /\ s \in Seq(LimitOrders)
  BY DEF GoodBook, GoodSide
<1>2. c \in [Side -> Seq(LimitOrders)] /\ c[side] = s /\ c[other] = b[other]
  BY <1>1 DEF WithSide
<1> HIDE DEF c
<1>3. Side = {side, other} /\ Side = {"buy", "sell"}
  BY DEF Side
<1>4. \A z \in Side : GoodSide(c[z], z)
  BY <1>2, <1>3 DEF GoodBook
<1>5. Uncrossed(c)  BY <1>2, <1>3 DEF Uncrossed, DoNotMeet
<1>6. AllOrders(c) = ToSet(s) \cup ToSet(b[other])
  BY <1>2, <1>3 DEF AllOrders
<1>7. GoodBook(c)  BY <1>2, <1>4, <1>5 DEF GoodBook
<1> QED BY <1>2, <1>6, <1>7 DEF c

LEMMA AllOrdersOf ==
  ASSUME NEW b, NEW side \in Side, NEW other \in Side, other # side
  PROVE  AllOrders(b) = ToSet(b[side]) \cup ToSet(b[other])
  BY DEF AllOrders, Side

\* The counter side of a good book is replaced by orders at prices that it had.
LEMMA GoodBookCounters ==
  ASSUME NEW b, GoodBook(b), NEW lo \in LimitOrders, NEW s, GoodSide(s, CounterSide(lo)),
         \A x \in ToSet(s) : \E y \in ToSet(b[CounterSide(lo)]) : Price(x) = Price(y)
  PROVE  LET c == WithSide(b, CounterSide(lo), s)
         IN  GoodBook(c) /\ c[CounterSide(lo)] = s /\ c[SideOf(lo)] = b[SideOf(lo)]
             /\ AllOrders(c) = ToSet(s) \cup ToSet(b[SideOf(lo)])
<1>1. CounterSide(lo) \in Side /\ SideOf(lo) \in Side /\ SideOf(lo) # CounterSide(lo)
  BY CounterSideFacts
<1>2. ASSUME NEW x \in ToSet(s), NEW y \in ToSet(b[SideOf(lo)])
      PROVE  IF CounterSide(lo) = "buy" THEN Price(x) < Price(y) ELSE Price(y) < Price(x)
  BY <1>1 DEF GoodBook, Uncrossed, Side
<1>3. DoNotMeet(s, CounterSide(lo), b[SideOf(lo)])
  BY <1>2 DEF DoNotMeet
<1> QED BY <1>1, <1>3, GoodBookSide

\* Nothing on the counter side meets an order that does not meet its best.
LEMMA AddToSideFacts ==
  ASSUME NEW b, GoodBook(b), NEW lo \in LimitOrders, IsValid(lo), lo.id \notin IdsIn(b),
         b[CounterSide(lo)] = <<>> \/ ~ CanMatch(lo, Head(b[CounterSide(lo)]))
  PROVE  LET c == AddToSide(b, lo)
         IN  GoodBook(c) /\ AllOrders(c) = AllOrders(b) \cup {lo}
<1> DEFINE s == b[SideOf(lo)]
           counters == b[CounterSide(lo)]
           t == InsertAt(s, Ahead(s, lo) + 1, lo)
<1>1. CounterSide(lo) \in Side /\ SideOf(lo) \in Side /\ SideOf(lo) # CounterSide(lo)
  BY CounterSideFacts
<1>2. GoodSide(s, SideOf(lo)) /\ GoodSide(counters, CounterSide(lo))
  BY <1>1 DEF GoodBook
<1>3. \A x \in ToSet(s) : x.id # lo.id
  BY <1>1, AllOrdersOf DEF IdsIn
<1>4. GoodSide(t, SideOf(lo)) /\ ToSet(t) = ToSet(s) \cup {lo}
  BY <1>2, <1>3, GoodSideInserted
<1>5. AddToSide(b, lo) = WithSide(b, SideOf(lo), t)
  BY DEF AddToSide, Ahead, WithSide
<1> HIDE DEF t
<1>6. ASSUME NEW y \in ToSet(counters)
      PROVE  IF SideOf(lo) = "buy" THEN Price(lo) < Price(y) ELSE Price(y) < Price(lo)
  <2>0. counters \in Seq(LimitOrders) /\ Len(counters) \in Nat /\ DOMAIN counters = 1 .. Len(counters)
    BY <1>2 DEF GoodSide
  <2>1. PICK j \in DOMAIN counters : y = counters[j]
    BY DEF ToSet
  <2>2. 1 \in DOMAIN counters /\ Head(counters) = counters[1] /\ counters # <<>>
    BY <2>0
  <2>3. ~ CanMatch(lo, counters[1])  BY <2>2
  <2>4. j = 1 \/ ~ IsBetter(y, counters[1])
    BY <1>2, <2>0, <2>1, <2>2 DEF GoodSide
  <2>5. y \in LimitOrders /\ counters[1] \in LimitOrders /\ SideOf(y) = CounterSide(lo)
    BY <1>2, <2>0, <2>1, <2>2 DEF GoodSide
  <2>6. Price(y) \in Nat /\ Price(counters[1]) \in Nat /\ Price(lo) \in Nat
    BY <2>5, PriceFacts
  <2>7. IsBuy(y) <=> ~ IsBuy(lo)
    BY <2>5, CounterSideFacts, PriceFacts
  <2>8. IsBuy(lo) <=> SideOf(lo) = "buy"  BY PriceFacts
  <2>9. CASE j = 1
    BY <2>1, <2>3, <2>6, <2>8, <2>9 DEF CanMatch
  <2>10. CASE ~ IsBetter(y, counters[1])
    BY <2>3, <2>6, <2>7, <2>8, <2>10 DEF CanMatch, IsBetter
  <2> QED BY <2>4, <2>9, <2>10
<1>7. ASSUME NEW x \in ToSet(t), NEW y \in ToSet(counters)
      PROVE  IF SideOf(lo) = "buy" THEN Price(x) < Price(y) ELSE Price(y) < Price(x)
  BY <1>6, <1>1, <1>4 DEF GoodBook, Uncrossed, Side
<1>8. LET c == WithSide(b, SideOf(lo), t)
      IN  GoodBook(c) /\ AllOrders(c) = ToSet(t) \cup ToSet(counters)
  BY <1>7, <1>1, <1>4, GoodBookSide DEF DoNotMeet
<1>9. AllOrders(b) = ToSet(s) \cup ToSet(counters)
  BY <1>1, AllOrdersOf
<1> QED BY <1>4, <1>5, <1>8, <1>9

\* The best of a side, and the rest
LEMMA GoodSideHead ==
  ASSUME NEW s, NEW side, GoodSide(s, side), s # <<>>
  PROVE  /\ Head(s) \in ToSet(s) /\ Head(s) \in LimitOrders
         /\ GoodSide(Tail(s), side) /\ ToSet(Tail(s)) = ToSet(s) \ {Head(s)}
         /\ \A x \in ToSet(s) : x = Head(s) \/ x.id # Head(s).id
<1>0. s \in Seq(LimitOrders) /\ Len(s) \in Nat /\ Len(s) >= 1 /\ DOMAIN s = 1 .. Len(s) /\ Head(s) = s[1]
  BY DEF GoodSide
<1>1. Head(s) \in ToSet(s) /\ Head(s) \in LimitOrders
  BY <1>0 DEF ToSet
<1>2. GoodSide(Tail(s), side) /\ ToSet(Tail(s)) \subseteq ToSet(s)
  <2>1. 1 \in 0 .. Len(s) /\ 1 + 1 = 2  BY <1>0
  <2>2. Tail(s) = SubSeq(s, 2, Len(s))  BY <1>0
  <2>3. LET t == SubSeq(s, 1 + 1, Len(s)) IN GoodSide(t, side) /\ ToSet(t) \subseteq ToSet(s)
    BY <2>1, GoodSideFrom
  <2> QED BY <2>1, <2>2, <2>3
<1>3. \A i \in DOMAIN s : i = 1 \/ s[i].id # s[1].id
  BY <1>0 DEF GoodSide
<1>4. \A x \in ToSet(s) : x = Head(s) \/ x.id # Head(s).id
  BY <1>0, <1>3 DEF ToSet
<1>5. DOMAIN Tail(s) = 1 .. Len(s) - 1 /\ \A i \in 1 .. Len(s) - 1 : Tail(s)[i] = s[i + 1]
  BY <1>0
<1>6. Head(s) \notin ToSet(Tail(s))
  BY <1>0, <1>3, <1>5 DEF ToSet
<1>7. ASSUME NEW i \in DOMAIN s, i # 1 PROVE s[i] \in ToSet(Tail(s))
  <2>1. i - 1 \in 1 .. Len(s) - 1 /\ (i - 1) + 1 = i
    BY <1>0, <1>7
  <2> QED BY <1>5, <2>1 DEF ToSet
<1>8. ToSet(s) \ {Head(s)} \subseteq ToSet(Tail(s))
  BY <1>0, <1>7 DEF ToSet
<1> QED BY <1>1, <1>2, <1>4, <1>6, <1>8

\* No two orders of a good book have the same id.
LEMMA GoodBookIds ==
  ASSUME NEW b, GoodBook(b), NEW x \in AllOrders(b), NEW y \in AllOrders(b), x.id = y.id
  PROVE  x = y
<1>1. PICK p \in Side : x \in ToSet(b[p])
  BY DEF AllOrders, Side
<1>2. PICK q \in Side : y \in ToSet(b[q])
  BY DEF AllOrders, Side
<1>3. SideOf(x) = p /\ SideOf(y) = q
  BY <1>1, <1>2, GoodBookSides
<1>4. p = q  BY <1>3 DEF SideOf
<1>5. PICK i \in DOMAIN b[p], j \in DOMAIN b[p] : x = b[p][i] /\ y = b[p][j]
  BY <1>1, <1>2, <1>4 DEF ToSet
<1>6. b[p] \in Seq(LimitOrders) /\ i \in Nat /\ j \in Nat
  BY <1>5 DEF GoodBook
<1>7. ~ (i < j) /\ ~ (j < i)  BY <1>5 DEF GoodBook, GoodSide
<1> QED BY <1>5, <1>6, <1>7

LEMMA GoodBookOrders ==
  ASSUME NEW b, GoodBook(b), NEW x \in AllOrders(b)
  PROVE  x \in LimitOrders /\ IsValid(x) /\ x \in ToSet(b[SideOf(x)])
<1>1. PICK p \in Side : x \in ToSet(b[p])
  BY DEF AllOrders, Side
<1> QED BY <1>1, GoodBookSides

\* What the last round of matching may do
Outcome(b, lo, end) ==
  \/ /\ end.events = <<OrderAdded(lo)>>
     /\ AllOrders(end.book) = AllOrders(b) \cup {lo}
  \/ /\ end.events = <<OrderCanceled(lo, TRUE)>>
     /\ AllOrders(end.book) = AllOrders(b)
  \/ \E c \in AllOrders(b) :
       LET x == OrderExecuted(lo, c)
       IN  /\ SideOf(c) = CounterSide(lo) /\ CanMatch(lo, c)
           /\ \/ end.events = <<x>>
              \/ end.events = <<x, OrderCanceled(SubmittedRemaining(x), TRUE)>>
           /\ AllOrders(end.book) =
                (AllOrders(b) \ {c})
                  \cup {r \in {CounterRemaining(x)} : IsValid(r)}

LEMMA EventFacts ==
  ASSUME NEW lo \in LimitOrders, NEW u \in BOOLEAN
  PROVE  OrderAdded(lo) \in Events /\ OrderCanceled(lo, u) \in Events
  BY DEF OrderAdded, OrderCanceled, Events

LEMMA ShortEvents ==
  ASSUME NEW e \in Events, NEW f \in Events
  PROVE  <<e>> \in Seq(Events) /\ <<e, f>> \in Seq(Events)
  OBVIOUS

LEMMA EndMatchFacts ==
  ASSUME NEW b, GoodBook(b), NEW lo \in LimitOrders, IsValid(lo), lo.id \notin IdsIn(b)
  PROVE  LET end == EndMatch(b, lo)
         IN  GoodBook(end.book) /\ end.events \in Seq(Events) /\ Outcome(b, lo, end)
<1> DEFINE counters == b[CounterSide(lo)]
           c == Head(counters)
           x == OrderExecuted(lo, c)
           rest == SubmittedRemaining(x)
           end == EndMatch(b, lo)
<1>1. CounterSide(lo) \in Side /\ SideOf(lo) \in Side /\ SideOf(lo) # CounterSide(lo)
  BY CounterSideFacts
<1>2. GoodSide(counters, CounterSide(lo))
  BY <1>1 DEF GoodBook
<1>3. AllOrders(b) = ToSet(counters) \cup ToSet(b[SideOf(lo)])
  BY <1>1, AllOrdersOf
<1>4. CASE counters = <<>> \/ ~ CanMatch(lo, c)
  BY <1>4, AddToSideFacts, EventFacts, ShortEvents DEF EndMatch, Outcome, end
<1>5. CASE counters # <<>> /\ CanMatch(lo, c) /\ ~ IsValidAt(lo, Price(c))
  BY <1>5, EventFacts, ShortEvents DEF EndMatch, Outcome, end
<1>6. CASE counters # <<>> /\ CanMatch(lo, c) /\ IsValidAt(lo, Price(c))
  <2> HIDE DEF counters, c, x, rest, end
  <2>0. /\ c \in ToSet(counters) /\ c \in LimitOrders
        /\ GoodSide(Tail(counters), CounterSide(lo)) /\ ToSet(Tail(counters)) = ToSet(counters) \ {c}
        /\ \A y \in ToSet(counters) : y = c \/ y.id # c.id
    BY <1>2, <1>6, GoodSideHead DEF c
  <2>1. /\ x \in Events /\ rest \in LimitOrders /\ rest.id = lo.id
        /\ CounterRemaining(x) \in LimitOrders /\ CounterRemaining(x).id = c.id
    BY <2>0, OrderExecutedFacts DEF x, rest
  <2>2. c \in AllOrders(b) /\ SideOf(c) = CounterSide(lo) /\ c \notin ToSet(b[SideOf(lo)])
    BY <1>1, <2>0, GoodBookSides, <1>3 DEF counters
  <2>3. <<x>> \in Seq(Events) /\ <<x, OrderCanceled(rest, TRUE)>> \in Seq(Events)
    BY <2>1, EventFacts, ShortEvents
  <2>4. CASE IsValid(CounterRemaining(x))
    <3> DEFINE s == <<CounterRemaining(x)>> \o Tail(counters)
    <3>1. /\ GoodSide(s, CounterSide(lo))
          /\ ToSet(s) \subseteq ToSet(counters) \cup {CounterRemaining(x)}
          /\ \A y \in ToSet(s) : y = CounterRemaining(x) \/ y.id # CounterRemaining(x).id
      BY <1>2, <1>6, <2>1, <2>4, GoodSideReplaced DEF c
    <3>2. ToSet(s) = ToSet(Tail(counters)) \cup {CounterRemaining(x)}
      <4>1. Tail(counters) \in Seq(LimitOrders)
        BY <2>0 DEF GoodSide
      <4> DEFINE t == Tail(counters)
                 r == CounterRemaining(x)
      <4> HIDE DEF t, r
      <4>2. t \in Seq(LimitOrders) /\ r \in LimitOrders
        BY <2>1, <4>1 DEF t, r
      <4>3. ToSet(<<r>> \o t) = ToSet(t) \cup {r}
        <5>1. Len(t) \in Nat /\ DOMAIN t = 1 .. Len(t)
          BY <4>2
        <5>2. DOMAIN (<<r>> \o t) = 1 .. Len(t) + 1 /\ (<<r>> \o t)[1] = r
          BY <4>2
        <5>3. \A i \in 1 .. Len(t) : (<<r>> \o t)[i + 1] = t[i] /\ i + 1 \in 1 .. Len(t) + 1
          BY <4>2
        <5>4. \A i \in 1 .. Len(t) + 1 : i = 1 \/ (i - 1 \in 1 .. Len(t) /\ (i - 1) + 1 = i)
          BY <5>1
        <5>5. \A i \in 1 .. Len(t) + 1 : (<<r>> \o t)[i] \in ToSet(t) \cup {r}
          BY <5>1, <5>2, <5>3, <5>4 DEF ToSet
        <5>6. ToSet(<<r>> \o t) \subseteq ToSet(t) \cup {r}
          BY <5>2, <5>5 DEF ToSet
        <5>7. \A i \in 1 .. Len(t) : t[i] \in ToSet(<<r>> \o t)
          BY <5>2, <5>3 DEF ToSet
        <5>8. r \in ToSet(<<r>> \o t)  BY <5>1, <5>2 DEF ToSet
        <5>9. ToSet(t) \subseteq ToSet(<<r>> \o t)
          BY <5>1, <5>7 DEF ToSet
        <5> QED BY <5>6, <5>8, <5>9
      <4> QED BY <4>3 DEF t, r
    <3> HIDE DEF s
    <3>3. \A y \in ToSet(s) : \E z \in ToSet(counters) : Price(y) = Price(z)
      BY <2>1, <2>0, <3>2 DEF Price
    <3>4. LET d == WithSide(b, CounterSide(lo), s)
          IN  GoodBook(d) /\ AllOrders(d) = ToSet(s) \cup ToSet(b[SideOf(lo)])
      BY <3>1, <3>3, GoodBookCounters DEF counters
    <3>5. end.book = WithSide(b, CounterSide(lo), s)
          /\ end.events \in {<<x>>, <<x, OrderCanceled(rest, TRUE)>>}
      BY <1>6, <2>4 DEF EndMatch, end, s, counters, c, x, rest, WithSide
    <3>6. AllOrders(end.book) = (AllOrders(b) \ {c}) \cup {r \in {CounterRemaining(x)} : IsValid(r)}
      BY <1>3, <2>0, <2>2, <2>4, <3>2, <3>4, <3>5
    <3>7. GoodBook(end.book) /\ end.events \in Seq(Events)
      BY <2>3, <3>4, <3>5
    <3>8. Outcome(b, lo, end)
      BY <1>6, <2>2, <3>5, <3>6 DEF Outcome, x, rest
    <3> QED BY <3>7, <3>8 DEF end
  <2>5. CASE ~ IsValid(CounterRemaining(x))
    <3> DEFINE s == Tail(counters)
    <3> HIDE DEF s
    <3>3. \A y \in ToSet(s) : \E z \in ToSet(counters) : Price(y) = Price(z)
      BY <2>0 DEF s
    <3>4. LET d == WithSide(b, CounterSide(lo), s)
          IN  GoodBook(d) /\ AllOrders(d) = ToSet(s) \cup ToSet(b[SideOf(lo)])
      BY <2>0, <3>3, GoodBookCounters DEF counters, s
    <3>5. end.book = WithSide(b, CounterSide(lo), s) /\ end.events = <<x>>
      BY <1>6, <2>5 DEF EndMatch, end, s, counters, c, x, rest, WithSide
    <3>6. AllOrders(end.book) = (AllOrders(b) \ {c}) \cup {r \in {CounterRemaining(x)} : IsValid(r)}
      BY <1>3, <2>0, <2>2, <2>5, <3>4, <3>5 DEF s
    <3>7. GoodBook(end.book) /\ end.events \in Seq(Events)
      BY <2>3, <3>4, <3>5
    <3>8. Outcome(b, lo, end)
      BY <1>6, <2>2, <3>5, <3>6 DEF Outcome, x, rest
    <3> QED BY <3>7, <3>8 DEF end
  <2> QED BY <2>4, <2>5
<1> QED BY <1>4, <1>5, <1>6

----------------------------------------------------------------------------
(* Adding and cancelling *)

\* The book without the counter orders that a submitted order has gone past
BookPast(b, lo, ts) ==
  WithSide(b, CounterSide(lo),
           SubSeq(b[CounterSide(lo)], Passed(lo, b[CounterSide(lo)], ts) + 1,
                  Len(b[CounterSide(lo)])))

\* What is left of it then
LeftPast(b, lo, ts) ==
  Leftovers(lo, b[CounterSide(lo)], ts)[Passed(lo, b[CounterSide(lo)], ts)]

LEMMA PastFacts ==
  ASSUME NEW b, GoodBook(b), NEW lo \in LimitOrders, IsValid(lo), lo.id \notin IdsIn(b), NEW ts
  PROVE  /\ GoodBook(BookPast(b, lo, ts)) /\ AllOrders(BookPast(b, lo, ts)) \subseteq AllOrders(b)
         /\ LeftPast(b, lo, ts) \in LimitOrders /\ LeftPast(b, lo, ts).id = lo.id
         /\ IsValid(LeftPast(b, lo, ts))
         /\ LeftPast(b, lo, ts).id \notin IdsIn(BookPast(b, lo, ts))
<1> DEFINE counters == b[CounterSide(lo)]
           n == Passed(lo, counters, ts)
           s == SubSeq(counters, n + 1, Len(counters))
<1>1. CounterSide(lo) \in Side /\ SideOf(lo) \in Side /\ SideOf(lo) # CounterSide(lo)
  BY CounterSideFacts
<1>2. GoodSide(counters, CounterSide(lo)) /\ counters \in Seq(LimitOrders) /\ Len(counters) \in Nat
  BY <1>1 DEF GoodBook, GoodSide
<1>3. AllOrders(b) = ToSet(counters) \cup ToSet(b[SideOf(lo)])
  BY <1>1, AllOrdersOf
<1>4. n \in 0 .. Len(counters) /\ n \in 0 .. n
  BY <1>2, PassedFacts
<1>5. Leftovers(lo, counters, ts)[n] \in LimitOrders /\ Leftovers(lo, counters, ts)[n].id = lo.id
  BY <1>2, <1>4, LeftoversFacts
<1>6. IsValid(Leftovers(lo, counters, ts)[n])
  BY <1>2, <1>4, LeftIsValid
<1>7. GoodSide(s, CounterSide(lo)) /\ ToSet(s) \subseteq ToSet(counters)
  BY <1>2, <1>4, GoodSideFrom
<1>8. \A x \in ToSet(s) : \E y \in ToSet(b[CounterSide(lo)]) : Price(x) = Price(y)
  BY <1>7
<1>9. BookPast(b, lo, ts) = WithSide(b, CounterSide(lo), s) /\ LeftPast(b, lo, ts) = Leftovers(lo, counters, ts)[n]
  BY DEF BookPast, LeftPast
<1> HIDE DEF s, n
<1>10. LET c == WithSide(b, CounterSide(lo), s)
       IN  GoodBook(c) /\ AllOrders(c) = ToSet(s) \cup ToSet(b[SideOf(lo)])
  BY <1>7, <1>8, GoodBookCounters
<1>11. GoodBook(BookPast(b, lo, ts)) /\ AllOrders(BookPast(b, lo, ts)) \subseteq AllOrders(b)
  BY <1>3, <1>7, <1>9, <1>10
<1>12. LeftPast(b, lo, ts) \in LimitOrders /\ LeftPast(b, lo, ts).id = lo.id /\ IsValid(LeftPast(b, lo, ts))
  BY <1>5, <1>6, <1>9
<1>13. lo.id \notin IdsIn(BookPast(b, lo, ts))
  BY <1>11 DEF IdsIn
<1> QED BY <1>11, <1>12, <1>13

LEMMA DoMatchIs ==
  ASSUME NEW b, NEW lo, NEW ts, IsAlive(lo, ts)
  PROVE  DoMatch(b, lo, ts) =
           [book |-> EndMatch(BookPast(b, lo, ts), LeftPast(b, lo, ts)).book,
            events |-> PassingEvents(lo, b[CounterSide(lo)], ts)
                         \o EndMatch(BookPast(b, lo, ts), LeftPast(b, lo, ts)).events]
  BY DEF DoMatch, BookPast, LeftPast, WithSide

LEMMA PassingFacts ==
  ASSUME NEW lo \in LimitOrders, NEW counters \in Seq(LimitOrders), NEW ts
  PROVE  PassingEvents(lo, counters, ts) \in Seq(Events)
<1> DEFINE left == Leftovers(lo, counters, ts)
           n == Passed(lo, counters, ts)
           ev == PassingEvents(lo, counters, ts)
<1>0. Len(counters) \in Nat  OBVIOUS
<1>1. n \in 0 .. Len(counters)  BY <1>0, PassedFacts
<1>2. \A k \in 0 .. Len(counters) : left[k] \in LimitOrders
  BY LeftoversFacts
<1>3. ev = [k \in 1 .. n |-> IF IsAlive(counters[k], ts) THEN OrderExecuted(left[k - 1], counters[k])
                                                          ELSE OrderCanceled(counters[k], FALSE)]
  BY DEF PassingEvents
<1> HIDE DEF left, n, ev
<1>4. ASSUME NEW k \in 1 .. n
      PROVE  /\ OrderExecuted(left[k - 1], counters[k]) \in Events
             /\ OrderCanceled(counters[k], FALSE) \in Events
  <2>1. left[k - 1] \in LimitOrders /\ counters[k] \in LimitOrders
    BY <1>0, <1>1, <1>2
  <2> QED BY <2>1, OrderExecutedFacts, EventFacts
<1>5. ev \in [1 .. n -> Events]  BY <1>3, <1>4
<1>6. n \in Nat  BY <1>0, <1>1
<1> QED BY <1>5, <1>6 DEF ev

LEMMA AddFacts ==
  ASSUME NEW b, GoodBook(b), NEW o \in Id, o \notin IdsIn(b), NEW ts
  PROVE  LET r == Add(b, o, ts)
         IN  /\ GoodBook(r.book) /\ IdsIn(r.book) \subseteq IdsIn(b) \cup {o}
             /\ r.events \in Seq(Events)
<1> DEFINE lo == LimitOrder(o)
           b1 == BookPast(b, lo, ts)
           l1 == LeftPast(b, lo, ts)
           end == EndMatch(b1, l1)
           passing == PassingEvents(lo, b[CounterSide(lo)], ts)
           r == Add(b, o, ts)
<1>1. lo \in LimitOrders /\ IsValid(lo) /\ lo.id = o
  BY LimitOrderFacts DEF LimitOrder
<1> HIDE DEF lo
<1>2. CASE ~ IsAlive(lo, ts)
  BY <1>2, <1>1, EventFacts, ShortEvents DEF Add, DoMatch, lo
<1>3. CASE IsAlive(lo, ts)
  <2>1. /\ GoodBook(b1) /\ AllOrders(b1) \subseteq AllOrders(b)
        /\ l1 \in LimitOrders /\ l1.id = o /\ IsValid(l1) /\ l1.id \notin IdsIn(b1)
    BY <1>1, PastFacts
  <2>2. r.book = end.book /\ r.events = passing \o end.events
    <3>1. r = DoMatch(b, lo, ts)  BY DEF Add, lo
    <3>2. r = [book |-> end.book, events |-> passing \o end.events]
      BY <1>3, <3>1, DoMatchIs
    <3> HIDE DEF r, end, passing
    <3> QED BY <3>2
  <2> HIDE DEF b1, l1
  <2>3. GoodBook(end.book) /\ end.events \in Seq(Events) /\ Outcome(b1, l1, end)
    BY <2>1, EndMatchFacts
  <2> HIDE DEF end
  <2>4. IdsIn(end.book) \subseteq IdsIn(b1) \cup {o}
    <3>1. ASSUME NEW x \in AllOrders(end.book) PROVE x.id \in IdsIn(b1) \cup {o}
      <4>1. CASE AllOrders(end.book) = AllOrders(b1) \cup {l1}
        BY <2>1, <3>1, <4>1 DEF IdsIn
      <4>2. CASE AllOrders(end.book) = AllOrders(b1)
        BY <3>1, <4>2 DEF IdsIn
      <4>3. ASSUME NEW c \in AllOrders(b1),
                   AllOrders(end.book) = (AllOrders(b1) \ {c})
                     \cup {y \in {CounterRemaining(OrderExecuted(l1, c))} : IsValid(y)}
            PROVE  x.id \in IdsIn(b1) \cup {o}
        <5>1. c \in LimitOrders  BY <2>1, GoodBookOrders
        <5>2. CounterRemaining(OrderExecuted(l1, c)).id = c.id
          BY <2>1, <5>1, OrderExecutedFacts
        <5>3. x \in AllOrders(b1) \/ x = CounterRemaining(OrderExecuted(l1, c))
          BY <3>1, <4>3
        <5> QED BY <5>2, <5>3 DEF IdsIn
      <4> QED BY <2>3, <4>1, <4>2, <4>3 DEF Outcome
    <3> QED BY <3>1 DEF IdsIn
  <2>5. IdsIn(b1) \subseteq IdsIn(b)  BY <2>1 DEF IdsIn
  <2>6. passing \in Seq(Events)
    BY <1>1, CounterSideFacts, PassingFacts DEF GoodBook
  <2> HIDE DEF passing
  <2>7. passing \o end.events \in Seq(Events)
    BY ONLY <2>3, <2>6, ConcatProperties
  <2> QED BY <2>2, <2>3, <2>4, <2>5, <2>7
<1> QED BY <1>2, <1>3

LEMMA CancelFacts ==
  ASSUME NEW b, GoodBook(b), NEW o \in Id
  PROVE  LET r == Cancel(b, o)
         IN  /\ GoodBook(r.book) /\ r.events \in Seq(Events)
             /\ AllOrders(r.book) \subseteq AllOrders(b)
             /\ \A x \in AllOrders(b) : x.id # o => x \in AllOrders(r.book)
             /\ \A x \in AllOrders(r.book) : x.id # o
<1> DEFINE p == Orders[o].orderType
           s == b[p]
           places == {i \in DOMAIN s : s[i].id = o}
           place == CHOOSE i \in places : TRUE
           r == Cancel(b, o)
<1>1. p \in Side  BY OrderFacts
<1>2. GoodSide(s, p) /\ s \in Seq(LimitOrders)
  BY <1>1 DEF GoodBook, GoodSide
<1>3. ASSUME NEW x \in AllOrders(b), x.id = o PROVE x \in ToSet(s)
  BY <1>3, GoodBookOrders DEF SideOf
<1>4. CASE places = {}  BY <1>4, <1>3 DEF Cancel, ToSet
<1>5. CASE places # {}
  <2>1. place \in DOMAIN s /\ s[place].id = o  BY <1>5
  <2> DEFINE t == RemoveAt(s, place)
  <2>2. r.book = WithSide(b, p, t) /\ r.events = <<OrderCanceled(s[place], FALSE)>>
    BY <1>5 DEF Cancel, WithSide
  <2> HIDE DEF place, s, p
  <2>3. GoodSide(t, p) /\ ToSet(t) \subseteq ToSet(s)
    BY <1>2, <2>1, GoodSideWithout
  <2>4. <<OrderCanceled(s[place], FALSE)>> \in Seq(Events)
    <3>1. s[place] \in LimitOrders  BY <1>2, <2>1
    <3>2. OrderCanceled(s[place], FALSE) \in Events
      BY <3>1, EventFacts
    <3> QED BY <3>2, ShortEvents
  <2>5. ToSet(t) = ToSet(s) \ {s[place]}
    <3>0. Len(s) \in Nat /\ DOMAIN s = 1 .. Len(s) /\ place \in 1 .. Len(s)
      BY <1>2, <2>1
    <3>1. DOMAIN t = 1 .. Len(s) - 1 /\ \A i \in 1 .. Len(s) - 1 : t[i] = IF i < place THEN s[i] ELSE s[i + 1]
      BY <1>2, <3>0, RemoveFacts
    <3> HIDE DEF t
    <3>2. \A i, j \in DOMAIN s : i # j => s[i] # s[j]
      BY <1>2, <3>0 DEF GoodSide
    <3>3. ASSUME NEW i \in DOMAIN s, i # place PROVE s[i] \in ToSet(t)
      <4>1. CASE i < place  BY <3>0, <3>1, <4>1 DEF ToSet
      <4>2. CASE i > place
        <5>1. i - 1 \in DOMAIN t /\ t[i - 1] = s[i]
          BY <3>0, <3>1, <4>2
        <5> QED BY <5>1 DEF ToSet
      <4> QED BY <3>0, <3>3, <4>1, <4>2
    <3>4. ASSUME NEW i \in DOMAIN t PROVE t[i] \in ToSet(s) \ {s[place]}
      BY <3>0, <3>1, <2>1, <3>2 DEF ToSet
    <3> QED BY <3>3, <3>4 DEF ToSet
  <2>6. PICK q \in Side : q # p  BY DEF Side
  <2>7. DoNotMeet(t, p, b[q])
    BY <1>1, <2>6, <2>3 DEF GoodBook, Uncrossed, DoNotMeet, Side, s
  <2>8. GoodBook(r.book) /\ AllOrders(r.book) = ToSet(t) \cup ToSet(b[q])
    BY <1>1, <2>2, <2>3, <2>6, <2>7, GoodBookSide
  <2>9. AllOrders(b) = ToSet(s) \cup ToSet(b[q])
    BY <1>1, <2>6, AllOrdersOf DEF s
  <2>10. s[place] \in ToSet(s)  BY <2>1 DEF ToSet
  <2>11. ASSUME NEW x \in AllOrders(b), x.id = o PROVE x = s[place]
    BY <2>1, <2>9, <2>10, <2>11, GoodBookIds
  <2>12. ASSUME NEW x \in ToSet(b[q]) PROVE x.id # o
    BY <2>6, GoodBookSides DEF SideOf, p
  <2>13. AllOrders(r.book) \subseteq AllOrders(b)
    BY <2>3, <2>8, <2>9
  <2>14. \A x \in AllOrders(b) : x.id # o => x \in AllOrders(r.book)
    BY <2>1, <2>5, <2>8, <2>9
  <2>15. \A x \in AllOrders(r.book) : x.id # o
    BY <2>5, <2>8, <2>9, <2>11, <2>12
  <2> QED BY <2>2, <2>4, <2>8, <2>13, <2>14, <2>15
<1> QED BY <1>4, <1>5

----------------------------------------------------------------------------
(* The state of an address actor *)

\* Active orders: some orders, with what is left of each
Actives ==
  {f \in UNION {[S -> LimitOrders] : S \in SUBSET Id} :
     IsFiniteSet(DOMAIN f) /\ \A o \in DOMAIN f : f[o].id = o}

ActorState ==
  [active : Actives, openVolume : [Asset -> Int],
   pendingPlacement : SUBSET Id, pendingCancellation : SUBSET Id,
   expiration : SUBSET Id, timers : [Id -> Nat]]

\* What the active orders but one require of an asset
RequiredBut(x, o, a) ==
  Sum([p \in DOMAIN x.active \ {o} |-> RequiredBalance(x.active[p])[a]])

\* What is reserved is what the active orders require; the same without one order.
Reserved(x) ==
  \A a \in Asset :
    x.openVolume[a] = Sum([o \in DOMAIN x.active |-> RequiredBalance(x.active[o])[a]])

ReservedBut(x, o) == \A a \in Asset : x.openVolume[a] = RequiredBut(x, o, a)

LEMMA RequiredType ==
  ASSUME NEW lo \in LimitOrders, NEW a \in Asset
  PROVE  RequiredBalance(lo)[a] \in Int
<1>1. lo.id \in Id /\ lo.amount \in Nat /\ lo.fee \in Nat
  BY DEF LimitOrders
<1>2. Price(lo) \in Nat /\ Price(lo) > 0  BY PriceFacts
<1>3. PriceAmount(lo.amount, Price(lo)) \in Nat /\ CorrectedAmount(lo.amount, Price(lo)) \in Nat
  BY <1>1, <1>2, PriceAmountFacts, CorrectedFacts
<1>4. SpendAmount(lo) \in Int /\ ReceiveAmount(lo) \in Int
  BY <1>1, <1>3 DEF SpendAmount, ReceiveAmount
<1>5. RequiredFee(lo) \in Int
  BY <1>1, <1>4 DEF RequiredFee, NotNegative
<1>6. RequiredBalance(lo)[a] = (IF a = SpentAsset(lo) THEN SpendAmount(lo) ELSE 0)
                                + (IF a = FeeAsset THEN RequiredFee(lo) ELSE 0)
  BY DEF RequiredBalance
<1> QED BY <1>4, <1>5, <1>6

LEMMA ActivesFacts ==
  ASSUME NEW f \in Actives
  PROVE  /\ DOMAIN f \subseteq Id /\ IsFiniteSet(DOMAIN f)
         /\ \A o \in DOMAIN f : f[o] \in LimitOrders /\ f[o].id = o
         /\ f = [o \in DOMAIN f |-> f[o]]
<1>1. PICK S \in SUBSET Id : f \in [S -> LimitOrders]
  BY DEF Actives
<1> QED BY <1>1 DEF Actives

LEMMA ActivesMade ==
  ASSUME NEW f, NEW S, S \subseteq Id, IsFiniteSet(S), f \in [S -> LimitOrders],
         \A o \in S : f[o].id = o
  PROVE  f \in Actives
<1>1. DOMAIN f = S  OBVIOUS
<1> QED BY <1>1 DEF Actives

\* What is active after an order is added, and after one is removed
LEMMA ActiveWith ==
  ASSUME NEW f \in Actives, NEW lo \in LimitOrders
  PROVE  LET g == [o \in DOMAIN f \cup {lo.id} |-> IF o = lo.id THEN lo ELSE f[o]]
         IN  /\ g \in Actives /\ DOMAIN g = DOMAIN f \cup {lo.id} /\ g[lo.id] = lo
             /\ \A o \in DOMAIN f : o # lo.id => g[o] = f[o]
<1> DEFINE S == DOMAIN f \cup {lo.id}
           g == [o \in S |-> IF o = lo.id THEN lo ELSE f[o]]
<1>1. DOMAIN f \subseteq Id /\ IsFiniteSet(DOMAIN f) /\ lo.id \in Id
  BY ActivesFacts DEF LimitOrders
<1>2. \A o \in DOMAIN f : f[o] \in LimitOrders /\ f[o].id = o
  BY ActivesFacts
<1>3. g = [o \in S |-> IF o = lo.id THEN lo ELSE f[o]]
  OBVIOUS
<1> HIDE DEF g
<1>4. DOMAIN g = S /\ g[lo.id] = lo /\ \A o \in DOMAIN f : o # lo.id => g[o] = f[o]
  BY <1>3
<1>5. g \in [S -> LimitOrders] /\ \A o \in S : g[o].id = o
  BY <1>2, <1>3
<1>6. IsFiniteSet(S)  BY <1>1, FS_AddElement
<1>7. g \in Actives  BY <1>1, <1>5, <1>6, ActivesMade DEF S
<1> QED BY <1>4, <1>7 DEF g

LEMMA ActiveWithout ==
  ASSUME NEW f \in Actives, NEW o
  PROVE  LET g == Restrict(f, DOMAIN f \ {o})
         IN  /\ g \in Actives /\ DOMAIN g = DOMAIN f \ {o}
             /\ \A p \in DOMAIN g : g[p] = f[p]
<1> DEFINE S == DOMAIN f \ {o}
           g == Restrict(f, S)
<1>1. DOMAIN f \subseteq Id /\ IsFiniteSet(DOMAIN f)
  BY ActivesFacts
<1>2. \A p \in DOMAIN f : f[p] \in LimitOrders /\ f[p].id = p
  BY ActivesFacts
<1>3. g = [p \in S |-> f[p]]  BY DEF Restrict
<1>4. IsFiniteSet(S) /\ S \subseteq Id
  BY <1>1, FS_RemoveElement
<1> HIDE DEF g
<1>5. g \in [S -> LimitOrders] /\ \A p \in S : g[p].id = p
  BY <1>2, <1>3
<1>6. g \in Actives  BY <1>4, <1>5, ActivesMade
<1> QED BY <1>3, <1>6 DEF g

----------------------------------------------------------------------------
(* The handlers of an address actor *)

LEMMA ReserveFacts ==
  ASSUME NEW x \in ActorState, NEW lo \in LimitOrders
  PROVE  LET y == Reserve(x, lo)
         IN  /\ y \in ActorState
             /\ DOMAIN y.active = DOMAIN x.active \cup {lo.id} /\ y.active[lo.id] = lo
             /\ \A o \in DOMAIN x.active : o # lo.id => y.active[o] = x.active[o]
             /\ ReservedBut(x, lo.id) => Reserved(y)
             /\ y.pendingPlacement = x.pendingPlacement
             /\ y.pendingCancellation = x.pendingCancellation
             /\ y.expiration = x.expiration /\ y.timers = x.timers
<1> DEFINE f == x.active
           g == [o \in DOMAIN f \cup {lo.id} |-> IF o = lo.id THEN lo ELSE f[o]]
           v == [a \in Asset |-> x.openVolume[a] + RequiredBalance(lo)[a]]
           y == Reserve(x, lo)
<1>1. f \in Actives /\ x.openVolume \in [Asset -> Int]
  BY DEF ActorState
<1>2. /\ g \in Actives /\ DOMAIN g = DOMAIN f \cup {lo.id} /\ g[lo.id] = lo
      /\ \A o \in DOMAIN f : o # lo.id => g[o] = f[o]
  BY <1>1, ActiveWith
<1>3. v \in [Asset -> Int]  BY <1>1, RequiredType
<1>4. y = [x EXCEPT !.active = g, !.openVolume = v]
  BY DEF Reserve
<1> HIDE DEF g, v, y
<1>5. /\ y \in ActorState /\ y.active = g /\ y.openVolume = v
      /\ y.pendingPlacement = x.pendingPlacement
      /\ y.pendingCancellation = x.pendingCancellation
      /\ y.expiration = x.expiration /\ y.timers = x.timers
  BY <1>2, <1>3, <1>4 DEF ActorState
<1>6. ASSUME ReservedBut(x, lo.id), NEW a \in Asset
      PROVE  y.openVolume[a] = Sum([o \in DOMAIN y.active |-> RequiredBalance(y.active[o])[a]])
  <2> DEFINE p == [o \in DOMAIN f \ {lo.id} |-> RequiredBalance(f[o])[a]]
             q == [o \in DOMAIN g |-> RequiredBalance(g[o])[a]]
  <2>1. /\ IsFiniteSet(DOMAIN f) /\ \A o \in DOMAIN f : f[o] \in LimitOrders
    BY <1>1, ActivesFacts
  <2>2. IsFiniteSet(DOMAIN p) /\ lo.id \notin DOMAIN p /\ DOMAIN q = DOMAIN p \cup {lo.id}
    BY <1>2, <2>1, FS_RemoveElement
  <2>3. \A o \in DOMAIN p : p[o] \in Int /\ q[o] = p[o]
    BY <1>2, <2>1, RequiredType
  <2>4. q[lo.id] = RequiredBalance(lo)[a] /\ RequiredBalance(lo)[a] \in Int
    BY <1>2, RequiredType
  <2>5. Sum(q) = Sum(p) + q[lo.id]
    <3> HIDE DEF p, q
    <3> QED BY <2>2, <2>3, <2>4, SumOneMore
  <2>6. x.openVolume[a] = Sum(p)
    BY <1>6 DEF ReservedBut, RequiredBut
  <2>7. v[a] = x.openVolume[a] + RequiredBalance(lo)[a]
    BY DEF v
  <2>8. y.openVolume[a] = Sum(q)
    BY <1>5, <2>4, <2>5, <2>6, <2>7
  <2> QED BY <1>5, <2>8
<1>7. ReservedBut(x, lo.id) => Reserved(y)
  BY <1>6 DEF Reserved
<1> QED BY <1>2, <1>5, <1>7 DEF y

LEMMA ReleaseFacts ==
  ASSUME NEW x \in ActorState, NEW o
  PROVE  LET y == Release(x, o)
         IN  /\ y \in ActorState /\ y.active = x.active
             /\ Reserved(x) => ReservedBut(y, o)
             /\ y.pendingPlacement = x.pendingPlacement
             /\ y.pendingCancellation = x.pendingCancellation
             /\ y.expiration = x.expiration /\ y.timers = x.timers
<1> DEFINE f == x.active
           v == [a \in Asset |-> x.openVolume[a] - RequiredBalance(f[o])[a]]
           y == Release(x, o)
<1>1. f \in Actives /\ x.openVolume \in [Asset -> Int]
  BY DEF ActorState
<1>2. IsFiniteSet(DOMAIN f) /\ \A p \in DOMAIN f : f[p] \in LimitOrders
  BY <1>1, ActivesFacts
<1>3. CASE o \notin DOMAIN f
  BY <1>3 DEF Release, Reserved, ReservedBut, RequiredBut
<1>4. CASE o \in DOMAIN f
  <2>1. v \in [Asset -> Int]
    BY <1>1, <1>2, <1>4, RequiredType
  <2>2. y = [x EXCEPT !.openVolume = v]  BY <1>4 DEF Release
  <2> HIDE DEF v, y
  <2>3. /\ y \in ActorState /\ y.active = f /\ y.openVolume = v
        /\ y.pendingPlacement = x.pendingPlacement
        /\ y.pendingCancellation = x.pendingCancellation
        /\ y.expiration = x.expiration /\ y.timers = x.timers
    BY <2>1, <2>2 DEF ActorState
  <2>4. ASSUME Reserved(x), NEW a \in Asset PROVE y.openVolume[a] = RequiredBut(y, o, a)
    <3> DEFINE p == [q \in DOMAIN f \ {o} |-> RequiredBalance(f[q])[a]]
               r == [q \in DOMAIN f |-> RequiredBalance(f[q])[a]]
    <3>1. IsFiniteSet(DOMAIN p) /\ o \notin DOMAIN p /\ DOMAIN r = DOMAIN p \cup {o}
      BY <1>2, <1>4, FS_RemoveElement
    <3>2. \A q \in DOMAIN p : p[q] \in Int /\ r[q] = p[q]
      BY <1>2, RequiredType
    <3>3. r[o] = RequiredBalance(f[o])[a] /\ r[o] \in Int
      BY <1>2, <1>4, RequiredType
    <3>4. Sum(r) = Sum(p) + r[o] /\ Sum(p) \in Int
      <4> HIDE DEF p, r
      <4> QED BY <3>1, <3>2, <3>3, SumOneMore
    <3>5. x.openVolume[a] = Sum(r)  BY <2>4 DEF Reserved
    <3>6. v[a] = x.openVolume[a] - RequiredBalance(f[o])[a]
      BY DEF v
    <3>7. y.openVolume[a] = Sum(p)
      BY <2>3, <3>3, <3>4, <3>5, <3>6
    <3> QED BY <2>3, <3>7 DEF RequiredBut
  <2> QED BY <2>3, <2>4 DEF ReservedBut, y
<1> QED BY <1>3, <1>4

LEMMA ConfirmFacts ==
  ASSUME NEW x \in ActorState, NEW o
  PROVE  LET y == ConfirmPlacement(x, o)
         IN  /\ y \in ActorState /\ y.active = x.active /\ y.openVolume = x.openVolume
             /\ y.pendingPlacement = x.pendingPlacement \ {o}
             /\ y.pendingCancellation = x.pendingCancellation
             /\ y.expiration = x.expiration /\ y.timers = x.timers
  BY DEF ConfirmPlacement, ActorState

LEMMA AddedFacts ==
  ASSUME NEW x \in ActorState, NEW lo \in LimitOrders
  PROVE  LET y == HandleOrderAdded(x, lo)
         IN  /\ y \in ActorState
             /\ DOMAIN y.active = DOMAIN x.active \cup {lo.id} /\ y.active[lo.id] = lo
             /\ \A o \in DOMAIN x.active : o # lo.id => y.active[o] = x.active[o]
             /\ ReservedBut(x, lo.id) => Reserved(y)
             /\ y.pendingPlacement = x.pendingPlacement \ {lo.id}
             /\ y.pendingCancellation = x.pendingCancellation
<1> DEFINE r == Reserve(x, lo)
           c == ConfirmPlacement(r, lo.id)
           y == HandleOrderAdded(x, lo)
<1>1. /\ r \in ActorState
      /\ DOMAIN r.active = DOMAIN x.active \cup {lo.id} /\ r.active[lo.id] = lo
      /\ \A o \in DOMAIN x.active : o # lo.id => r.active[o] = x.active[o]
      /\ ReservedBut(x, lo.id) => Reserved(r)
      /\ r.pendingPlacement = x.pendingPlacement
      /\ r.pendingCancellation = x.pendingCancellation
  BY ReserveFacts
<1> HIDE DEF r
<1>2. /\ c \in ActorState /\ c.active = r.active /\ c.openVolume = r.openVolume
      /\ c.pendingPlacement = r.pendingPlacement \ {lo.id}
      /\ c.pendingCancellation = r.pendingCancellation
  BY <1>1, ConfirmFacts
<1> HIDE DEF c
<1>3. lo.id \in Id  BY DEF LimitOrders
<1> DEFINE t == c.timers[lo.id] + 1
<1>4. y = [c EXCEPT !.expiration = @ \cup {lo.id}, !.timers[lo.id] = t]
  BY DEF HandleOrderAdded, c, r
<1>8. c.timers \in [Id -> Nat]  BY <1>2 DEF ActorState
<1>9. t \in Nat  BY <1>3, <1>8
<1> HIDE DEF t, y
<1>5. /\ y \in ActorState /\ y.active = c.active /\ y.openVolume = c.openVolume
      /\ y.pendingPlacement = c.pendingPlacement
      /\ y.pendingCancellation = c.pendingCancellation
  BY <1>2, <1>3, <1>4, <1>9 DEF ActorState
<1>6. Reserved(r) => Reserved(y)  BY <1>2, <1>5 DEF Reserved
<1> QED BY <1>1, <1>2, <1>5, <1>6 DEF y

LEMMA TerminatedFacts ==
  ASSUME NEW x \in ActorState, NEW o \in Id
  PROVE  LET y == HandleOrderTerminated(x, o)
         IN  /\ y \in ActorState
             /\ DOMAIN y.active = DOMAIN x.active \ {o}
             /\ \A p \in DOMAIN y.active : y.active[p] = x.active[p]
             /\ ReservedBut(x, o) => Reserved(y)
             /\ y.pendingPlacement = x.pendingPlacement
             /\ y.pendingCancellation = x.pendingCancellation \ {o}
<1> DEFINE f == x.active
           g == Restrict(f, DOMAIN f \ {o})
           t == IF o \in x.expiration THEN NotNegative(x.timers[o] - 1) ELSE x.timers[o]
           y == HandleOrderTerminated(x, o)
<1>1. f \in Actives /\ x.timers \in [Id -> Nat]
  BY DEF ActorState
<1>2. g \in Actives /\ DOMAIN g = DOMAIN f \ {o} /\ \A p \in DOMAIN g : g[p] = f[p]
  BY <1>1, ActiveWithout
<1>3. t \in Nat  BY <1>1 DEF NotNegative
<1>4. y = [x EXCEPT !.pendingCancellation = @ \ {o}, !.active = g, !.expiration = @ \ {o},
                    !.timers[o] = t]
  BY DEF HandleOrderTerminated
<1> HIDE DEF g, t, y
<1>5. /\ y \in ActorState /\ y.active = g /\ y.openVolume = x.openVolume
      /\ y.pendingPlacement = x.pendingPlacement
      /\ y.pendingCancellation = x.pendingCancellation \ {o}
  BY <1>2, <1>3, <1>4 DEF ActorState
<1>6. ASSUME ReservedBut(x, o) PROVE Reserved(y)
  BY <1>6, <1>2, <1>5 DEF Reserved, ReservedBut, RequiredBut
<1> QED BY <1>2, <1>5, <1>6 DEF y

\* The actor x of w and the actor y it is after lo is what an execution has left
ActiveAfter(x, w, lo, y) ==
  /\ DOMAIN y.active =
       IF Sender(lo.id) # w THEN DOMAIN x.active
       ELSE IF IsValid(lo) THEN DOMAIN x.active \cup {lo.id} ELSE DOMAIN x.active \ {lo.id}
  /\ \A o \in DOMAIN y.active :
       IF Sender(lo.id) = w /\ o = lo.id THEN y.active[o] = lo ELSE y.active[o] = x.active[o]

LEMMA ExecutedHandled ==
  ASSUME NEW x \in ActorState, NEW w, NEW lo \in LimitOrders
  PROVE  /\ HandleOrderExecuted(x, w, lo) \in ActorState
         /\ Reserved(x) => Reserved(HandleOrderExecuted(x, w, lo))
         /\ ActiveAfter(x, w, lo, HandleOrderExecuted(x, w, lo))
<1> DEFINE r == Release(x, lo.id)
           c == ConfirmPlacement(r, lo.id)
           y == HandleOrderExecuted(x, w, lo)
<1>0. lo.id \in Id  BY DEF LimitOrders
<1>1. CASE Sender(lo.id) # w
  BY <1>1 DEF HandleOrderExecuted, ActiveAfter
<1>2. r \in ActorState /\ r.active = x.active /\ (Reserved(x) => ReservedBut(r, lo.id))
  BY ReleaseFacts
<1>3. CASE Sender(lo.id) = w /\ IsValid(lo)
  BY <1>3, <1>2, AddedFacts DEF HandleOrderExecuted, r, y, ActiveAfter
<1>4. CASE Sender(lo.id) = w /\ ~ IsValid(lo)
  <2> HIDE DEF r
  <2>1. /\ c \in ActorState /\ c.active = r.active /\ c.openVolume = r.openVolume
    BY <1>2, ConfirmFacts
  <2> HIDE DEF c
  <2>2. ReservedBut(r, lo.id) => ReservedBut(c, lo.id)
    BY <2>1 DEF ReservedBut, RequiredBut
  <2>3. y = HandleOrderTerminated(c, lo.id)
    BY <1>4 DEF HandleOrderExecuted, r, c
  <2>4. LET z == HandleOrderTerminated(c, lo.id)
        IN  /\ z \in ActorState
            /\ DOMAIN z.active = DOMAIN c.active \ {lo.id}
            /\ \A p \in DOMAIN z.active : z.active[p] = c.active[p]
            /\ ReservedBut(c, lo.id) => Reserved(z)
    BY <1>0, <2>1, TerminatedFacts
  <2> HIDE DEF y
  <2>5. /\ y \in ActorState
        /\ DOMAIN y.active = DOMAIN x.active \ {lo.id}
        /\ \A p \in DOMAIN y.active : y.active[p] = x.active[p]
        /\ Reserved(x) => Reserved(y)
    BY <1>2, <2>1, <2>2, <2>3, <2>4
  <2> QED BY <1>4, <2>5 DEF y, ActiveAfter
<1> QED BY <1>1, <1>3, <1>4

LEMMA CanceledHandled ==
  ASSUME NEW x \in ActorState, NEW o \in Id
  PROVE  LET y == HandleOrderCanceled(x, o)
         IN  /\ y \in ActorState
             /\ Reserved(x) => Reserved(y)
             /\ DOMAIN y.active = DOMAIN x.active \ {o}
             /\ \A p \in DOMAIN y.active : y.active[p] = x.active[p]
<1> DEFINE c == ConfirmPlacement(x, o)
           d == [c EXCEPT !.pendingCancellation = @ \ {o}]
           r == Release(d, o)
           y == HandleOrderCanceled(x, o)
<1>1. c \in ActorState /\ c.active = x.active /\ c.openVolume = x.openVolume
  BY ConfirmFacts
<1> HIDE DEF c
<1>2. d \in ActorState /\ d.active = x.active /\ d.openVolume = x.openVolume
  BY <1>1 DEF ActorState
<1> HIDE DEF d
<1>3. Reserved(x) => Reserved(d)  BY <1>2 DEF Reserved
<1>4. CASE o \in DOMAIN x.active
  <2>1. y = HandleOrderTerminated(r, o)
    BY <1>4 DEF HandleOrderCanceled, c, d
  <2>2. r \in ActorState /\ r.active = d.active /\ (Reserved(d) => ReservedBut(r, o))
    BY <1>2, ReleaseFacts
  <2> HIDE DEF r
  <2>3. LET z == HandleOrderTerminated(r, o)
        IN  /\ z \in ActorState
            /\ DOMAIN z.active = DOMAIN r.active \ {o}
            /\ \A p \in DOMAIN z.active : z.active[p] = r.active[p]
            /\ ReservedBut(r, o) => Reserved(z)
    BY <2>2, TerminatedFacts
  <2> HIDE DEF y
  <2>4. /\ y \in ActorState
        /\ Reserved(x) => Reserved(y)
        /\ DOMAIN y.active = DOMAIN x.active \ {o}
        /\ \A p \in DOMAIN y.active : y.active[p] = x.active[p]
    BY <1>2, <1>3, <2>1, <2>2, <2>3
  <2> QED BY <2>4 DEF y
<1>5. CASE o \notin DOMAIN x.active
  BY <1>5, <1>2, <1>3 DEF HandleOrderCanceled, c, d
<1> QED BY <1>4, <1>5

\* The orders of an event, and what an actor's active orders are after it
LEMMA HandleFacts ==
  ASSUME NEW x \in ActorState, NEW w, NEW e \in Events
  PROVE  /\ Handle(x, w, e) \in ActorState
         /\ Reserved(x) => Reserved(Handle(x, w, e))
         /\ \A o \in DOMAIN x.active :
              o \in DOMAIN Handle(x, w, e).active \/ \E t \in Terminated(x, w, e) : t[1] = o
<1> DEFINE y == Handle(x, w, e)
<1>1. CASE e.type = "OrderAdded"
  <2>1. e.lo \in LimitOrders  BY <1>1 DEF Events
  <2> DEFINE r == Release(x, e.lo.id)
  <2>2. r \in ActorState /\ r.active = x.active /\ (Reserved(x) => ReservedBut(r, e.lo.id))
    BY ReleaseFacts
  <2>3. y = HandleOrderAdded(r, e.lo)  BY <1>1 DEF Handle
  <2> HIDE DEF r
  <2>4. LET z == HandleOrderAdded(r, e.lo)
        IN  /\ z \in ActorState
            /\ DOMAIN z.active = DOMAIN r.active \cup {e.lo.id}
            /\ ReservedBut(r, e.lo.id) => Reserved(z)
    BY <2>1, <2>2, AddedFacts
  <2> HIDE DEF y
  <2>5. y \in ActorState /\ (Reserved(x) => Reserved(y)) /\ DOMAIN x.active \subseteq DOMAIN y.active
    BY <2>2, <2>3, <2>4
  <2> QED BY <2>5 DEF y
<1>2. CASE e.type = "OrderExecuted"
  <2> DEFINE s == SubmittedRemaining(e)
             c == CounterRemaining(e)
             z == HandleOrderExecuted(x, w, s)
  <2>1. s \in LimitOrders /\ c \in LimitOrders
    BY <1>2, RemainingTyped DEF Events, SubmittedRemaining, CounterRemaining
  <2>2. y = HandleOrderExecuted(z, w, c)  BY <1>2 DEF Handle
  <2> HIDE DEF s, c
  <2>3. /\ z \in ActorState
        /\ Reserved(x) => Reserved(z)
        /\ ActiveAfter(x, w, s, z)
    BY <2>1, ExecutedHandled
  <2> HIDE DEF z
  <2>4. /\ HandleOrderExecuted(z, w, c) \in ActorState
        /\ Reserved(z) => Reserved(HandleOrderExecuted(z, w, c))
        /\ ActiveAfter(z, w, c, HandleOrderExecuted(z, w, c))
    BY <2>1, <2>3, ExecutedHandled
  <2> HIDE DEF y
  <2>5. y \in ActorState /\ (Reserved(x) => Reserved(y)) /\ ActiveAfter(z, w, c, y)
    BY <2>2, <2>3, <2>4
  <2>6. Terminated(x, w, e) =
          {<<lo.id, Filled(FilledAmount(lo))>> :
             lo \in {r \in {s, c} : Sender(r.id) = w /\ ~ IsValid(r)}}
    BY <1>2 DEF Terminated, s, c
  <2>7. \A r \in {s, c} : Sender(r.id) = w /\ ~ IsValid(r) =>
          \E t \in Terminated(x, w, e) : t[1] = r.id
    <3> SUFFICES ASSUME NEW r \in {s, c}, Sender(r.id) = w, ~ IsValid(r)
                 PROVE  \E t \in Terminated(x, w, e) : t[1] = r.id
      OBVIOUS
    <3> DEFINE t == <<r.id, Filled(FilledAmount(r))>>
    <3>1. t \in Terminated(x, w, e) /\ t[1] = r.id  BY <2>6
    <3> QED BY <3>1
  <2>8. ASSUME NEW o \in DOMAIN x.active, o \notin DOMAIN y.active
        PROVE  \E r \in {s, c} : Sender(r.id) = w /\ ~ IsValid(r) /\ r.id = o
    BY <2>3, <2>5, <2>8 DEF ActiveAfter
  <2>9. \A o \in DOMAIN x.active :
          o \in DOMAIN y.active \/ \E t \in Terminated(x, w, e) : t[1] = o
    BY <2>7, <2>8
  <2> QED BY <2>5, <2>9 DEF y
<1>3. CASE e.type = "OrderCanceled"
  <2>1. e.lo \in LimitOrders /\ e.lo.id \in Id
    BY <1>3 DEF Events, LimitOrders
  <2>2. y = HandleOrderCanceled(x, e.lo.id)
    BY <1>3 DEF Handle
  <2>3. LET z == HandleOrderCanceled(x, e.lo.id)
        IN  /\ z \in ActorState
            /\ Reserved(x) => Reserved(z)
            /\ DOMAIN z.active = DOMAIN x.active \ {e.lo.id}
    BY <2>1, CanceledHandled
  <2> HIDE DEF y
  <2>4. y \in ActorState /\ (Reserved(x) => Reserved(y)) /\ DOMAIN y.active = DOMAIN x.active \ {e.lo.id}
    BY <2>2, <2>3
  <2>5. e.lo.id \in DOMAIN x.active => \E t \in Terminated(x, w, e) : t[1] = e.lo.id
    <3> SUFFICES ASSUME e.lo.id \in DOMAIN x.active
                 PROVE  \E t \in Terminated(x, w, e) : t[1] = e.lo.id
      OBVIOUS
    <3> DEFINE t == <<e.lo.id, FinalStatus(e.lo, e.unmatchable)>>
    <3>1. Terminated(x, w, e) =
            {<<lo.id, FinalStatus(lo, e.unmatchable)>> : lo \in {l \in {e.lo} : l.id \in DOMAIN x.active}}
      BY <1>3 DEF Terminated
    <3>2. t \in Terminated(x, w, e) /\ t[1] = e.lo.id  BY <3>1
    <3> QED BY <3>2
  <2> QED BY <2>4, <2>5 DEF y
<1> QED BY <1>1, <1>2, <1>3 DEF Events

----------------------------------------------------------------------------
(* Trades *)

TradeSet ==
  [at : Nat \X Nat, submitted : LimitOrders, counter : LimitOrders, executed : Nat]

\* What trades execute of an order, take from its owner and pay as its fee
Total(o, T) == Sum([i \in DOMAIN T |-> Executed(o, T[i])])
SpentIn(o, T) == Sum([i \in DOMAIN T |-> Spent(o, T[i])])
FeesIn(o, T) == Sum([i \in DOMAIN T |-> FeeOf(o, T[i])])

TradeFrom(at, submitted, counter) ==
  [at |-> at, submitted |-> submitted, counter |-> counter,
   executed |-> ExecutedAmount(submitted, counter)]

LEMMA SumAppend ==
  ASSUME NEW S, NEW T \in Seq(S), NEW t \in S, NEW f, NEW g,
         DOMAIN g = DOMAIN T, DOMAIN f = DOMAIN Append(T, t),
         \A i \in DOMAIN T : g[i] \in Int /\ f[i] = g[i],
         f[Len(T) + 1] \in Int
  PROVE  Sum(f) = Sum(g) + f[Len(T) + 1] /\ Sum(g) \in Int
<1> DEFINE n == Len(T)
<1>1. n \in Nat /\ DOMAIN T = 1 .. n /\ DOMAIN Append(T, t) = 1 .. n + 1
  OBVIOUS
<1>2. IsFiniteSet(DOMAIN g)  BY <1>1, FS_Interval
<1>3. n + 1 \notin DOMAIN g /\ DOMAIN f = DOMAIN g \cup {n + 1}
  BY <1>1
<1> HIDE DEF n
<1>4. Sum(f) = Sum(g) + f[n + 1] /\ Sum(g) \in Int
  BY <1>2, <1>3, SumOneMore DEF n
<1> QED BY <1>4 DEF n

LEMMA TradePriceFacts ==
  ASSUME NEW t \in TradeSet
  PROVE  TradePrice(t) \in Nat
<1>1. t.executed \in Nat /\ t.counter \in LimitOrders
  BY DEF TradeSet
<1>2. Price(t.counter) \in Nat  BY <1>1, PriceFacts
<1> QED BY <1>1, <1>2, PriceAmountFacts DEF TradePrice

LEMMA TradeTypes ==
  ASSUME NEW t \in TradeSet, NEW o \in Id
  PROVE  Executed(o, t) \in Nat /\ Spent(o, t) \in Nat /\ FeeOf(o, t) \in Nat
<1>1. t.executed \in Nat  BY DEF TradeSet
<1>2. TradePrice(t) \in Nat  BY TradePriceFacts
<1>3. PartialFee(o, t.executed) \in Nat
  BY <1>1, PartialFeeFacts
<1> QED BY <1>1, <1>2, <1>3 DEF Executed, Spent, FeeOf

\* One more trade
LEMMA TotalsAppend ==
  ASSUME NEW T \in Seq(TradeSet), NEW t \in TradeSet, NEW o \in Id
  PROVE  /\ Total(o, Append(T, t)) = Total(o, T) + Executed(o, t)
         /\ SpentIn(o, Append(T, t)) = SpentIn(o, T) + Spent(o, t)
         /\ FeesIn(o, Append(T, t)) = FeesIn(o, T) + FeeOf(o, t)
         /\ Total(o, T) \in Int /\ SpentIn(o, T) \in Int /\ FeesIn(o, T) \in Int
<1> DEFINE n == Len(T)
           U == Append(T, t)
<1>1. n \in Nat /\ DOMAIN T = 1 .. n /\ DOMAIN U = 1 .. n + 1 /\ U[n + 1] = t
  OBVIOUS
<1>2. \A i \in DOMAIN T : U[i] = T[i] /\ T[i] \in TradeSet
  OBVIOUS
<1>3. /\ Executed(o, t) \in Int /\ Spent(o, t) \in Int /\ FeeOf(o, t) \in Int
      /\ \A i \in DOMAIN T : /\ Executed(o, T[i]) \in Int /\ Spent(o, T[i]) \in Int
                             /\ FeeOf(o, T[i]) \in Int
  BY <1>2, TradeTypes
<1>4. n + 1 \in DOMAIN U  BY <1>1
<1>5. Total(o, U) = Total(o, T) + Executed(o, t) /\ Total(o, T) \in Int
  <2> DEFINE f == [i \in DOMAIN U |-> Executed(o, U[i])]
             g == [i \in DOMAIN T |-> Executed(o, T[i])]
  <2>1. DOMAIN g = DOMAIN T /\ DOMAIN f = DOMAIN U /\ f[n + 1] = Executed(o, t)
    BY <1>1, <1>4
  <2>2. \A i \in DOMAIN T : g[i] \in Int /\ f[i] = g[i]
    BY <1>1, <1>2, <1>3
  <2>3. Total(o, U) = Sum(f) /\ Total(o, T) = Sum(g)
    BY DEF Total
  <2> HIDE DEF f, g
  <2>4. Sum(f) = Sum(g) + f[n + 1] /\ Sum(g) \in Int
    <3>1. DOMAIN g = DOMAIN T /\ DOMAIN f = DOMAIN Append(T, t) /\ f[Len(T) + 1] \in Int
      BY <1>3, <2>1
    <3> QED BY ONLY <2>2, <3>1, T \in Seq(TradeSet), t \in TradeSet, SumAppend
  <2> QED BY <2>1, <2>3, <2>4
<1>6. SpentIn(o, U) = SpentIn(o, T) + Spent(o, t) /\ SpentIn(o, T) \in Int
  <2> DEFINE f == [i \in DOMAIN U |-> Spent(o, U[i])]
             g == [i \in DOMAIN T |-> Spent(o, T[i])]
  <2>1. DOMAIN g = DOMAIN T /\ DOMAIN f = DOMAIN U /\ f[n + 1] = Spent(o, t)
    BY <1>1, <1>4
  <2>2. \A i \in DOMAIN T : g[i] \in Int /\ f[i] = g[i]
    BY <1>1, <1>2, <1>3
  <2>3. SpentIn(o, U) = Sum(f) /\ SpentIn(o, T) = Sum(g)
    BY DEF SpentIn
  <2> HIDE DEF f, g
  <2>4. Sum(f) = Sum(g) + f[n + 1] /\ Sum(g) \in Int
    <3>1. DOMAIN g = DOMAIN T /\ DOMAIN f = DOMAIN Append(T, t) /\ f[Len(T) + 1] \in Int
      BY <1>3, <2>1
    <3> QED BY ONLY <2>2, <3>1, T \in Seq(TradeSet), t \in TradeSet, SumAppend
  <2> QED BY <2>1, <2>3, <2>4
<1>7. FeesIn(o, U) = FeesIn(o, T) + FeeOf(o, t) /\ FeesIn(o, T) \in Int
  <2> DEFINE f == [i \in DOMAIN U |-> FeeOf(o, U[i])]
             g == [i \in DOMAIN T |-> FeeOf(o, T[i])]
  <2>1. DOMAIN g = DOMAIN T /\ DOMAIN f = DOMAIN U /\ f[n + 1] = FeeOf(o, t)
    BY <1>1, <1>4
  <2>2. \A i \in DOMAIN T : g[i] \in Int /\ f[i] = g[i]
    BY <1>1, <1>2, <1>3
  <2>3. FeesIn(o, U) = Sum(f) /\ FeesIn(o, T) = Sum(g)
    BY DEF FeesIn
  <2> HIDE DEF f, g
  <2>4. Sum(f) = Sum(g) + f[n + 1] /\ Sum(g) \in Int
    <3>1. DOMAIN g = DOMAIN T /\ DOMAIN f = DOMAIN Append(T, t) /\ f[Len(T) + 1] \in Int
      BY <1>3, <2>1
    <3> QED BY ONLY <2>2, <3>1, T \in Seq(TradeSet), t \in TradeSet, SumAppend
  <2> QED BY <2>1, <2>3, <2>4
<1> QED BY <1>5, <1>6, <1>7

\* Nothing is executed without trades.
LEMMA NoTrades ==
  ASSUME NEW o
  PROVE  Total(o, <<>>) = 0 /\ SpentIn(o, <<>>) = 0 /\ FeesIn(o, <<>>) = 0
<1>1. DOMAIN <<>> = {}  OBVIOUS
<1> DEFINE e == [i \in DOMAIN <<>> |-> Executed(o, <<>>[i])]
           s == [i \in DOMAIN <<>> |-> Spent(o, <<>>[i])]
           f == [i \in DOMAIN <<>> |-> FeeOf(o, <<>>[i])]
<1>2. DOMAIN e = {} /\ DOMAIN s = {} /\ DOMAIN f = {}  BY <1>1
<1>3. Total(o, <<>>) = Sum(e) /\ SpentIn(o, <<>>) = Sum(s) /\ FeesIn(o, <<>>) = Sum(f)
  BY DEF Total, SpentIn, FeesIn
<1> HIDE DEF e, s, f
<1> QED BY <1>2, <1>3, SumNone

----------------------------------------------------------------------------
(* Trades that take no more than the orders allow *)

\* What an amount costs the order's owner at the order's own price
CostOf(o, amount) ==
  IF Orders[o].orderType = "buy" THEN PriceAmount(amount, Orders[o].price) ELSE amount

Fair(T) ==
  \A o \in Id :
    /\ Total(o, T) \in Nat
    /\ Total(o, T) <= Orders[o].amount
    /\ SpentIn(o, T) <= CostOf(o, Total(o, T))
    /\ FeesIn(o, T) <= PartialFee(o, Total(o, T))

\* What is left of the order is what the trades have not executed.
Exact(T, lo) == Total(lo.id, T) + lo.amount = Orders[lo.id].amount

LEMMA CostTypes ==
  ASSUME NEW o \in Id, NEW x \in Nat
  PROVE  CostOf(o, x) \in Nat /\ PartialFee(o, x) \in Nat
<1>1. PriceAmount(x, Orders[o].price) \in Nat
  BY OrderFacts, PriceAmountFacts
<1> QED BY <1>1, PartialFeeFacts DEF CostOf

LEMMA CostAdds ==
  ASSUME NEW o \in Id, NEW x \in Nat, NEW y \in Nat
  PROVE  /\ CostOf(o, x) + CostOf(o, y) <= CostOf(o, x + y)
         /\ PartialFee(o, x) + PartialFee(o, y) <= PartialFee(o, x + y)
         /\ CostOf(o, x) \in Nat /\ PartialFee(o, x) \in Nat
<1> DEFINE p == Orders[o].price
           f == Orders[o].matcherFee
           a == Orders[o].amount
           c == PriceConstant
<1>1. p \in Nat /\ f \in Nat /\ a \in Nat /\ a > 0 /\ c \in Nat /\ c > 0
  BY OrderFacts
<1>2. CostOf(o, x) = (IF Orders[o].orderType = "buy" THEN (x * p) \div c ELSE x)
      /\ CostOf(o, y) = (IF Orders[o].orderType = "buy" THEN (y * p) \div c ELSE y)
      /\ CostOf(o, x + y) = (IF Orders[o].orderType = "buy" THEN ((x + y) * p) \div c ELSE x + y)
  BY DEF CostOf, PriceAmount
<1>3. PartialFee(o, x) = (f * x) \div a /\ PartialFee(o, y) = (f * y) \div a
      /\ PartialFee(o, x + y) = (f * (x + y)) \div a
  BY DEF PartialFee
<1> HIDE DEF p, f, a, c
<1>4. x * p \in Nat /\ y * p \in Nat /\ f * x \in Nat /\ f * y \in Nat
      /\ (x + y) * p = x * p + y * p /\ f * (x + y) = f * x + f * y
  BY <1>1
<1> DEFINE xp == x * p
           yp == y * p
           fx == f * x
           fy == f * y
<1>5. xp \in Nat /\ yp \in Nat /\ fx \in Nat /\ fy \in Nat
  BY <1>4
<1> HIDE DEF xp, yp, fx, fy
<1>6. (xp \div c) + (yp \div c) <= (xp + yp) \div c /\ (xp \div c) \in Nat
  BY <1>1, <1>5, DivAdds, DivFloor
<1>7. (fx \div a) + (fy \div a) <= (fx + fy) \div a /\ (fx \div a) \in Nat
  BY <1>1, <1>5, DivAdds, DivFloor
<1>8. /\ CostOf(o, x) = (IF Orders[o].orderType = "buy" THEN xp \div c ELSE x)
      /\ CostOf(o, y) = (IF Orders[o].orderType = "buy" THEN yp \div c ELSE y)
      /\ CostOf(o, x + y) = (IF Orders[o].orderType = "buy" THEN (xp + yp) \div c ELSE x + y)
  BY <1>2, <1>4 DEF xp, yp
<1>9. PartialFee(o, x) = fx \div a /\ PartialFee(o, y) = fy \div a /\ PartialFee(o, x + y) = (fx + fy) \div a
  BY <1>3, <1>4 DEF fx, fy
<1> QED BY <1>6, <1>7, <1>8, <1>9

LEMMA TradeFromFacts ==
  ASSUME NEW at \in Nat \X Nat, NEW s \in LimitOrders, NEW c \in LimitOrders
  PROVE  /\ TradeFrom(at, s, c) \in TradeSet
         /\ TradeFrom(at, s, c).submitted = s /\ TradeFrom(at, s, c).counter = c
         /\ TradeFrom(at, s, c).executed = ExecutedAmount(s, c)
<1>1. ExecutedAmount(s, c) \in Nat  BY ExecutedFacts
<1> QED BY <1>1 DEF TradeFrom, TradeSet

\* A trade is made at a price no worse than the order's own.
LEMMA SpentAtMostCost ==
  ASSUME NEW at \in Nat \X Nat, NEW s \in LimitOrders, NEW c \in LimitOrders,
         SideOf(c) # SideOf(s), CanMatch(s, c), NEW o \in {s.id, c.id}
  PROVE  Spent(o, TradeFrom(at, s, c)) <= CostOf(o, ExecutedAmount(s, c))
<1> DEFINE t == TradeFrom(at, s, c)
           x == ExecutedAmount(s, c)
           p == Price(c)
           q == Orders[o].price
<1>1. t.submitted = s /\ t.counter = c /\ t.executed = x /\ x \in Nat
  BY TradeFromFacts, ExecutedFacts
<1>2. o \in Id /\ p \in Nat /\ q \in Nat
  BY PriceFacts, OrderFacts DEF LimitOrders
<1>3. Spent(o, t) = IF Orders[o].orderType = "buy" THEN PriceAmount(x, p) ELSE x
  BY <1>1 DEF Spent, TradePrice
<1>4. Orders[o].orderType = "buy" => p <= q
  BY <1>2 DEF IsBuy, CanMatch, Price
<1>5. p <= q => PriceAmount(x, p) <= PriceAmount(x, q)
  <2> HAVE p <= q
  <2>1. x * p <= x * q /\ x * p \in Nat /\ x * q \in Nat
    BY <1>1, <1>2, TimesGrows
  <2>2. PriceConstant \in Nat /\ PriceConstant > 0
    BY OrdersAssumption
  <2> DEFINE a == x * p
             b == x * q
  <2>3. a \in Nat /\ b \in Nat /\ a <= b  BY <2>1
  <2>4. PriceAmount(x, p) = a \div PriceConstant /\ PriceAmount(x, q) = b \div PriceConstant
    BY DEF PriceAmount
  <2> HIDE DEF a, b
  <2> QED BY <2>2, <2>3, <2>4, DivGrows
<1> HIDE DEF t, x, p, q
<1>6. CostOf(o, x) = IF Orders[o].orderType = "buy" THEN PriceAmount(x, q) ELSE x
  BY DEF CostOf, q
<1> QED BY <1>1, <1>3, <1>4, <1>5, <1>6 DEF t, x

\* Of other orders than these, no more is executed.
Untouched(T, U, ids) == \A o \in Id : o \notin ids => Total(o, U) = Total(o, T)

LEMMA ExactUntouched ==
  ASSUME NEW T, NEW U, NEW ids, Untouched(T, U, ids), NEW lo \in LimitOrders,
         lo.id \notin ids, Exact(T, lo)
  PROVE  Exact(U, lo)
  BY DEF Untouched, Exact, LimitOrders

LEMMA UntouchedFurther ==
  ASSUME NEW T, NEW U, NEW V, NEW ids, NEW others,
         Untouched(T, U, ids), Untouched(U, V, others), others \subseteq ids
  PROVE  Untouched(T, V, ids)
  BY DEF Untouched

\* Fair trades stay fair with one more between orders whose rest is exact.
LEMMA OneMoreTrade ==
  ASSUME NEW T \in Seq(TradeSet), Fair(T), NEW at \in Nat \X Nat,
         NEW s \in LimitOrders, NEW c \in LimitOrders,
         SideOf(c) # SideOf(s), CanMatch(s, c), Exact(T, s), Exact(T, c)
  PROVE  LET U == Append(T, TradeFrom(at, s, c))
         IN  /\ U \in Seq(TradeSet) /\ Fair(U)
             /\ Exact(U, SubmittedRemaining(OrderExecuted(s, c)))
             /\ Exact(U, CounterRemaining(OrderExecuted(s, c)))
             /\ Untouched(T, U, {s.id, c.id})
<1> DEFINE t == TradeFrom(at, s, c)
           x == ExecutedAmount(s, c)
           U == Append(T, t)
<1>1. /\ t \in TradeSet /\ t.submitted = s /\ t.counter = c /\ t.executed = x
      /\ x \in Nat /\ x <= s.amount /\ x <= c.amount
  BY TradeFromFacts, ExecutedFacts
<1>2. s.id \in Id /\ c.id \in Id /\ s.amount \in Nat /\ c.amount \in Nat
  BY DEF LimitOrders
<1>3. ASSUME NEW o \in {s.id, c.id} PROVE Spent(o, t) <= CostOf(o, x)
  BY <1>3, SpentAtMostCost
<1> HIDE DEF t, x
<1>4. U \in Seq(TradeSet)  BY <1>1
<1>5. ASSUME NEW o \in Id
      PROVE  /\ Total(o, U) = Total(o, T) + Executed(o, t)
             /\ SpentIn(o, U) = SpentIn(o, T) + Spent(o, t)
             /\ FeesIn(o, U) = FeesIn(o, T) + FeeOf(o, t)
             /\ Total(o, T) \in Int /\ SpentIn(o, T) \in Int /\ FeesIn(o, T) \in Int
  BY ONLY <1>1, <1>5, T \in Seq(TradeSet), TotalsAppend
<1> HIDE DEF U
<1>6. ASSUME NEW o \in Id, o \notin {s.id, c.id}
      PROVE  Total(o, U) = Total(o, T) /\ SpentIn(o, U) = SpentIn(o, T) /\ FeesIn(o, U) = FeesIn(o, T)
  BY <1>1, <1>6, <1>5 DEF Executed, Spent, FeeOf
<1>7. ASSUME NEW lo \in {s, c}
      PROVE  /\ Total(lo.id, U) = Total(lo.id, T) + x
             /\ SpentIn(lo.id, U) <= SpentIn(lo.id, T) + CostOf(lo.id, x)
             /\ FeesIn(lo.id, U) = FeesIn(lo.id, T) + PartialFee(lo.id, x)
             /\ Total(lo.id, T) + lo.amount = Orders[lo.id].amount
             /\ x <= lo.amount /\ lo.amount \in Nat
  <2>1. lo.id \in Id /\ lo.id \in {s.id, c.id}  BY <1>2
  <2>2. Executed(lo.id, t) = x /\ FeeOf(lo.id, t) = PartialFee(lo.id, x)
    BY <1>1, <2>1 DEF Executed, FeeOf
  <2>3. Spent(lo.id, t) <= CostOf(lo.id, x)  BY <1>3, <2>1
  <2>4. Spent(lo.id, t) \in Nat /\ CostOf(lo.id, x) \in Nat
    BY <1>1, <2>1, TradeTypes, CostTypes
  <2>5. Total(lo.id, T) + lo.amount = Orders[lo.id].amount
    BY DEF Exact
  <2>6. /\ Total(lo.id, U) = Total(lo.id, T) + x
        /\ FeesIn(lo.id, U) = FeesIn(lo.id, T) + PartialFee(lo.id, x)
    BY <1>5, <2>1, <2>2
  <2>7. SpentIn(lo.id, U) <= SpentIn(lo.id, T) + CostOf(lo.id, x)
    BY <1>5, <2>1, <2>3, <2>4
  <2> QED BY <1>1, <1>2, <2>5, <2>6, <2>7
<1>8. ASSUME NEW o \in Id
      PROVE  /\ Total(o, U) \in Nat
             /\ Total(o, U) <= Orders[o].amount
             /\ SpentIn(o, U) <= CostOf(o, Total(o, U))
             /\ FeesIn(o, U) <= PartialFee(o, Total(o, U))
  <2>0. /\ Total(o, T) \in Nat
        /\ Total(o, T) <= Orders[o].amount
        /\ SpentIn(o, T) <= CostOf(o, Total(o, T))
        /\ FeesIn(o, T) <= PartialFee(o, Total(o, T))
    BY DEF Fair
  <2>1. CASE o \notin {s.id, c.id}  BY <1>6, <2>0, <2>1
  <2>2. CASE o \in {s.id, c.id}
    <3>1. PICK lo \in {s, c} : lo.id = o  BY <2>2
    <3> DEFINE n == Total(o, T)
    <3>2. /\ CostOf(o, n) + CostOf(o, x) <= CostOf(o, n + x)
          /\ PartialFee(o, n) + PartialFee(o, x) <= PartialFee(o, n + x)
          /\ CostOf(o, n) \in Nat /\ PartialFee(o, n) \in Nat
      BY ONLY <1>1, <2>0, o \in Id, CostAdds
    <3>3. CostOf(o, x) \in Nat /\ PartialFee(o, x) \in Nat /\ n + x \in Nat
      <4>1. CostOf(o, x) \in Nat /\ PartialFee(o, x) \in Nat
        BY <1>1, CostTypes
      <4>2. n + x \in Nat  BY <1>1, <2>0
      <4> QED BY <4>1, <4>2
    <3>4. CostOf(o, n + x) \in Nat /\ PartialFee(o, n + x) \in Nat
      BY ONLY <3>3, o \in Id, CostTypes
    <3>5. /\ Total(o, U) = n + x
          /\ SpentIn(o, U) <= SpentIn(o, T) + CostOf(o, x)
          /\ FeesIn(o, U) = FeesIn(o, T) + PartialFee(o, x)
          /\ n + lo.amount = Orders[o].amount /\ x <= lo.amount /\ lo.amount \in Nat
      BY <1>7, <3>1
    <3>6. SpentIn(o, T) \in Int /\ FeesIn(o, T) \in Int /\ Spent(o, t) \in Nat /\ SpentIn(o, U) \in Int
      BY <1>1, <1>5, TradeTypes
    <3> HIDE DEF n
    <3>7. SpentIn(o, T) <= CostOf(o, n) /\ FeesIn(o, T) <= PartialFee(o, n) /\ n \in Nat
      BY <2>0 DEF n
    <3>8. Total(o, U) \in Nat /\ Total(o, U) <= Orders[o].amount
      BY <1>1, <3>5, <3>7
    <3> DEFINE a == SpentIn(o, T)
               b == FeesIn(o, T)
               ca == CostOf(o, n)
               cx == CostOf(o, x)
               cs == CostOf(o, n + x)
               fa == PartialFee(o, n)
               fx == PartialFee(o, x)
               fs == PartialFee(o, n + x)
    <3>9. /\ a \in Int /\ b \in Int /\ {ca, cx, cs, fa, fx, fs} \subseteq Nat
          /\ a <= ca /\ b <= fa /\ ca + cx <= cs /\ fa + fx <= fs
          /\ SpentIn(o, U) \in Int /\ SpentIn(o, U) <= a + cx /\ FeesIn(o, U) = b + fx
      BY <3>2, <3>3, <3>4, <3>5, <3>6, <3>7
    <3> HIDE DEF a, b, ca, cx, cs, fa, fx, fs
    <3>10. SpentIn(o, U) <= cs /\ FeesIn(o, U) <= fs  BY <3>9
    <3> QED BY <3>5, <3>8, <3>10 DEF cs, fs
  <2> QED BY <2>1, <2>2
<1>9. Fair(U)  BY <1>8 DEF Fair
<1>10. ASSUME NEW lo \in {s, c} PROVE Exact(U, Remaining(lo, x))
  <2>1. lo \in LimitOrders /\ x <= lo.amount  BY <1>1
  <2>2. Remaining(lo, x).id = lo.id /\ Remaining(lo, x).amount = lo.amount - x
    BY <1>1, <2>1, RemainingFacts
  <2>3. Total(lo.id, T) \in Int  BY <1>2, <1>5
  <2> QED BY <1>1, <1>7, <2>2, <2>3 DEF Exact
<1>11. SubmittedRemaining(OrderExecuted(s, c)) = Remaining(s, x)
       /\ CounterRemaining(OrderExecuted(s, c)) = Remaining(c, x)
  BY DEF SubmittedRemaining, CounterRemaining, OrderExecuted, x
<1>12. Untouched(T, U, {s.id, c.id})  BY <1>6 DEF Untouched
<1> QED BY <1>4, <1>9, <1>10, <1>11, <1>12 DEF U, t

----------------------------------------------------------------------------
(* The trades of the events of an entry *)

LEMMA ConcatAppend ==
  ASSUME NEW S, NEW s \in Seq(S), NEW t \in Seq(S), NEW x \in S
  PROVE  s \o Append(t, x) = Append(s \o t, x)
<1>1. Append(t, x) = t \o <<x>>  BY AppendIsConcat
<1>2. <<x>> \in Seq(S)  OBVIOUS
<1>3. s \o (t \o <<x>>) = (s \o t) \o <<x>>
  BY <1>2, ConcatAssociative
<1>4. s \o t \in Seq(S)  OBVIOUS
<1>5. Append(s \o t, x) = (s \o t) \o <<x>>
  BY <1>4, AppendIsConcat
<1> QED BY <1>1, <1>3, <1>5

LEMMA ExecutionsAppend ==
  ASSUME NEW ev \in Seq(Events), NEW e \in Events
  PROVE  /\ Executions(ev) \in Seq(Events)
         /\ Executions(Append(ev, e)) =
              IF e.type = "OrderExecuted" THEN Append(Executions(ev), e) ELSE Executions(ev)
<1> DEFINE R == {x \in Events : x.type = "OrderExecuted"}
           S(s) == {x \in ToSet(s) : x.type = "OrderExecuted"}
<1>1. ASSUME NEW s \in Seq(Events) PROVE Executions(s) = Where(s, R)
  <2>1. ToSet(s) \subseteq Events  BY DEF ToSet
  <2>2. ToSet(s) \cap S(s) = ToSet(s) \cap R  BY <2>1
  <2>3. Executions(s) = Where(s, S(s))  BY DEF Executions
  <2> HIDE DEF R, S
  <2>4. Where(s, S(s)) = Where(s, R)
    BY ONLY <2>2, s \in Seq(Events), WhereSame
  <2> QED BY <2>3, <2>4
<1>2. Append(ev, e) \in Seq(Events)  OBVIOUS
<1>3. e \in R <=> e.type = "OrderExecuted"  OBVIOUS
<1> HIDE DEF R, S
<1>4. Where(Append(ev, e), R) = IF e \in R THEN Append(Where(ev, R), e) ELSE Where(ev, R)
  BY WhereAppend
<1>5. Where(ev, R) \in Seq(Events)  BY WhereElements
<1> QED BY <1>1, <1>2, <1>3, <1>4, <1>5

NextPlace(n, ev) == <<n, Len(Executions(ev)) + 1>>

LEMMA TradesOfAppend ==
  ASSUME NEW n \in Nat, NEW ev \in Seq(Events), NEW e \in Events
  PROVE  /\ NextPlace(n, ev) \in Nat \X Nat
         /\ e.type # "OrderExecuted" => TradesOf(n, Append(ev, e)) = TradesOf(n, ev)
         /\ \A s, c \in LimitOrders : e = OrderExecuted(s, c) =>
              TradesOf(n, Append(ev, e)) = Append(TradesOf(n, ev), TradeFrom(NextPlace(n, ev), s, c))
<1> DEFINE xs == Executions(ev)
           ys == Executions(Append(ev, e))
<1>1. xs \in Seq(Events) /\ ys = IF e.type = "OrderExecuted" THEN Append(xs, e) ELSE xs
  BY ExecutionsAppend
<1>2. TradesOf(n, ev) = [i \in DOMAIN xs |-> [at |-> <<n, i>>, submitted |-> xs[i].submitted,
                             counter |-> xs[i].counter, executed |-> xs[i].executed]]
  BY DEF TradesOf
<1>3. TradesOf(n, Append(ev, e)) = [i \in DOMAIN ys |-> [at |-> <<n, i>>, submitted |-> ys[i].submitted,
                             counter |-> ys[i].counter, executed |-> ys[i].executed]]
  BY DEF TradesOf
<1>4. NextPlace(n, ev) = <<n, Len(xs) + 1>> /\ NextPlace(n, ev) \in Nat \X Nat
  BY <1>1 DEF NextPlace
<1> HIDE DEF xs, ys
<1>5. e.type # "OrderExecuted" => TradesOf(n, Append(ev, e)) = TradesOf(n, ev)
  BY <1>1, <1>2, <1>3
<1>6. ASSUME NEW s \in LimitOrders, NEW c \in LimitOrders, e = OrderExecuted(s, c)
      PROVE  TradesOf(n, Append(ev, e)) = Append(TradesOf(n, ev), TradeFrom(NextPlace(n, ev), s, c))
  <2> DEFINE N == Len(xs)
             Of(z, i) == [at |-> <<n, i>>, submitted |-> z.submitted,
                          counter |-> z.counter, executed |-> z.executed]
  <2>1. ys = Append(xs, e)  BY <1>1, <1>6 DEF OrderExecuted
  <2>2. N \in Nat /\ DOMAIN xs = 1 .. N /\ DOMAIN ys = 1 .. N + 1 /\ ys[N + 1] = e
        /\ \A i \in 1 .. N : ys[i] = xs[i]
    BY <1>1, <2>1
  <2>3. Of(e, N + 1) = TradeFrom(NextPlace(n, ev), s, c)
    BY <1>4, <1>6 DEF OrderExecuted, TradeFrom
  <2>4. TradesOf(n, ev) = [i \in 1 .. N |-> Of(xs[i], i)]
        /\ TradesOf(n, Append(ev, e)) = [i \in 1 .. N + 1 |-> Of(ys[i], i)]
    BY <1>2, <1>3, <2>2
  <2> DEFINE f == [i \in 1 .. N |-> Of(xs[i], i)]
             g == [i \in 1 .. N + 1 |-> Of(ys[i], i)]
             t == TradeFrom(NextPlace(n, ev), s, c)
  <2>5. g[N + 1] = t /\ \A i \in 1 .. N : g[i] = f[i]
    <3>1. N + 1 \in 1 .. N + 1 /\ \A i \in 1 .. N : i \in 1 .. N + 1
      BY <2>2
    <3>2. ys[N + 1] = e /\ Of(e, N + 1) = t  BY <2>2, <2>3
    <3> HIDE DEF N, Of, t
    <3>3. g[N + 1] = Of(ys[N + 1], N + 1)  BY <3>1
    <3>4. ASSUME NEW i \in 1 .. N PROVE g[i] = f[i]
      BY <2>2, <3>1
    <3> QED BY <3>2, <3>3, <3>4
  <2> DEFINE V == {g[i] : i \in 1 .. N + 1}
  <2>6. DOMAIN f = 1 .. N /\ f = [i \in 1 .. N |-> f[i]]
        /\ DOMAIN g = 1 .. N + 1 /\ g = [i \in 1 .. N + 1 |-> g[i]]
    OBVIOUS
  <2> HIDE DEF N, Of, f, g, t
  <2>7. f \in Seq(V) /\ Len(f) = N
    <3>1. \A i \in 1 .. N : f[i] \in V  BY <2>2, <2>5
    <3> HIDE DEF V
    <3>2. f \in [1 .. N -> V]  BY <2>6, <3>1
    <3> QED BY <2>2, <3>2
  <2>8. g \in Seq(V) /\ Len(g) = N + 1 /\ t \in V
    <3>1. \A i \in 1 .. N + 1 : g[i] \in V  OBVIOUS
    <3>2. t \in V  BY <2>2, <2>5
    <3> HIDE DEF V
    <3>3. g \in [1 .. N + 1 -> V]  BY <2>6, <3>1
    <3> QED BY <2>2, <3>2, <3>3
  <2> HIDE DEF V
  <2>9. /\ Append(f, t) \in Seq(V) /\ Len(Append(f, t)) = N + 1
        /\ \A i \in 1 .. N : Append(f, t)[i] = f[i]
        /\ Append(f, t)[N + 1] = t
    BY <2>7, <2>8, AppendProperties
  <2>10. \A i \in 1 .. N + 1 : g[i] = Append(f, t)[i]
    BY <2>2, <2>5, <2>9
  <2>11. g = Append(f, t)  BY <2>8, <2>9, <2>10, SeqEqual
  <2> QED BY <2>4, <2>11 DEF f, g, t
<1> QED BY <1>4, <1>5, <1>6

LEMMA TradesOfExecuted ==
  ASSUME NEW n \in Nat, NEW ev \in Seq(Events), NEW s \in LimitOrders, NEW c \in LimitOrders
  PROVE  /\ NextPlace(n, ev) \in Nat \X Nat
         /\ TradesOf(n, Append(ev, OrderExecuted(s, c)))
              = Append(TradesOf(n, ev), TradeFrom(NextPlace(n, ev), s, c))
<1> DEFINE e == OrderExecuted(s, c)
<1>1. e \in Events  BY OrderExecutedFacts
<1> HIDE DEF e
<1>2. /\ NextPlace(n, ev) \in Nat \X Nat
      /\ \A p, q \in LimitOrders : e = OrderExecuted(p, q) =>
              TradesOf(n, Append(ev, e)) = Append(TradesOf(n, ev), TradeFrom(NextPlace(n, ev), p, q))
  BY <1>1, TradesOfAppend
<1>3. e = OrderExecuted(s, c)  BY DEF e
<1>4. TradesOf(n, Append(ev, e)) = Append(TradesOf(n, ev), TradeFrom(NextPlace(n, ev), s, c))
  BY <1>2, <1>3
<1> QED BY <1>2, <1>3, <1>4

----------------------------------------------------------------------------
(* What an event says of the orders it is about *)

\* The orders that an event is about
Mentioned(e) ==
  IF e.type = "OrderExecuted" THEN {e.submitted.id, e.counter.id} ELSE {e.lo.id}

\* What it leaves of them
LeftBy(e) ==
  CASE e.type = "OrderAdded" -> {e.lo}
    [] e.type = "OrderExecuted" -> {r \in {SubmittedRemaining(e), CounterRemaining(e)} : IsValid(r)}
    [] OTHER -> {}

\* What it leaves of one order, if anything; it may end it.
Says(e, p) == {lo \in LeftBy(e) : lo.id = p}
Ends(e, p) == p \in Mentioned(e) /\ Says(e, p) = {}

\* Two different orders meet in a trade.
Proper(e) == e.type = "OrderExecuted" => e.submitted.id # e.counter.id

\* What each kind of event says
LEMMA AddedSays ==
  ASSUME NEW lo \in LimitOrders, NEW p
  PROVE  LET e == OrderAdded(lo)
         IN  /\ e \in Events /\ Proper(e) /\ Mentioned(e) = {lo.id}
             /\ Says(e, p) = {x \in {lo} : x.id = p}
  BY EventFacts DEF OrderAdded, Proper, Mentioned, Says, LeftBy

LEMMA CanceledSays ==
  ASSUME NEW lo \in LimitOrders, NEW u \in BOOLEAN, NEW p
  PROVE  LET e == OrderCanceled(lo, u)
         IN  e \in Events /\ Proper(e) /\ Mentioned(e) = {lo.id} /\ Says(e, p) = {}
  BY EventFacts DEF OrderCanceled, Proper, Mentioned, Says, LeftBy

LEMMA ExecutedSays ==
  ASSUME NEW s \in LimitOrders, NEW c \in LimitOrders, s.id # c.id
  PROVE  LET e == OrderExecuted(s, c)
         IN  /\ e \in Events /\ Proper(e) /\ Mentioned(e) = {s.id, c.id}
             /\ Says(e, s.id) = {x \in {SubmittedRemaining(e)} : IsValid(x)}
             /\ Says(e, c.id) = {x \in {CounterRemaining(e)} : IsValid(x)}
<1> DEFINE e == OrderExecuted(s, c)
<1>1. /\ e \in Events /\ SubmittedRemaining(e).id = s.id /\ CounterRemaining(e).id = c.id
  BY OrderExecutedFacts
<1>2. e.type = "OrderExecuted" /\ e.submitted = s /\ e.counter = c
  BY DEF OrderExecuted
<1> HIDE DEF e
<1>3. LeftBy(e) = {r \in {SubmittedRemaining(e), CounterRemaining(e)} : IsValid(r)}
  BY <1>2 DEF LeftBy
<1>4. /\ Says(e, s.id) = {x \in {SubmittedRemaining(e)} : IsValid(x)}
      /\ Says(e, c.id) = {x \in {CounterRemaining(e)} : IsValid(x)}
  BY <1>1, <1>3 DEF Says
<1> QED BY <1>1, <1>2, <1>4 DEF Proper, Mentioned, e

\* What is left of an order in an event that mentions it
LeftIn(e, p) ==
  IF e.type # "OrderExecuted" THEN e.lo
  ELSE IF p = e.submitted.id THEN SubmittedRemaining(e) ELSE CounterRemaining(e)

\* What each kind of event ends
LEMMA AddedEnds ==
  ASSUME NEW lo \in LimitOrders, NEW p
  PROVE  ~ Ends(OrderAdded(lo), p)
<1> DEFINE e == OrderAdded(lo)
<1>1. Mentioned(e) = {lo.id} /\ Says(e, p) = {x \in {lo} : x.id = p}
  BY AddedSays
<1> HIDE DEF e
<1> QED BY <1>1 DEF Ends, e

LEMMA CanceledEnds ==
  ASSUME NEW lo \in LimitOrders, NEW u \in BOOLEAN, NEW p
  PROVE  /\ Ends(OrderCanceled(lo, u), p) <=> p = lo.id
         /\ LeftIn(OrderCanceled(lo, u), p) = lo
<1> DEFINE e == OrderCanceled(lo, u)
<1>1. Mentioned(e) = {lo.id} /\ Says(e, p) = {}
  BY CanceledSays
<1>2. LeftIn(e, p) = lo  BY DEF LeftIn, OrderCanceled
<1> HIDE DEF e
<1> QED BY <1>1, <1>2 DEF Ends, e

LEMMA ExecutedEnds ==
  ASSUME NEW s \in LimitOrders, NEW c \in LimitOrders, s.id # c.id, NEW p
  PROVE  LET e == OrderExecuted(s, c)
         IN  Ends(e, p) =>
               \/ p = s.id /\ LeftIn(e, p) = SubmittedRemaining(e) /\ ~ IsValid(SubmittedRemaining(e))
               \/ p = c.id /\ LeftIn(e, p) = CounterRemaining(e) /\ ~ IsValid(CounterRemaining(e))
<1> DEFINE e == OrderExecuted(s, c)
<1>1. /\ Mentioned(e) = {s.id, c.id}
      /\ Says(e, s.id) = {x \in {SubmittedRemaining(e)} : IsValid(x)}
      /\ Says(e, c.id) = {x \in {CounterRemaining(e)} : IsValid(x)}
  BY ExecutedSays
<1>2. e.type = "OrderExecuted" /\ e.submitted = s /\ e.counter = c
  BY DEF OrderExecuted
<1> HIDE DEF e
<1>3. /\ LeftIn(e, s.id) = SubmittedRemaining(e)
      /\ LeftIn(e, c.id) = CounterRemaining(e)
  BY <1>2 DEF LeftIn
<1>4. ASSUME Ends(e, p)
      PROVE  \/ p = s.id /\ ~ IsValid(SubmittedRemaining(e))
             \/ p = c.id /\ ~ IsValid(CounterRemaining(e))
  BY <1>1, <1>4 DEF Ends
<1> QED BY <1>3, <1>4 DEF e

\* What events end is not among these orders, and the trades of U have executed of
\* it all but what is left.
EndedOutside(s, ids, U) ==
  \A e \in ToSet(s) : \A p : Ends(e, p) =>
    p \in Id /\ p \notin ids /\ Total(p, U) = FilledAmount(LeftIn(e, p))

LEMMA NothingEnded ==
  ASSUME NEW ids, NEW U
  PROVE  EndedOutside(<<>>, ids, U)
  BY DEF EndedOutside, ToSet

LEMMA EndedSmaller ==
  ASSUME NEW s, NEW ids, NEW U, EndedOutside(s, ids, U), NEW fewer, fewer \subseteq ids,
         NEW W, Untouched(U, W, ids)
  PROVE  EndedOutside(s, fewer, W)
  BY DEF EndedOutside, Untouched

LEMMA EndedAppend ==
  ASSUME NEW s \in Seq(Events), NEW e \in Events, NEW ids, NEW U, EndedOutside(s, ids, U),
         \A p : Ends(e, p) => p \in Id /\ p \notin ids /\ Total(p, U) = FilledAmount(LeftIn(e, p))
  PROVE  EndedOutside(Append(s, e), ids, U)
<1>1. ToSet(Append(s, e)) \subseteq ToSet(s) \cup {e}
  BY DEF ToSet
<1> QED BY <1>1 DEF EndedOutside

LEMMA EndedOne ==
  ASSUME NEW e, NEW ids, NEW U,
         \A p : Ends(e, p) => p \in Id /\ p \notin ids /\ Total(p, U) = FilledAmount(LeftIn(e, p))
  PROVE  EndedOutside(<<e>>, ids, U)
<1>1. ToSet(<<e>>) = {e}  BY DEF ToSet
<1> QED BY <1>1 DEF EndedOutside

\* All but what is left of an order has been executed.
LEMMA ExactIsFilled ==
  ASSUME NEW U, Fair(U), NEW lo \in LimitOrders, Exact(U, lo)
  PROVE  lo.id \in Id /\ Total(lo.id, U) = FilledAmount(lo)
<1>1. lo.id \in Id /\ lo.amount \in Nat  BY DEF LimitOrders
<1>2. Total(lo.id, U) \in Nat /\ Orders[lo.id].amount \in Nat
  BY <1>1, OrderFacts DEF Fair
<1> QED BY <1>1, <1>2 DEF Exact, FilledAmount

----------------------------------------------------------------------------
(* The trades of matching, one round after the other *)

BookIsExact(b, T) == \A x \in AllOrders(b) : Exact(T, x)

\* U is T with the trades of the first k counter orders, which have left so much
\* of the submitted order.
Matched(T, b, lo, left, k, U) ==
  /\ Fair(U) /\ Exact(U, left)
  /\ \A x \in ToSet(b[SideOf(lo)]) : Exact(U, x)
  /\ \A i \in k + 1 .. Len(b[CounterSide(lo)]) : Exact(U, b[CounterSide(lo)][i])
  /\ Untouched(T, U, IdsIn(b) \cup {lo.id})

\* The submitted order and those that are in the book after k rounds
StillThere(b, lo, k) ==
  {lo.id} \cup {x.id : x \in ToSet(b[SideOf(lo)])}
          \cup {b[CounterSide(lo)][i].id : i \in k + 1 .. Len(b[CounterSide(lo)])}

RoundEvent(left, counter, ts) ==
  IF IsAlive(counter, ts) THEN OrderExecuted(left, counter) ELSE OrderCanceled(counter, FALSE)

LEMMA OneRound ==
  ASSUME NEW b, GoodBook(b), NEW lo \in LimitOrders, lo.id \notin IdsIn(b), NEW ts,
         NEW T \in Seq(TradeSet), NEW left \in LimitOrders, left.id = lo.id,
         NEW k \in Nat, k + 1 \in 1 .. Len(b[CounterSide(lo)]),
         GoesOn(left, b[CounterSide(lo)][k + 1], ts),
         NEW n \in Nat, NEW ev \in Seq(Events), TradesOf(n, ev) \in Seq(TradeSet),
         Matched(T, b, lo, left, k, T \o TradesOf(n, ev)),
         EndedOutside(ev, StillThere(b, lo, k), T \o TradesOf(n, ev))
  PROVE  LET c == b[CounterSide(lo)][k + 1]
             ew == Append(ev, RoundEvent(left, c, ts))
         IN  /\ ew \in Seq(Events) /\ TradesOf(n, ew) \in Seq(TradeSet)
             /\ Matched(T, b, lo, LeftAfter(left, c, ts), k + 1, T \o TradesOf(n, ew))
             /\ EndedOutside(ew, StillThere(b, lo, k + 1), T \o TradesOf(n, ew))
<1> DEFINE counters == b[CounterSide(lo)]
           c == counters[k + 1]
           e == RoundEvent(left, c, ts)
           ew == Append(ev, e)
           X == TradesOf(n, ev)
           U == T \o X
           W == T \o TradesOf(n, ew)
<1>1. CounterSide(lo) \in Side /\ SideOf(lo) \in Side /\ SideOf(lo) # CounterSide(lo)
  BY CounterSideFacts
<1>2. counters \in Seq(LimitOrders) /\ GoodSide(counters, CounterSide(lo)) /\ Len(counters) \in Nat
      /\ DOMAIN counters = 1 .. Len(counters)
  BY <1>1 DEF GoodBook, GoodSide
<1>3. c \in LimitOrders /\ SideOf(c) = CounterSide(lo) /\ c \in ToSet(counters)
  BY <1>2, <1>1, GoodBookSides DEF ToSet
<1>4. AllOrders(b) = ToSet(counters) \cup ToSet(b[SideOf(lo)])
  BY <1>1, AllOrdersOf
<1>5. c.id \in IdsIn(b) /\ c.id # lo.id
  BY <1>3, <1>4 DEF IdsIn
<1>6. SideOf(left) = SideOf(lo) /\ SideOf(c) # SideOf(left)
  BY <1>1, <1>3 DEF SideOf
<1>7. /\ Fair(U) /\ Exact(U, left) /\ \A x \in ToSet(b[SideOf(lo)]) : Exact(U, x)
      /\ \A i \in k + 1 .. Len(counters) : Exact(U, counters[i])
      /\ Untouched(T, U, IdsIn(b) \cup {lo.id})
  BY DEF Matched
<1>8. U \in Seq(TradeSet) /\ X \in Seq(TradeSet)
  BY ONLY T \in Seq(TradeSet), TradesOf(n, ev) \in Seq(TradeSet), ConcatProperties
<1>9. CanMatch(left, c)  BY DEF GoesOn
<1>10. Exact(U, c)  BY <1>2, <1>7
<1>11. ASSUME NEW i \in k + 2 .. Len(counters)
       PROVE  counters[i] \in LimitOrders /\ counters[i].id \notin {left.id, c.id} /\ Exact(U, counters[i])
  <2>1. i \in DOMAIN counters /\ k + 1 \in DOMAIN counters /\ k + 1 < i /\ i \in k + 1 .. Len(counters)
    BY <1>2
  <2>2. counters[i] \in LimitOrders /\ counters[i].id # c.id
    <3>1. \A p, q \in DOMAIN counters : p < q => counters[p].id # counters[q].id
      BY <1>2 DEF GoodSide
    <3> HIDE DEF counters, c
    <3>2. counters[k + 1].id # counters[i].id  BY <2>1, <3>1
    <3>3. counters[i] \in LimitOrders  BY <1>2, <2>1
    <3> QED BY <3>2, <3>3 DEF c
  <2>3. counters[i].id \in IdsIn(b)
    BY <1>4, <2>1 DEF IdsIn, ToSet
  <2> QED BY <1>7, <2>1, <2>2, <2>3
<1>12. ASSUME NEW x \in ToSet(b[SideOf(lo)])
       PROVE  x \in LimitOrders /\ x.id \notin {left.id, c.id} /\ Exact(U, x)
  BY <1>1, GoodBookSides, <1>3, <1>4, <1>7 DEF SideOf, IdsIn
<1>13. StillThere(b, lo, k + 1) \subseteq StillThere(b, lo, k) /\ c.id \notin StillThere(b, lo, k + 1)
       /\ {left.id, c.id} \subseteq StillThere(b, lo, k)
  <2>1. \A i \in (k + 1) + 1 .. Len(counters) : i \in k + 2 .. Len(counters) /\ i \in k + 1 .. Len(counters)
    BY <1>2
  <2>2. \A i \in (k + 1) + 1 .. Len(counters) : counters[i].id # c.id
    BY <1>11, <2>1
  <2>3. \A x \in ToSet(b[SideOf(lo)]) : x.id # c.id  BY <1>12
  <2>4. k + 1 \in k + 1 .. Len(counters)  BY <1>2
  <2> QED BY <1>5, <2>1, <2>2, <2>3, <2>4 DEF StillThere
<1> HIDE DEF counters, c
<1>14. c \in LimitOrders /\ left.id # c.id  BY <1>3, <1>5
<1>15. CASE IsAlive(c, ts)
  <2>1. e = OrderExecuted(left, c) /\ LeftAfter(left, c, ts) = SubmittedRemaining(OrderExecuted(left, c))
    BY <1>15 DEF RoundEvent, LeftAfter
  <2>2. e \in Events  BY <1>3, <2>1, OrderExecutedFacts
  <2> HIDE DEF e
  <2> DEFINE at == NextPlace(n, ev)
             t == TradeFrom(at, left, c)
  <2>3. at \in Nat \X Nat /\ TradesOf(n, ew) = Append(X, t)
    <3> HIDE DEF X
    <3>1. NextPlace(n, ev) \in Nat \X Nat
          /\ TradesOf(n, ew) = Append(TradesOf(n, ev), TradeFrom(NextPlace(n, ev), left, c))
      BY ONLY <1>3, <2>1, <2>2, n \in Nat, ev \in Seq(Events), left \in LimitOrders, TradesOfExecuted
    <3> QED BY <3>1 DEF X
  <2> HIDE DEF at, X
  <2>4. t \in TradeSet  BY <1>3, <2>3, TradeFromFacts
  <2>5. /\ Append(U, t) \in Seq(TradeSet) /\ Fair(Append(U, t))
        /\ Exact(Append(U, t), SubmittedRemaining(OrderExecuted(left, c)))
        /\ Exact(Append(U, t), CounterRemaining(OrderExecuted(left, c)))
        /\ Untouched(U, Append(U, t), {left.id, c.id})
    BY <1>3, <1>6, <1>7, <1>8, <1>9, <1>10, <2>3, OneMoreTrade DEF t
  <2>6. W = Append(U, t)
    BY ONLY <1>8, <2>3, <2>4, T \in Seq(TradeSet), ConcatAppend
  <2>7. Append(X, t) \in Seq(TradeSet)  BY <1>8, <2>4
  <2> HIDE DEF U, W, t
  <2>8. Untouched(T, W, IdsIn(b) \cup {lo.id})
    BY <1>5, <1>7, <2>5, <2>6, UntouchedFurther
  <2>9. \A i \in k + 2 .. Len(counters) : Exact(W, counters[i])
    BY <1>11, <2>5, <2>6, ExactUntouched
  <2>10. \A x \in ToSet(b[SideOf(lo)]) : Exact(W, x)
    BY <1>12, <2>5, <2>6, ExactUntouched
  <2>11. (k + 1) + 1 = k + 2  OBVIOUS
  <2>12. Matched(T, b, lo, LeftAfter(left, c, ts), k + 1, W)
    BY <2>1, <2>5, <2>6, <2>8, <2>9, <2>10, <2>11 DEF Matched, counters
  <2>13. ew \in Seq(Events)  BY <2>2
  <2>14. EndedOutside(ew, StillThere(b, lo, k + 1), W)
    <3> DEFINE x == OrderExecuted(left, c)
    <3>1. Untouched(U, W, StillThere(b, lo, k))
      BY <1>13, <2>5, <2>6 DEF Untouched
    <3>2. EndedOutside(ev, StillThere(b, lo, k + 1), W)
      BY <1>13, <3>1, EndedSmaller DEF U, X
    <3>3. CounterRemaining(x) \in LimitOrders /\ CounterRemaining(x).id = c.id
      BY <1>3, OrderExecutedFacts
    <3>4. Exact(W, CounterRemaining(x)) /\ Fair(W)
      BY <2>5, <2>6
    <3>5. ASSUME NEW p, Ends(e, p) PROVE p = c.id /\ LeftIn(e, p) = CounterRemaining(x)
      BY <1>15, <1>14, <2>1, <3>5, ExecutedEnds DEF GoesOn, c, counters
    <3> HIDE DEF x
    <3>6. c.id \in Id /\ Total(c.id, W) = FilledAmount(CounterRemaining(x))
      BY <3>3, <3>4, ExactIsFilled
    <3> QED BY <1>13, <2>2, <3>2, <3>5, <3>6, EndedAppend
  <2> QED BY <2>3, <2>7, <2>12, <2>13, <2>14 DEF W, e, c, counters
<1>16. CASE ~ IsAlive(c, ts)
  <2>1. e = OrderCanceled(c, FALSE) /\ LeftAfter(left, c, ts) = left
    BY <1>16 DEF RoundEvent, LeftAfter
  <2>2. e \in Events /\ e.type # "OrderExecuted"
    <3>1. OrderCanceled(c, FALSE) \in Events
      BY <1>3, EventFacts
    <3> QED BY <2>1, <3>1 DEF OrderCanceled
  <2> HIDE DEF e
  <2>3. TradesOf(n, ew) = X  BY <2>2, TradesOfAppend
  <2>4. W = U  BY <2>3
  <2> HIDE DEF U, W, X
  <2>5. \A i \in (k + 1) + 1 .. Len(counters) : Exact(U, counters[i])
    BY <1>11
  <2>6. Matched(T, b, lo, LeftAfter(left, c, ts), k + 1, W)
    BY <1>7, <2>1, <2>4, <2>5 DEF Matched, counters
  <2>7. ew \in Seq(Events)  BY <2>2
  <2>8. EndedOutside(ew, StillThere(b, lo, k + 1), W)
    <3>1. Untouched(U, U, StillThere(b, lo, k))
      BY DEF Untouched
    <3>2. EndedOutside(ev, StillThere(b, lo, k + 1), U)
      BY <1>13, <3>1, EndedSmaller DEF U, X
    <3>3. ASSUME NEW p, Ends(e, p) PROVE p = c.id /\ LeftIn(e, p) = c
      BY <1>3, <2>1, <3>3, CanceledEnds
    <3>4. c.id \in Id /\ Total(c.id, U) = FilledAmount(c)
      BY <1>3, <1>7, <1>10, ExactIsFilled
    <3> QED BY <1>13, <2>2, <2>4, <3>2, <3>3, <3>4, EndedAppend
  <2> QED BY <1>8, <2>3, <2>6, <2>7, <2>8 DEF W, e, c, counters
<1> QED BY <1>15, <1>16

\* What holds of trades and events is left by all rounds but the last.
LEMMA PassingTrades ==
  ASSUME NEW b, GoodBook(b), NEW lo \in LimitOrders, lo.id \notin IdsIn(b), NEW ts,
         NEW T \in Seq(TradeSet), Fair(T), Exact(T, lo), BookIsExact(b, T), NEW n \in Nat
  PROVE  LET ev == PassingEvents(lo, b[CounterSide(lo)], ts)
             U == T \o TradesOf(n, ev)
         IN  /\ TradesOf(n, ev) \in Seq(TradeSet) /\ Fair(U) /\ Exact(U, LeftPast(b, lo, ts))
             /\ BookIsExact(BookPast(b, lo, ts), U)
             /\ Untouched(T, U, IdsIn(b) \cup {lo.id})
             /\ EndedOutside(ev, IdsIn(BookPast(b, lo, ts)) \cup {lo.id}, U)
<1> DEFINE counters == b[CounterSide(lo)]
           left == Leftovers(lo, counters, ts)
           N == Passed(lo, counters, ts)
           Upto(k) == [j \in 1 .. k |-> RoundEvent(left[j - 1], counters[j], ts)]
           Good(k) == /\ Upto(k) \in Seq(Events) /\ TradesOf(n, Upto(k)) \in Seq(TradeSet)
                      /\ Matched(T, b, lo, left[k], k, T \o TradesOf(n, Upto(k)))
                      /\ EndedOutside(Upto(k), StillThere(b, lo, k), T \o TradesOf(n, Upto(k)))
           G == {k \in 0 .. N : Good(k)}
<1>1. CounterSide(lo) \in Side /\ SideOf(lo) \in Side /\ SideOf(lo) # CounterSide(lo)
  BY CounterSideFacts
<1>2. counters \in Seq(LimitOrders) /\ GoodSide(counters, CounterSide(lo)) /\ Len(counters) \in Nat
      /\ DOMAIN counters = 1 .. Len(counters)
  BY <1>1 DEF GoodBook, GoodSide
<1>3. AllOrders(b) = ToSet(counters) \cup ToSet(b[SideOf(lo)])
  BY <1>1, AllOrdersOf
<1>4. /\ left[0] = lo
      /\ \A k \in 1 .. Len(counters) : left[k] = LeftAfter(left[k - 1], counters[k], ts)
      /\ \A k \in 0 .. Len(counters) : left[k] \in LimitOrders /\ left[k].id = lo.id
  BY <1>2, LeftoversFacts
<1>5. N \in 0 .. Len(counters) /\ \A k \in 0 .. N - 1 : GoesOn(left[k], counters[k + 1], ts)
  BY <1>2, PassedFacts
<1> HIDE DEF left, N
<1>6. 0 \in G
  <2>1. Upto(0) = <<>> /\ <<>> \in Seq(Events)  OBVIOUS
  <2>2. TradesOf(n, <<>>) = <<>>
    BY WhereNothing DEF Executions, TradesOf
  <2>3. T \o <<>> = T /\ <<>> \in Seq(TradeSet)  OBVIOUS
  <2>4. \A x \in ToSet(b[SideOf(lo)]) : Exact(T, x)
    BY <1>3 DEF BookIsExact
  <2>5. \A i \in 0 + 1 .. Len(counters) : Exact(T, counters[i])
    BY <1>2, <1>3 DEF BookIsExact, ToSet
  <2>6. Untouched(T, T, IdsIn(b) \cup {lo.id})
    BY DEF Untouched
  <2>7. Matched(T, b, lo, left[0], 0, T)
    BY <1>4, <2>4, <2>5, <2>6 DEF Matched, counters
  <2>8. EndedOutside(<<>>, StillThere(b, lo, 0), T)
    BY NothingEnded
  <2>9. Good(0)  BY <2>1, <2>2, <2>3, <2>7, <2>8
  <2> HIDE DEF Good
  <2> QED BY <1>2, <1>5, <2>9
<1>7. ASSUME NEW k \in 0 .. N, k # N, Good(k) PROVE Good(k + 1)
  <2>1. k \in Nat /\ k \in 0 .. N - 1 /\ k + 1 \in 1 .. Len(counters) /\ k \in 0 .. Len(counters)
        /\ (k + 1) - 1 = k /\ k + 1 \in 1 .. k + 1
    BY <1>2, <1>5, <1>7
  <2>2. left[k] \in LimitOrders /\ left[k].id = lo.id /\ GoesOn(left[k], counters[k + 1], ts)
        /\ left[k + 1] = LeftAfter(left[k], counters[k + 1], ts)
    BY <1>4, <2>1, <1>5
  <2> DEFINE ev == Upto(k)
             e == RoundEvent(left[k], counters[k + 1], ts)
  <2>3. Upto(k + 1) = Append(ev, e)
    <3> DEFINE f == Upto(k + 1)
               g == Append(ev, e)
    <3>1. Len(ev) = k /\ DOMAIN ev = 1 .. k /\ ev \in Seq(Events)
      BY <1>7, <2>1
    <3>2. DOMAIN f = 1 .. k + 1  OBVIOUS
    <3>3. DOMAIN g = 1 .. k + 1 /\ g[k + 1] = e /\ \A j \in 1 .. k : g[j] = ev[j]
      BY <2>1, <3>1
    <3>4. f[k + 1] = e  BY <2>1
    <3>5. ASSUME NEW j \in 1 .. k PROVE f[j] = ev[j]  BY <2>1
    <3>6. \A j \in 1 .. k + 1 : j = k + 1 \/ j \in 1 .. k
      BY <2>1
    <3>7. f = [j \in 1 .. k + 1 |-> f[j]] /\ g = [j \in 1 .. k + 1 |-> g[j]]
      <4>1. f = [j \in 1 .. k + 1 |-> f[j]]  OBVIOUS
      <4>2. g = [j \in DOMAIN g |-> g[j]]
        <5>1. counters[k + 1] \in LimitOrders  BY <1>2, <2>1
        <5>2. e \in Events
          BY <2>2, <5>1, OrderExecutedFacts, EventFacts DEF RoundEvent
        <5> HIDE DEF ev, e
        <5>3. g \in Seq(Events)  BY <3>1, <5>2
        <5> HIDE DEF g
        <5> QED BY <5>3
      <4> HIDE DEF f, g
      <4> QED BY <3>3, <4>1, <4>2
    <3> HIDE DEF f, g, ev, e
    <3>8. \A j \in 1 .. k + 1 : f[j] = g[j]
      BY <3>3, <3>4, <3>5, <3>6
    <3> QED BY <3>7, <3>8 DEF f, g
  <2>4. /\ ev \in Seq(Events) /\ TradesOf(n, ev) \in Seq(TradeSet)
        /\ Matched(T, b, lo, left[k], k, T \o TradesOf(n, ev))
        /\ EndedOutside(ev, StillThere(b, lo, k), T \o TradesOf(n, ev))
    BY <1>7
  <2>5. /\ Append(ev, e) \in Seq(Events) /\ TradesOf(n, Append(ev, e)) \in Seq(TradeSet)
        /\ Matched(T, b, lo, LeftAfter(left[k], counters[k + 1], ts), k + 1,
                   T \o TradesOf(n, Append(ev, e)))
        /\ EndedOutside(Append(ev, e), StillThere(b, lo, k + 1), T \o TradesOf(n, Append(ev, e)))
    BY <2>1, <2>2, <2>4, OneRound
  <2> QED BY <2>2, <2>3, <2>5
<1>8. \A k \in 0 .. N : k # N /\ k \in G => k + 1 \in G
  <2> HIDE DEF Good
  <2> QED BY <1>2, <1>5, <1>7
<1>9. N \in Nat  BY <1>2, <1>5
<1>10. N \in G
  <2> HIDE DEF G
  <2>1. \A k \in 0 .. N : k \in G  BY <1>6, <1>8, <1>9, Climb
  <2> QED BY <1>9, <2>1
<1> DEFINE ev == PassingEvents(lo, counters, ts)
           U == T \o TradesOf(n, ev)
<1>11. Upto(N) = ev  BY DEF PassingEvents, RoundEvent, left, N
<1>12. /\ TradesOf(n, ev) \in Seq(TradeSet) /\ Matched(T, b, lo, left[N], N, U)
       /\ EndedOutside(ev, StillThere(b, lo, N), U)
  BY <1>10, <1>11
<1> HIDE DEF ev, U, Upto, Good, G
<1>13. BookPast(b, lo, ts) = WithSide(b, CounterSide(lo), SubSeq(counters, N + 1, Len(counters)))
       /\ LeftPast(b, lo, ts) = left[N]
  BY DEF BookPast, LeftPast, N, left
<1>14. BookIsExact(BookPast(b, lo, ts), U) /\ IdsIn(BookPast(b, lo, ts)) \cup {lo.id} \subseteq StillThere(b, lo, N)
  <2> DEFINE s == SubSeq(counters, N + 1, Len(counters))
  <2>1. AllOrders(WithSide(b, CounterSide(lo), s)) = ToSet(s) \cup ToSet(b[SideOf(lo)])
    <3>1. GoodSide(s, CounterSide(lo)) /\ ToSet(s) \subseteq ToSet(counters)
      BY <1>2, <1>5, GoodSideFrom
    <3>2. \A x \in ToSet(s) : \E y \in ToSet(b[CounterSide(lo)]) : Price(x) = Price(y)
      BY <3>1
    <3> HIDE DEF s
    <3> QED BY <3>1, <3>2, GoodBookCounters
  <2>2. ASSUME NEW x \in ToSet(s) PROVE Exact(U, x) /\ x.id \in StillThere(b, lo, N)
    <3>1. DOMAIN s = 1 .. Len(counters) - N /\ \A i \in DOMAIN s : s[i] = counters[N + i]
      <4> HIDE DEF counters
      <4> QED BY <1>2, <1>5
    <3>2. PICK i \in DOMAIN s : x = s[i]  BY DEF ToSet
    <3>3. x = counters[N + i] /\ N + i \in N + 1 .. Len(counters)
      <4> HIDE DEF s, counters
      <4> QED BY <1>2, <1>5, <3>1, <3>2
    <3> QED BY <1>12, <3>3 DEF Matched, StillThere, counters
  <2>3. \A x \in ToSet(b[SideOf(lo)]) : Exact(U, x) /\ x.id \in StillThere(b, lo, N)
    BY <1>12 DEF Matched, StillThere
  <2>4. lo.id \in StillThere(b, lo, N)  BY DEF StillThere
  <2> HIDE DEF s
  <2> QED BY <1>13, <2>1, <2>2, <2>3, <2>4 DEF BookIsExact, IdsIn, s
<1>15. EndedOutside(ev, IdsIn(BookPast(b, lo, ts)) \cup {lo.id}, U)
  BY <1>12, <1>14, EndedSmaller DEF Untouched
<1> QED BY <1>12, <1>13, <1>14, <1>15 DEF Matched, ev, U, counters

LEMMA EventsConcat ==
  ASSUME NEW ev \in Seq(Events), NEW e \in Events, NEW d \in Events
  PROVE  ev \o <<e>> = Append(ev, e) /\ ev \o <<e, d>> = Append(Append(ev, e), d)
<1>1. ev \o <<e>> = Append(ev, e)  BY AppendIsConcat
<1>2. <<e>> \in Seq(Events) /\ Append(<<e>>, d) = <<e, d>>
  <2>1. <<e>> \in Seq(Events) /\ Len(<<e>>) = 1 /\ <<e>>[1] = e
    OBVIOUS
  <2>2. <<e, d>> \in Seq(Events) /\ Len(<<e, d>>) = 2 /\ <<e, d>>[1] = e /\ <<e, d>>[2] = d
    OBVIOUS
  <2> DEFINE s == <<e>>
             t == Append(s, d)
             u == <<e, d>>
  <2>3. s \in Seq(Events) /\ Len(s) = 1 /\ s[1] = e  BY <2>1
  <2> HIDE DEF s, u
  <2>4. t \in Seq(Events) /\ Len(t) = 2 /\ t[1] = e /\ t[2] = d
    <3>1. Len(s) + 1 = 2 /\ 1 \in 1 .. Len(s)  BY <2>3
    <3>2. /\ t \in Seq(Events) /\ Len(t) = Len(s) + 1
          /\ \A i \in 1 .. Len(s) : t[i] = s[i]
          /\ t[Len(s) + 1] = d
      <4>1. s \in Seq(Events)  BY <2>3
      <4> QED BY ONLY <4>1, d \in Events, AppendProperties
    <3> QED BY <2>3, <3>1, <3>2
  <2>5. u \in Seq(Events) /\ Len(u) = 2 /\ u[1] = e /\ u[2] = d
    BY <2>2 DEF u
  <2>6. t = u  BY <2>4, <2>5, SeqEqual
  <2> QED BY <2>1, <2>6 DEF s, u
<1>3. ev \o Append(<<e>>, d) = Append(ev \o <<e>>, d)
  BY <1>2, ConcatAppend
<1> QED BY <1>1, <1>2, <1>3

LEMMA TradesOfNothing ==
  ASSUME NEW n PROVE TradesOf(n, <<>>) = <<>>
<1>1. Executions(<<>>) = <<>>  BY WhereNothing DEF Executions
<1>2. DOMAIN Executions(<<>>) = {}  BY <1>1
<1> QED BY <1>2 DEF TradesOf

LEMMA TradesOfCanceled ==
  ASSUME NEW n \in Nat, NEW ev \in Seq(Events), NEW e \in Events, e.type # "OrderExecuted"
  PROVE  TradesOf(n, Append(ev, e)) = TradesOf(n, ev)
  BY TradesOfAppend

\* What holds of trades is left by the trades of U.
Kept(T, ids, b, U) == Fair(U) /\ BookIsExact(b, U) /\ Untouched(T, U, ids)

\* The last round
LEMMA LastTrades ==
  ASSUME NEW b, GoodBook(b), NEW lo \in LimitOrders, lo.id \notin IdsIn(b),
         NEW end, Outcome(b, lo, end), NEW T \in Seq(TradeSet), NEW n \in Nat,
         NEW ev \in Seq(Events), TradesOf(n, ev) \in Seq(TradeSet),
         Fair(T \o TradesOf(n, ev)), Exact(T \o TradesOf(n, ev), lo),
         BookIsExact(b, T \o TradesOf(n, ev)),
         EndedOutside(ev, IdsIn(b) \cup {lo.id}, T \o TradesOf(n, ev))
  PROVE  /\ TradesOf(n, ev \o end.events) \in Seq(TradeSet)
         /\ Kept(T \o TradesOf(n, ev), IdsIn(b) \cup {lo.id}, end.book,
                 T \o TradesOf(n, ev \o end.events))
         /\ EndedOutside(ev \o end.events, IdsIn(end.book), T \o TradesOf(n, ev \o end.events))
<1> DEFINE X == TradesOf(n, ev)
           U == T \o X
           ew == ev \o end.events
           W == T \o TradesOf(n, ew)
           ids == IdsIn(b) \cup {lo.id}
<1>1. U \in Seq(TradeSet)
  BY ONLY T \in Seq(TradeSet), TradesOf(n, ev) \in Seq(TradeSet), ConcatProperties
<1>2. \A V, fewer : fewer \subseteq ids /\ Untouched(U, V, ids) => EndedOutside(ev, fewer, V)
  BY EndedSmaller
<1>3. CASE end.events = <<OrderAdded(lo)>> /\ AllOrders(end.book) = AllOrders(b) \cup {lo}
  <2>1. OrderAdded(lo) \in Events /\ OrderAdded(lo).type # "OrderExecuted"
    BY EventFacts DEF OrderAdded
  <2>2. ew = Append(ev, OrderAdded(lo))
    BY <1>3, <2>1, EventsConcat
  <2>3. TradesOf(n, ew) = X  BY <2>1, <2>2, TradesOfCanceled
  <2>4. BookIsExact(end.book, U)  BY <1>3 DEF BookIsExact
  <2>5. Untouched(U, U, ids)  BY DEF Untouched
  <2>6. EndedOutside(ew, IdsIn(end.book), U)
    BY <1>3, <1>2, <2>5, AddedEnds, <2>1, <2>2, EndedAppend DEF IdsIn
  <2> QED BY <2>3, <2>4, <2>5, <2>6 DEF Kept
<1>4. CASE end.events = <<OrderCanceled(lo, TRUE)>> /\ AllOrders(end.book) = AllOrders(b)
  <2>1. OrderCanceled(lo, TRUE) \in Events /\ OrderCanceled(lo, TRUE).type # "OrderExecuted"
    BY EventFacts DEF OrderCanceled
  <2>2. ew = Append(ev, OrderCanceled(lo, TRUE))
    BY <1>4, <2>1, EventsConcat
  <2>3. TradesOf(n, ew) = X  BY <2>1, <2>2, TradesOfCanceled
  <2>4. BookIsExact(end.book, U)  BY <1>4 DEF BookIsExact
  <2>5. Untouched(U, U, ids)  BY DEF Untouched
  <2>6. EndedOutside(ew, IdsIn(end.book), U)
    <3>1. IdsIn(end.book) = IdsIn(b)  BY <1>4 DEF IdsIn
    <3>2. EndedOutside(ev, IdsIn(end.book), U)
      BY <1>2, <2>5, <3>1
    <3> DEFINE e == OrderCanceled(lo, TRUE)
    <3>3. \A p : Ends(e, p) => p = lo.id /\ LeftIn(e, p) = lo
      BY CanceledEnds
    <3>4. lo.id \in Id /\ Total(lo.id, U) = FilledAmount(lo)
      BY ExactIsFilled
    <3> HIDE DEF U, ew, e
    <3>5. e \in Events /\ ew = Append(ev, e)
      BY <2>1, <2>2 DEF e
    <3> QED BY <3>1, <3>2, <3>3, <3>4, <3>5, EndedAppend
  <2> QED BY <2>3, <2>4, <2>5, <2>6 DEF Kept
<1>5. ASSUME NEW c \in AllOrders(b), SideOf(c) = CounterSide(lo), CanMatch(lo, c),
             \/ end.events = <<OrderExecuted(lo, c)>>
             \/ end.events = <<OrderExecuted(lo, c),
                               OrderCanceled(SubmittedRemaining(OrderExecuted(lo, c)), TRUE)>>,
             AllOrders(end.book) =
               (AllOrders(b) \ {c})
                 \cup {r \in {CounterRemaining(OrderExecuted(lo, c))} : IsValid(r)}
      PROVE  /\ TradesOf(n, ew) \in Seq(TradeSet)
             /\ Kept(U, ids, end.book, W)
             /\ EndedOutside(ew, IdsIn(end.book), W)
  <2> DEFINE x == OrderExecuted(lo, c)
             d == OrderCanceled(SubmittedRemaining(x), TRUE)
             at == NextPlace(n, ev)
             t == TradeFrom(at, lo, c)
  <2>1. c \in LimitOrders /\ c.id # lo.id /\ SideOf(c) # SideOf(lo) /\ Exact(U, c)
    BY <1>5, GoodBookOrders, CounterSideFacts DEF IdsIn, BookIsExact
  <2>2. x \in Events /\ SubmittedRemaining(x) \in LimitOrders
    BY <2>1, OrderExecutedFacts
  <2>3. d \in Events /\ d.type # "OrderExecuted"
    BY <2>2, EventFacts DEF OrderCanceled
  <2>4. at \in Nat \X Nat /\ TradesOf(n, Append(ev, x)) = Append(X, t)
    BY <2>1, TradesOfExecuted
  <2>5. t \in TradeSet  BY <2>1, <2>4, TradeFromFacts
  <2>6. ew = Append(ev, x) \/ ew = Append(Append(ev, x), d)
    <3>1. end.events = <<x>> \/ end.events = <<x, d>>  BY <1>5
    <3> HIDE DEF x, d
    <3>2. ev \o <<x>> = Append(ev, x) /\ ev \o <<x, d>> = Append(Append(ev, x), d)
      BY <2>2, <2>3, EventsConcat
    <3> QED BY <3>1, <3>2
  <2>7. TradesOf(n, ew) = Append(X, t)
    <3>1. Append(ev, x) \in Seq(Events)  BY <2>2
    <3>2. TradesOf(n, Append(Append(ev, x), d)) = TradesOf(n, Append(ev, x))
      BY <2>3, <3>1, TradesOfCanceled
    <3> HIDE DEF ew, x, d, X, t
    <3> QED BY <2>4, <2>6, <3>2
  <2>8. W = Append(U, t) /\ Append(X, t) \in Seq(TradeSet)
    <3>1. X \in Seq(TradeSet)  OBVIOUS
    <3> HIDE DEF X, t
    <3>2. T \o Append(X, t) = Append(T \o X, t)
      BY ONLY <2>5, <3>1, T \in Seq(TradeSet), ConcatAppend
    <3> QED BY <2>5, <2>7, <3>1, <3>2
  <2>9. /\ Fair(Append(U, t))
        /\ Exact(Append(U, t), CounterRemaining(x))
        /\ Exact(Append(U, t), SubmittedRemaining(x))
        /\ Untouched(U, Append(U, t), {lo.id, c.id})
    BY <2>1, <1>1, <1>5, <2>4, OneMoreTrade DEF t, x
  <2> HIDE DEF W, U, t, x
  <2>10. Untouched(U, W, ids)
    BY <2>8, <2>9 DEF IdsIn, Untouched
  <2>11. ASSUME NEW y \in AllOrders(end.book) PROVE Exact(W, y)
    <3>1. CASE y = CounterRemaining(x)  BY <2>8, <2>9, <3>1
    <3>2. CASE y # CounterRemaining(x)
      <4>1. y \in AllOrders(b) /\ y # c  BY <1>5, <3>2 DEF x
      <4>2. y \in LimitOrders /\ y.id # c.id /\ y.id # lo.id
        BY <4>1, GoodBookIds, GoodBookOrders DEF IdsIn
      <4>3. Exact(U, y)  BY <4>1 DEF BookIsExact, U
      <4> QED BY <2>8, <2>9, <4>2, <4>3, ExactUntouched
    <3> QED BY <3>1, <3>2
  <2>12. lo.id \notin IdsIn(end.book) /\ IdsIn(end.book) \subseteq ids
         /\ (~ IsValid(CounterRemaining(x)) => c.id \notin IdsIn(end.book))
    <3>1. CounterRemaining(x).id = c.id
      BY <2>1, OrderExecutedFacts DEF x
    <3>2. \A y \in AllOrders(b) \ {c} : y.id # c.id
      BY <1>5, GoodBookIds
    <3> QED BY <1>5, <2>1, <3>1, <3>2 DEF IdsIn, ids, x
  <2>13. EndedOutside(ew, IdsIn(end.book), W)
    <3>1. EndedOutside(ev, IdsIn(end.book), W)
      BY <1>2, <2>10, <2>12 DEF U
    <3>2. SubmittedRemaining(x).id = lo.id /\ CounterRemaining(x).id = c.id
          /\ SubmittedRemaining(x) \in LimitOrders /\ CounterRemaining(x) \in LimitOrders
      BY <2>1, OrderExecutedFacts DEF x
    <3>3. /\ lo.id \in Id /\ Total(lo.id, W) = FilledAmount(SubmittedRemaining(x))
          /\ c.id \in Id /\ Total(c.id, W) = FilledAmount(CounterRemaining(x))
      BY <2>8, <2>9, <3>2, ExactIsFilled
    <3>4. ASSUME NEW p, Ends(x, p)
          PROVE  p \in Id /\ p \notin IdsIn(end.book) /\ Total(p, W) = FilledAmount(LeftIn(x, p))
      BY <2>1, <3>4, ExecutedEnds, <2>12, <3>3 DEF x
    <3>5. EndedOutside(Append(ev, x), IdsIn(end.book), W) /\ Append(ev, x) \in Seq(Events)
      BY <2>2, <3>1, <3>4, EndedAppend
    <3>6. ASSUME NEW p, Ends(d, p)
          PROVE  p \in Id /\ p \notin IdsIn(end.book) /\ Total(p, W) = FilledAmount(LeftIn(d, p))
      BY <3>2, <3>6, CanceledEnds, <2>12, <3>3
    <3> HIDE DEF d
    <3>7. EndedOutside(Append(Append(ev, x), d), IdsIn(end.book), W)
      BY <2>3, <3>5, <3>6, EndedAppend
    <3> QED BY <2>6, <3>5, <3>7
  <2> QED BY <2>7, <2>8, <2>9, <2>10, <2>11, <2>13 DEF Kept, BookIsExact
<1> HIDE DEF U, X, W, ew, ids
<1>6. TradesOf(n, ew) \in Seq(TradeSet) /\ Kept(U, ids, end.book, W) /\ EndedOutside(ew, IdsIn(end.book), W)
  BY <1>3, <1>4, <1>5 DEF U, X, W, ew, ids, Outcome
<1> QED BY <1>6 DEF U, X, W, ew, ids

\* After an order is added, trades are fair and what is left in the book exact.
LEMMA AddTrades ==
  ASSUME NEW b, GoodBook(b), NEW o \in Id, o \notin IdsIn(b), NEW ts,
         NEW T \in Seq(TradeSet), Fair(T), BookIsExact(b, T), Total(o, T) = 0, NEW n \in Nat
  PROVE  LET r == Add(b, o, ts)
         IN  /\ TradesOf(n, r.events) \in Seq(TradeSet)
             /\ Kept(T, IdsIn(b) \cup {o}, r.book, T \o TradesOf(n, r.events))
             /\ EndedOutside(r.events, IdsIn(r.book), T \o TradesOf(n, r.events))
<1> DEFINE lo == LimitOrder(o)
           b1 == BookPast(b, lo, ts)
           l1 == LeftPast(b, lo, ts)
           end == EndMatch(b1, l1)
           ev == PassingEvents(lo, b[CounterSide(lo)], ts)
           U == T \o TradesOf(n, ev)
           ids == IdsIn(b) \cup {o}
           r == Add(b, o, ts)
<1>1. lo \in LimitOrders /\ IsValid(lo) /\ lo.id = o /\ lo.amount = Orders[o].amount
  BY LimitOrderFacts DEF LimitOrder
<1>2. Exact(T, lo)  BY <1>1, OrderFacts DEF Exact
<1> HIDE DEF lo
<1>3. CASE ~ IsAlive(lo, ts)
  <2>1. r.book = b /\ r.events = <<OrderCanceled(lo, FALSE)>>
    BY <1>3 DEF Add, DoMatch, lo
  <2>2. OrderCanceled(lo, FALSE) \in Events /\ OrderCanceled(lo, FALSE).type # "OrderExecuted"
    BY <1>1, EventFacts DEF OrderCanceled
  <2> DEFINE e == OrderCanceled(lo, FALSE)
  <2> HIDE DEF e, r
  <2>3. <<e>> = Append(<<>>, e) /\ <<>> \in Seq(Events)
    BY <2>2 DEF e
  <2>4. TradesOf(n, <<e>>) = <<>>
    BY <2>2, <2>3, TradesOfCanceled, TradesOfNothing DEF e
  <2>5. T \o <<>> = T /\ <<>> \in Seq(TradeSet)  OBVIOUS
  <2>6. Kept(T, ids, b, T)  BY DEF Kept, Untouched
  <2>7. EndedOutside(<<e>>, IdsIn(b), T)
    <3>1. \A p : Ends(e, p) => p = o /\ LeftIn(e, p) = lo
      BY <1>1, CanceledEnds DEF e
    <3>2. Total(o, T) = FilledAmount(lo)
      BY <1>1, <1>2, ExactIsFilled
    <3> QED BY <3>1, <3>2, EndedOne
  <2> QED BY <2>1, <2>4, <2>5, <2>6, <2>7 DEF e, r
<1>4. CASE IsAlive(lo, ts)
  <2>1. /\ GoodBook(b1) /\ AllOrders(b1) \subseteq AllOrders(b)
        /\ l1 \in LimitOrders /\ l1.id = o /\ IsValid(l1) /\ l1.id \notin IdsIn(b1)
    BY <1>1, PastFacts
  <2>2. r.book = end.book /\ r.events = ev \o end.events
    <3>1. r = DoMatch(b, lo, ts)  BY DEF Add, lo
    <3>2. r = [book |-> end.book, events |-> ev \o end.events]
      BY <1>4, <3>1, DoMatchIs
    <3> HIDE DEF r, end, ev
    <3> QED BY <3>2
  <2>3. /\ TradesOf(n, ev) \in Seq(TradeSet) /\ Fair(U) /\ Exact(U, l1)
        /\ BookIsExact(b1, U) /\ Untouched(T, U, ids)
        /\ EndedOutside(ev, IdsIn(b1) \cup {o}, U)
    BY <1>1, <1>2, PassingTrades
  <2>4. ev \in Seq(Events)
    BY <1>1, CounterSideFacts, PassingFacts DEF GoodBook
  <2>5. IdsIn(b1) \cup {o} \subseteq ids  BY <2>1 DEF IdsIn
  <2> HIDE DEF b1, l1, ev, ids
  <2>6. Outcome(b1, l1, end)  BY <2>1, EndMatchFacts
  <2> HIDE DEF end, r
  <2>7. /\ TradesOf(n, ev \o end.events) \in Seq(TradeSet)
        /\ Kept(U, IdsIn(b1) \cup {o}, end.book, T \o TradesOf(n, ev \o end.events))
        /\ EndedOutside(ev \o end.events, IdsIn(end.book), T \o TradesOf(n, ev \o end.events))
    BY <2>1, <2>3, <2>4, <2>6, LastTrades
  <2>8. Kept(T, ids, end.book, T \o TradesOf(n, ev \o end.events))
    BY <2>3, <2>5, <2>7 DEF Kept, Untouched
  <2> QED BY <2>2, <2>7, <2>8 DEF r, ids
<1> QED BY <1>3, <1>4

\* What is cancelled is the order in the book.
LEMMA CancelEvents ==
  ASSUME NEW b, GoodBook(b), NEW o \in Id, Cancel(b, o).events # <<>>
  PROVE  \E x \in AllOrders(b) : x.id = o /\ Cancel(b, o).events = <<OrderCanceled(x, FALSE)>>
<1> DEFINE s == b[Orders[o].orderType]
           places == {i \in DOMAIN s : s[i].id = o}
           place == CHOOSE i \in places : TRUE
<1>1. Orders[o].orderType \in Side  BY OrderFacts
<1>2. ToSet(s) \subseteq AllOrders(b)
  BY <1>1 DEF AllOrders, Side
<1>3. places # {} /\ Cancel(b, o).events = <<OrderCanceled(s[place], FALSE)>>
  BY DEF Cancel
<1>4. place \in DOMAIN s /\ s[place].id = o  BY <1>3
<1>5. s[place] \in AllOrders(b)  BY <1>2, <1>4 DEF ToSet
<1> QED BY <1>3, <1>4, <1>5

\* Cancelling trades nothing.
LEMMA CancelTrades ==
  ASSUME NEW b, GoodBook(b), NEW o \in Id, NEW T \in Seq(TradeSet), Fair(T), BookIsExact(b, T),
         NEW n \in Nat
  PROVE  LET r == Cancel(b, o)
         IN  /\ TradesOf(n, r.events) \in Seq(TradeSet)
             /\ Kept(T, IdsIn(b), r.book, T \o TradesOf(n, r.events))
             /\ EndedOutside(r.events, IdsIn(r.book), T \o TradesOf(n, r.events))
<1> DEFINE r == Cancel(b, o)
<1>1. AllOrders(r.book) \subseteq AllOrders(b) /\ r.events \in Seq(Events)
  BY CancelFacts
<1>2. TradesOf(n, r.events) = <<>>
  <2>1. r.events = <<>> \/ \E x : r.events = <<OrderCanceled(x, FALSE)>>
    BY DEF Cancel
  <2>2. CASE r.events = <<>>  BY <2>2, TradesOfNothing
  <2>3. ASSUME NEW x, r.events = <<OrderCanceled(x, FALSE)>> PROVE TradesOf(n, r.events) = <<>>
    <3> DEFINE e == OrderCanceled(x, FALSE)
    <3>1. e.type # "OrderExecuted"  BY DEF OrderCanceled
    <3> HIDE DEF e
    <3>2. e \in Events
      <4>1. r.events[1] = e /\ 1 \in 1 .. Len(r.events)
        BY <2>3 DEF e
      <4> HIDE DEF r
      <4> QED BY <1>1, <4>1
    <3> HIDE DEF r
    <3>3. <<e>> = Append(<<>>, e) /\ <<>> \in Seq(Events)
      BY <3>2
    <3>4. TradesOf(n, Append(<<>>, e)) = TradesOf(n, <<>>)
      BY <3>1, <3>2, <3>3, TradesOfCanceled
    <3> QED BY <2>3, <3>3, <3>4, TradesOfNothing DEF e
  <2> QED BY <2>1, <2>2, <2>3
<1>3. T \o <<>> = T /\ <<>> \in Seq(TradeSet)  OBVIOUS
<1>4. EndedOutside(r.events, IdsIn(r.book), T)
  <2>1. CASE r.events = <<>>  BY <2>1, NothingEnded
  <2>2. CASE r.events # <<>>
    <3>1. PICK x \in AllOrders(b) : x.id = o /\ r.events = <<OrderCanceled(x, FALSE)>>
      BY <2>2, CancelEvents
    <3> DEFINE e == OrderCanceled(x, FALSE)
    <3>2. x \in LimitOrders /\ e \in Events
      BY GoodBookOrders, EventFacts
    <3>3. \A p : Ends(e, p) => p = o /\ LeftIn(e, p) = x
      BY <3>1, <3>2, CanceledEnds
    <3>4. Total(o, T) = FilledAmount(x)
      BY <3>1, <3>2, ExactIsFilled DEF BookIsExact
    <3>5. o \notin IdsIn(r.book)  BY CancelFacts DEF IdsIn
    <3> HIDE DEF r, e
    <3>6. EndedOutside(<<e>>, IdsIn(r.book), T)
      BY <3>3, <3>4, <3>5, EndedOne
    <3> QED BY <3>1, <3>6 DEF e
  <2> QED BY <2>1, <2>2
<1> HIDE DEF r
<1>5. Kept(T, IdsIn(b), r.book, T)
  BY <1>1 DEF Kept, Untouched, BookIsExact
<1> QED BY <1>2, <1>3, <1>4, <1>5 DEF r

----------------------------------------------------------------------------
(* Books and trades that the entries of the queue explain *)

Entries == [event : [type : {"Placed", "Canceled"}, id : Id], ts : Nat]

\* The orders that the first n entries of a queue place
PlacedIn(q, n) == {o \in Id : \E i \in 1 .. n : q[i].event = Placed(o)}

OncePlaced(q) ==
  \A i, j \in DOMAIN q : q[i].event = q[j].event /\ q[i].event.type = "Placed" => i = j

Faithful(q, n, b, T) ==
  /\ GoodBook(b) /\ IdsIn(b) \subseteq PlacedIn(q, n)
  /\ T \in Seq(TradeSet) /\ Fair(T) /\ BookIsExact(b, T)
  /\ \A o \in Id : o \notin PlacedIn(q, n) => Total(o, T) = 0

\* What was placed and is no longer in a book does not come back and trades no more.
StaysOut(gone, b, T, c, U) ==
  \A p \in gone : p \notin IdsIn(b) => p \notin IdsIn(c) /\ Total(p, U) = Total(p, T)

LEMMA ApplyFaithful ==
  ASSUME NEW q \in Seq(Entries), OncePlaced(q), NEW n \in 1 .. Len(q), NEW b, NEW T,
         Faithful(q, n - 1, b, T)
  PROVE  LET r == Apply(b, q[n])
         IN  /\ Faithful(q, n, r.book, T \o TradesOf(n, r.events))
             /\ r.events \in Seq(Events) /\ TradesOf(n, r.events) \in Seq(TradeSet)
             /\ EndedOutside(r.events, IdsIn(r.book), T \o TradesOf(n, r.events))
             /\ StaysOut(PlacedIn(q, n - 1), b, T, r.book, T \o TradesOf(n, r.events))
<1> DEFINE e == q[n].event
           o == e.id
           r == Apply(b, q[n])
           U == T \o TradesOf(n, r.events)
<1>1. /\ q[n] \in Entries /\ n \in Nat /\ Len(q) \in Nat /\ DOMAIN q = 1 .. Len(q) /\ n \in DOMAIN q
      /\ (1 .. n) = (1 .. n - 1) \cup {n}
  OBVIOUS
<1>2. o \in Id /\ e.type \in {"Placed", "Canceled"} /\ e = [type |-> e.type, id |-> o]
  BY <1>1 DEF Entries
<1>3. /\ GoodBook(b) /\ IdsIn(b) \subseteq PlacedIn(q, n - 1)
      /\ T \in Seq(TradeSet) /\ Fair(T) /\ BookIsExact(b, T)
      /\ \A p \in Id : p \notin PlacedIn(q, n - 1) => Total(p, T) = 0
  BY DEF Faithful
<1>4. PlacedIn(q, n - 1) \subseteq PlacedIn(q, n)
  BY <1>1 DEF PlacedIn
<1>5. CASE e.type = "Placed"
  <2>1. e = Placed(o)  BY <1>2, <1>5 DEF Placed
  <2>2. o \in PlacedIn(q, n)  BY <1>1, <1>2, <2>1 DEF PlacedIn
  <2>3. o \notin PlacedIn(q, n - 1)
    BY <1>1, <2>1, <1>5 DEF PlacedIn, OncePlaced
  <2>4. r = Add(b, o, q[n].ts)  BY <1>5 DEF Apply
  <2>5. o \notin IdsIn(b) /\ Total(o, T) = 0
    BY <1>2, <1>3, <2>3
  <2> HIDE DEF e, o
  <2>6. LET x == Add(b, o, q[n].ts)
        IN  /\ GoodBook(x.book) /\ IdsIn(x.book) \subseteq IdsIn(b) \cup {o}
            /\ x.events \in Seq(Events)
    BY <1>2, <1>3, <2>5, AddFacts
  <2>7. LET x == Add(b, o, q[n].ts)
        IN  /\ TradesOf(n, x.events) \in Seq(TradeSet)
            /\ Kept(T, IdsIn(b) \cup {o}, x.book, T \o TradesOf(n, x.events))
            /\ EndedOutside(x.events, IdsIn(x.book), T \o TradesOf(n, x.events))
    BY <1>1, <1>2, <1>3, <2>5, AddTrades
  <2> HIDE DEF r
  <2>8. /\ GoodBook(r.book) /\ IdsIn(r.book) \subseteq IdsIn(b) \cup {o} /\ r.events \in Seq(Events)
        /\ TradesOf(n, r.events) \in Seq(TradeSet) /\ Kept(T, IdsIn(b) \cup {o}, r.book, U)
        /\ EndedOutside(r.events, IdsIn(r.book), U)
    BY <2>4, <2>6, <2>7
  <2>9. U \in Seq(TradeSet)
    BY ONLY <1>3, <2>8, ConcatProperties
  <2> HIDE DEF U
  <2>10. ASSUME NEW p \in Id, p \notin PlacedIn(q, n) PROVE Total(p, U) = 0
    BY <1>3, <1>4, <2>2, <2>10, <2>8 DEF Kept, Untouched
  <2>11. IdsIn(r.book) \subseteq PlacedIn(q, n)
    BY <1>3, <1>4, <2>2, <2>8
  <2>12. Faithful(q, n, r.book, U)
    BY <2>8, <2>9, <2>10, <2>11 DEF Faithful, Kept
  <2>13. StaysOut(PlacedIn(q, n - 1), b, T, r.book, U)
    BY <2>3, <2>8 DEF PlacedIn, StaysOut, Kept, Untouched
  <2> QED BY <2>8, <2>12, <2>13 DEF r, U
<1>6. CASE e.type # "Placed"
  <2>1. r = Cancel(b, o)  BY <1>6 DEF Apply
  <2> HIDE DEF e, o
  <2>2. LET x == Cancel(b, o)
        IN  /\ GoodBook(x.book) /\ x.events \in Seq(Events)
            /\ AllOrders(x.book) \subseteq AllOrders(b)
    BY <1>2, <1>3, CancelFacts
  <2>3. LET x == Cancel(b, o)
        IN  /\ TradesOf(n, x.events) \in Seq(TradeSet)
            /\ Kept(T, IdsIn(b), x.book, T \o TradesOf(n, x.events))
            /\ EndedOutside(x.events, IdsIn(x.book), T \o TradesOf(n, x.events))
    BY <1>1, <1>2, <1>3, CancelTrades
  <2> HIDE DEF r
  <2>4. /\ GoodBook(r.book) /\ AllOrders(r.book) \subseteq AllOrders(b) /\ r.events \in Seq(Events)
        /\ TradesOf(n, r.events) \in Seq(TradeSet) /\ Kept(T, IdsIn(b), r.book, U)
        /\ EndedOutside(r.events, IdsIn(r.book), U)
    BY <2>1, <2>2, <2>3
  <2>5. U \in Seq(TradeSet)
    BY ONLY <1>3, <2>4, ConcatProperties
  <2> HIDE DEF U
  <2>6. ASSUME NEW p \in Id, p \notin PlacedIn(q, n) PROVE Total(p, U) = 0
    BY <1>3, <1>4, <2>6, <2>4 DEF Kept, Untouched
  <2>7. IdsIn(r.book) \subseteq PlacedIn(q, n)
    BY <1>3, <1>4, <2>4 DEF IdsIn
  <2>8. Faithful(q, n, r.book, U)
    BY <2>4, <2>5, <2>6, <2>7 DEF Faithful, Kept
  <2>9. StaysOut(PlacedIn(q, n - 1), b, T, r.book, U)
    BY <2>4 DEF PlacedIn, IdsIn, StaysOut, Kept, Untouched
  <2> QED BY <2>4, <2>8, <2>9 DEF r, U
<1> QED BY <1>5, <1>6

Fresh == [book |-> EmptyBook, trades |-> <<>>]

\* A book and trades, and those after entry i of a queue
After(q, i, s) ==
  [book |-> Apply(s.book, q[i]).book,
   trades |-> s.trades \o TradesOf(i, Apply(s.book, q[i]).events)]

Explained(q, n, s) == Faithful(q, n, s.book, s.trades)

LEMMA FreshExplained ==
  ASSUME NEW q PROVE Explained(q, 0, Fresh)
<1>1. GoodBook(EmptyBook) /\ AllOrders(EmptyBook) = {}
  BY EmptyBookIsGood
<1>2. IdsIn(EmptyBook) = {} /\ BookIsExact(EmptyBook, <<>>)
  BY <1>1 DEF IdsIn, BookIsExact
<1>3. <<>> \in Seq(TradeSet)  OBVIOUS
<1>4. Fair(<<>>)
  <2> SUFFICES ASSUME NEW o \in Id
               PROVE  /\ Total(o, <<>>) \in Nat
                      /\ Total(o, <<>>) <= Orders[o].amount
                      /\ SpentIn(o, <<>>) <= CostOf(o, Total(o, <<>>))
                      /\ FeesIn(o, <<>>) <= PartialFee(o, Total(o, <<>>))
    BY DEF Fair
  <2>1. CostOf(o, 0) \in Nat /\ PartialFee(o, 0) \in Nat /\ Orders[o].amount \in Nat
    BY CostTypes, OrderFacts
  <2> QED BY <2>1, NoTrades
<1>5. \A o \in Id : Total(o, <<>>) = 0  BY NoTrades
<1> QED BY <1>1, <1>2, <1>3, <1>4, <1>5 DEF Explained, Faithful, Fresh

LEMMA AfterExplained ==
  ASSUME NEW q \in Seq(Entries), OncePlaced(q), NEW n \in 1 .. Len(q), NEW s,
         Explained(q, n - 1, s)
  PROVE  Explained(q, n, After(q, n, s))
<1>1. LET r == Apply(s.book, q[n])
      IN  Faithful(q, n, r.book, s.trades \o TradesOf(n, r.events))
  BY ApplyFaithful DEF Explained
<1> QED BY <1>1 DEF Explained, After

\* The book and the trades after each of the first n entries
ReplayedUpTo(q, n) ==
  CHOOSE f : f = [i \in 0 .. n |-> IF i = 0 THEN Fresh ELSE After(q, i, f[i - 1])]

Replayed(q, n) == ReplayedUpTo(q, n)[n]

LEMMA ReplayedStepwise ==
  ASSUME NEW q \in Seq(Entries), OncePlaced(q), NEW n \in 0 .. Len(q)
  PROVE  LET back == ReplayedUpTo(q, n)
         IN  back[0] = Fresh /\ \A i \in 1 .. n : back[i] = After(q, i, back[i - 1])
<1> DEFINE Is(f) == f = [i \in 0 .. n |-> IF i = 0 THEN Fresh ELSE After(q, i, f[i - 1])]
           back == ReplayedUpTo(q, n)
           Books == {b \in [Side -> Seq(LimitOrders)] : GoodBook(b)}
           S == [book : Books, trades : Seq(TradeSet)]
           step == [i \in 1 .. n |-> [s \in S |-> IF Explained(q, i - 1, s)
                                                    THEN After(q, i, s) ELSE s]]
<1>1. n \in Nat /\ Len(q) \in Nat /\ \A i \in 1 .. n : i \in 1 .. Len(q)
  OBVIOUS
<1>2. back = CHOOSE f : Is(f)  BY DEF ReplayedUpTo
<1>3. ASSUME NEW k, NEW s, Explained(q, k, s), s = [book |-> s.book, trades |-> s.trades]
      PROVE  s \in S
  BY <1>3 DEF Explained, Faithful, GoodBook
<1>4. Fresh \in S  BY <1>3, FreshExplained DEF Fresh
<1>5. ASSUME NEW i \in 1 .. n, NEW s \in S
      PROVE  (IF Explained(q, i - 1, s) THEN After(q, i, s) ELSE s) \in S
  BY <1>1, AfterExplained, <1>3 DEF After
<1> HIDE DEF S
<1>6. step \in [1 .. n -> [S -> S]]  BY <1>5
<1> HIDE DEF step
<1>7. PICK f \in [0 .. n -> S] : StepsBy(f, n, Fresh, step)
  BY <1>1, <1>4, <1>6, Recursion
<1> DEFINE G == {i \in 0 .. n : Explained(q, i, f[i])}
<1>8. 0 \in G  BY <1>1, <1>7, FreshExplained DEF StepsBy
<1>9. ASSUME NEW i \in 1 .. n, Explained(q, i - 1, f[i - 1]) PROVE f[i] = After(q, i, f[i - 1])
  BY <1>1, <1>7, <1>9 DEF StepsBy, step
<1>10. ASSUME NEW i \in 0 .. n, i # n, i \in G PROVE i + 1 \in G
  BY <1>1, <1>10, <1>9, AfterExplained
<1>11. \A i \in 0 .. n : i \in G  BY <1>1, <1>8, <1>10, Climb
<1>12. ASSUME NEW i \in 1 .. n PROVE f[i] = After(q, i, f[i - 1])
  BY <1>1, <1>9, <1>11
<1>13. Is(f)
  <2> DEFINE g == [i \in 0 .. n |-> IF i = 0 THEN Fresh ELSE After(q, i, f[i - 1])]
  <2>1. ASSUME NEW i \in 0 .. n PROVE f[i] = g[i]
    BY <1>1, <1>7, <1>12 DEF StepsBy
  <2>2. f = [i \in 0 .. n |-> f[i]]  BY <1>7
  <2> QED BY <2>1, <2>2
<1>14. Is(back)  BY <1>2, <1>13
<1> HIDE DEF back
<1>15. back[0] = Fresh /\ \A i \in 1 .. n : back[i] = After(q, i, back[i - 1])
  BY <1>1, <1>14
<1> QED BY <1>15 DEF back

\* It does not matter up to where it is replayed, and a longer queue begins the same.
LEMMA ReplayedPrefix ==
  ASSUME NEW q \in Seq(Entries), OncePlaced(q), NEW r \in Seq(Entries), OncePlaced(r),
         Len(q) <= Len(r), \A i \in 1 .. Len(q) : r[i] = q[i],
         NEW n \in 0 .. Len(q), NEW m \in 0 .. Len(r), NEW k \in 0 .. n, k <= m
  PROVE  ReplayedUpTo(q, n)[k] = ReplayedUpTo(r, m)[k]
<1> DEFINE f == ReplayedUpTo(q, n)
           g == ReplayedUpTo(r, m)
           G == {i \in 0 .. k : f[i] = g[i]}
<1>1. f[0] = Fresh /\ \A i \in 1 .. n : f[i] = After(q, i, f[i - 1])
  BY ReplayedStepwise
<1>2. g[0] = Fresh /\ \A i \in 1 .. m : g[i] = After(r, i, g[i - 1])
  BY ReplayedStepwise
<1> HIDE DEF f, g
<1>3. k \in Nat /\ 0 \in G  BY <1>1, <1>2
<1>4. ASSUME NEW i \in 0 .. k, i # k, i \in G PROVE i + 1 \in G
  <2>1. i + 1 \in 1 .. n /\ i + 1 \in 1 .. m /\ i + 1 \in 0 .. k /\ i + 1 \in 1 .. Len(q) /\ (i + 1) - 1 = i
    BY <1>4
  <2>2. f[i + 1] = After(q, i + 1, f[i]) /\ g[i + 1] = After(r, i + 1, g[i])
    BY <1>1, <1>2, <2>1
  <2>3. r[i + 1] = q[i + 1] /\ f[i] = g[i]  BY <1>4, <2>1
  <2> QED BY <2>1, <2>2, <2>3 DEF After
<1>5. \A i \in 0 .. k : i \in G  BY <1>3, <1>4, Climb
<1> QED BY <1>3, <1>5 DEF f, g

LEMMA ReplayedSame ==
  ASSUME NEW q \in Seq(Entries), OncePlaced(q), NEW r \in Seq(Entries), OncePlaced(r),
         Len(q) <= Len(r), \A i \in 1 .. Len(q) : r[i] = q[i], NEW n \in 0 .. Len(q)
  PROVE  Replayed(q, n) = Replayed(r, n)
<1>1. n \in 0 .. Len(r) /\ n \in 0 .. n /\ n <= n  OBVIOUS
<1> QED BY <1>1, ReplayedPrefix DEF Replayed

LEMMA ReplayedNext ==
  ASSUME NEW q \in Seq(Entries), OncePlaced(q), NEW n \in 1 .. Len(q)
  PROVE  Replayed(q, n) = After(q, n, Replayed(q, n - 1))
<1>1. n \in 0 .. Len(q) /\ n - 1 \in 0 .. Len(q) /\ n - 1 \in 0 .. n /\ n - 1 <= n - 1 /\ n \in 1 .. n
      /\ Len(q) <= Len(q) /\ n - 1 \in 0 .. n - 1
  OBVIOUS
<1>2. ReplayedUpTo(q, n)[n] = After(q, n, ReplayedUpTo(q, n)[n - 1])
  BY <1>1, ReplayedStepwise
<1>3. ReplayedUpTo(q, n)[n - 1] = ReplayedUpTo(q, n - 1)[n - 1]
  BY <1>1, ReplayedPrefix
<1> QED BY <1>2, <1>3 DEF Replayed

LEMMA ReplayedExplained ==
  ASSUME NEW q \in Seq(Entries), OncePlaced(q), NEW n \in 0 .. Len(q)
  PROVE  Replayed(q, 0) = Fresh /\ Explained(q, n, Replayed(q, n))
<1> DEFINE H == {i \in 0 .. Len(q) : Explained(q, i, Replayed(q, i))}
<1>1. Len(q) \in Nat /\ 0 \in 0 .. Len(q)  OBVIOUS
<1>2. Replayed(q, 0) = Fresh
  BY <1>1, ReplayedStepwise DEF Replayed
<1>3. 0 \in H  BY <1>1, <1>2, FreshExplained
<1>4. ASSUME NEW i \in 0 .. Len(q), i # Len(q), i \in H PROVE i + 1 \in H
  BY <1>4, ReplayedNext, AfterExplained
<1>5. \A i \in 0 .. Len(q) : i \in H
  BY <1>1, <1>3, <1>4, Climb
<1> QED BY <1>2, <1>5

\* Replaying the queue gives a book and trades that its entries explain.
LEMMA ReplayExplained ==
  ASSUME queue \in Seq(Entries), OncePlaced(queue), NEW n \in 0 .. Len(queue)
  PROVE  Replay(n) = Replayed(queue, n) /\ Explained(queue, n, Replay(n))
<1>1. Replay(n) = Replayed(queue, n)
  BY DEF Replay, ReplayEntry, Replayed, ReplayedUpTo, Fresh, After
<1> QED BY <1>1, ReplayedExplained

----------------------------------------------------------------------------
(* The invariant *)

QueueInv(q, done) == q \in Seq(Entries) /\ OncePlaced(q) /\ done \in 0 .. Len(q)

ActorsInv(act, msgs) ==
  /\ act \in [Owner -> ActorState] /\ msgs \in [Owner -> Seq(Events)]
  /\ \A w \in Owner : Reserved(act[w])

\* Until a restart, the actor or the database knows every order that was stored.
KnownInv(q, act, info, again) ==
  ~ again => \A o \in Id : (\E i \in DOMAIN q : q[i].event = Placed(o)) =>
    o \in DOMAIN act[Sender(o)].active \/ info[o] # NotFound

\* No client sends an order again after a restart.
NobodyResends == Resending = {}

TradingInv ==
  /\ restarted => NobodyResends
  /\ QueueInv(queue, processed)
  /\ ActorsInv(actor, mail)
  /\ KnownInv(queue, actor, orderInfo, restarted)
  /\ Faithful(queue, processed, book, trades)
  /\ clock \in Nat

\* The same after a step
TradingInvNext ==
  /\ QueueInv(queue', processed')
  /\ ActorsInv(actor', mail')
  /\ KnownInv(queue', actor', orderInfo', restarted')
  /\ Faithful(queue', processed', book', trades')
  /\ clock' \in Nat

LEMMA InvNext == (restarted' => NobodyResends) /\ TradingInvNext => TradingInv'
  BY DEF TradingInv, TradingInvNext, NobodyResends

----------------------------------------------------------------------------
(* Storing *)

Requests == [type : {"Placed", "Canceled"}, id : Id]

LEMMA MoreEntries ==
  ASSUME NEW q \in Seq(Entries), NEW K \in Seq(Entries), NEW n \in 0 .. Len(q), NEW b, NEW T,
         Faithful(q, n, b, T)
  PROVE  /\ Faithful(q \o K, n, b, T)
         /\ q \o K \in Seq(Entries) /\ n \in 0 .. Len(q \o K)
         /\ DOMAIN (q \o K) = 1 .. Len(q) + Len(K)
         /\ \A i \in 1 .. Len(q) + Len(K) :
              (q \o K)[i] = IF i <= Len(q) THEN q[i] ELSE K[i - Len(q)]
<1>1. /\ q \o K \in Seq(Entries) /\ Len(q \o K) = Len(q) + Len(K)
      /\ \A i \in 1 .. Len(q) + Len(K) : (q \o K)[i] = IF i <= Len(q) THEN q[i] ELSE K[i - Len(q)]
  BY ONLY q \in Seq(Entries), K \in Seq(Entries), ConcatProperties
<1>2. Len(q) \in Nat /\ Len(K) \in Nat  OBVIOUS
<1> DEFINE r == q \o K
<1> HIDE DEF r
<1>3. \A i \in 1 .. n : r[i] = q[i]  BY <1>1, <1>2 DEF r
<1>4. PlacedIn(r, n) = PlacedIn(q, n)  BY <1>3 DEF PlacedIn
<1>5. Faithful(r, n, b, T)  BY <1>4 DEF Faithful
<1>6. DOMAIN r = 1 .. Len(r)  BY <1>1 DEF r
<1> QED BY <1>1, <1>2, <1>5, <1>6 DEF r

\* What storing does: some entries K for the events are appended, and the actor's
\* active orders and what it has reserved are what they are in x.
Stores(K, w, x, events) ==
  /\ K \in Seq(Entries) /\ \A i \in DOMAIN K : K[i].event \in ToSet(events)
  /\ queue' = queue \o K
  /\ actor' = [actor EXCEPT ![w] = actor'[w]]
  /\ actor'[w] \in ActorState /\ actor'[w].active = x.active /\ actor'[w].openVolume = x.openVolume
  /\ UNCHANGED <<processed, book, trades, mail, orderInfo, restarted, clock>>

\* What is not stored has failed; the promises are kept anyway.
Promises(K, w, x, events) ==
  /\ failed' = failed \cup (ToSet(events) \ {K[i].event : i \in DOMAIN K})
  /\ \A p \in Id : p \in actor'[w].pendingPlacement
                   <=> p \in x.pendingPlacement \/ Placed(p) \in ToSet(events)
  /\ \A p \in Id : p \in actor'[w].pendingCancellation
                   <=> p \in x.pendingCancellation \/ Canceled(p) \in ToSet(events)

LEMMA StoreFacts ==
  ASSUME NEW w \in Owner, NEW x \in ActorState, NEW events \in Seq(Requests), Store(w, x, events),
         clock \in Nat, actor \in [Owner -> ActorState]
  PROVE  \E K : /\ Stores(K, w, x, events) /\ Promises(K, w, x, events)
                /\ Len(events) = 1 => Len(K) <= 1
<1>1. PICK lost \in SUBSET ToSet(events) :
        LET kept == Where(events, ToSet(events) \ lost)
            IdsOf(type) == {e.id : e \in {f \in ToSet(events) : f.type = type}}
        IN  /\ queue' = queue \o [i \in DOMAIN kept |-> [event |-> kept[i], ts |-> clock]]
            /\ actor' = [actor EXCEPT ![w] =
                 [x EXCEPT !.pendingPlacement = @ \cup IdsOf("Placed"),
                           !.pendingCancellation = @ \cup IdsOf("Canceled")]]
            /\ failed' = failed \cup lost
            /\ UNCHANGED <<bookVars, mail, orderInfo, clock, restarted>>
  BY DEF Store
<1> DEFINE kept == Where(events, ToSet(events) \ lost)
           K == [i \in DOMAIN kept |-> [event |-> kept[i], ts |-> clock]]
           placing == x.pendingPlacement \cup {e.id : e \in {f \in ToSet(events) : f.type = "Placed"}}
           cancelling == x.pendingCancellation \cup {e.id : e \in {f \in ToSet(events) : f.type = "Canceled"}}
           y == [x EXCEPT !.pendingPlacement = placing, !.pendingCancellation = cancelling]
<1>2. kept \in Seq(Requests) /\ ToSet(kept) = ToSet(events) \cap (ToSet(events) \ lost)
  BY WhereElements
<1>3. Len(events) = 1 => Len(kept) <= 1
  <2> SUFFICES ASSUME Len(events) = 1 PROVE Len(kept) <= 1
    OBVIOUS
  <2> DEFINE R == ToSet(events) \ lost
             e == events[1]
  <2>1. e \in Requests /\ events = Append(<<>>, e) /\ <<>> \in Seq(Requests)
    <3>1. e \in Requests  OBVIOUS
    <3> HIDE DEF e
    <3>2. Append(<<>>, e) \in Seq(Requests) /\ Len(Append(<<>>, e)) = 1 /\ Append(<<>>, e)[1] = e
      BY <3>1
    <3>3. \A i \in 1 .. Len(events) : events[i] = Append(<<>>, e)[i]
      BY <3>2 DEF e
    <3>4. events = Append(<<>>, e)  BY <3>2, <3>3, SeqEqual
    <3> QED BY <3>1, <3>4
  <2>2. Where(<<>>, R) = <<>>  BY WhereNothing
  <2> HIDE DEF R, e
  <2>3. Where(Append(<<>>, e), R) = IF e \in R THEN Append(Where(<<>>, R), e) ELSE Where(<<>>, R)
    BY <2>1, WhereAppend
  <2>4. kept = Append(<<>>, e) \/ kept = <<>>
    BY <2>1, <2>2, <2>3 DEF R
  <2> HIDE DEF kept
  <2>5. Len(Append(<<>>, e)) = 1 /\ Len(<<>>) = 0  BY <2>1
  <2> QED BY <2>4, <2>5
<1>4. queue' = queue \o K  BY <1>1
<1>5. actor' = [actor EXCEPT ![w] = y]  BY <1>1
<1>6. UNCHANGED <<processed, book, trades, mail, orderInfo, restarted, clock>>
  BY <1>1 DEF bookVars
<1>7. placing \in SUBSET Id /\ cancelling \in SUBSET Id
  <2>1. ToSet(events) \subseteq Requests  BY DEF ToSet
  <2>2. x.pendingPlacement \subseteq Id /\ x.pendingCancellation \subseteq Id
    BY DEF ActorState
  <2> QED BY <2>1, <2>2 DEF Requests
<1>12. \A p \in Id : /\ p \in placing <=> p \in x.pendingPlacement \/ Placed(p) \in ToSet(events)
                     /\ p \in cancelling <=> p \in x.pendingCancellation \/ Canceled(p) \in ToSet(events)
  <2>1. ToSet(events) \subseteq Requests  BY DEF ToSet
  <2>2. \A e \in Requests : /\ e.type = "Placed" => e = Placed(e.id)
                            /\ e.type = "Canceled" => e = Canceled(e.id)
    BY DEF Requests, Placed, Canceled
  <2>3. \A p : /\ Placed(p).type = "Placed" /\ Placed(p).id = p
               /\ Canceled(p).type = "Canceled" /\ Canceled(p).id = p
    BY DEF Placed, Canceled
  <2> QED BY <2>1, <2>2, <2>3
<1> HIDE DEF placing, cancelling
<1>8. y \in ActorState /\ y.active = x.active /\ y.openVolume = x.openVolume
  BY <1>7 DEF ActorState
<1>13. y.pendingPlacement = placing /\ y.pendingCancellation = cancelling
  BY DEF ActorState
<1>14. {K[i].event : i \in DOMAIN K} = ToSet(events) \cap (ToSet(events) \ lost)
  BY <1>2 DEF ToSet
<1> HIDE DEF y, kept
<1>9. actor'[w] = y  BY <1>5
<1>10. K \in Seq(Entries) /\ Len(K) = Len(kept) /\ \A i \in DOMAIN K : K[i].event \in ToSet(events)
  <2>1. Len(kept) \in Nat /\ DOMAIN kept = 1 .. Len(kept) /\ \A i \in DOMAIN kept : kept[i] \in Requests
    BY <1>2
  <2>2. ASSUME NEW i \in DOMAIN kept
        PROVE  [event |-> kept[i], ts |-> clock] \in Entries /\ kept[i] \in ToSet(events)
    BY <1>2, <2>1 DEF ToSet, Entries, Requests
  <2>3. K \in [1 .. Len(kept) -> Entries]  BY <2>1, <2>2
  <2>4. \A i \in DOMAIN K : K[i].event \in ToSet(events)
    BY <2>2
  <2> HIDE DEF K
  <2> QED BY <2>1, <2>3, <2>4
<1> HIDE DEF K
<1>11. Stores(K, w, x, events)
  BY <1>4, <1>5, <1>6, <1>8, <1>9, <1>10 DEF Stores
<1>15. Promises(K, w, x, events)
  BY <1>1, <1>9, <1>12, <1>13, <1>14 DEF Promises
<1> QED BY <1>3, <1>10, <1>11, <1>15

CancelRequests == [type : {"Canceled"}, id : Id]

\* Storing requests to cancel keeps the invariant.
LEMMA CancelStored ==
  ASSUME TradingInv, NEW w \in Owner, NEW x \in ActorState,
         x.active = actor[w].active, x.openVolume = actor[w].openVolume,
         NEW events \in Seq(CancelRequests), Store(w, x, events)
  PROVE  TradingInvNext
<1>1. /\ queue \in Seq(Entries) /\ OncePlaced(queue) /\ processed \in 0 .. Len(queue)
      /\ actor \in [Owner -> ActorState] /\ mail \in [Owner -> Seq(Events)]
      /\ \A v \in Owner : Reserved(actor[v])
      /\ KnownInv(queue, actor, orderInfo, restarted)
      /\ Faithful(queue, processed, book, trades) /\ clock \in Nat
  BY DEF TradingInv, QueueInv, ActorsInv
<1>2. events \in Seq(Requests)
  BY SeqMonotonic DEF CancelRequests, Requests
<1>3. PICK K : Stores(K, w, x, events)
  BY <1>1, <1>2, StoreFacts
<1>4. /\ K \in Seq(Entries) /\ queue' = queue \o K /\ \A i \in DOMAIN K : K[i].event \in ToSet(events)
      /\ actor' = [actor EXCEPT ![w] = actor'[w]]
      /\ actor'[w] \in ActorState /\ actor'[w].active = x.active
      /\ actor'[w].openVolume = x.openVolume
      /\ UNCHANGED <<processed, book, trades, mail, orderInfo, restarted, clock>>
  BY <1>3 DEF Stores
<1>5. \A i \in DOMAIN K : K[i].event.type = "Canceled"
  <2>1. ToSet(events) \subseteq CancelRequests  BY DEF ToSet
  <2> QED BY <1>4, <2>1 DEF CancelRequests
<1> DEFINE r == queue \o K
<1>6. /\ Faithful(r, processed, book, trades)
      /\ r \in Seq(Entries) /\ processed \in 0 .. Len(r)
      /\ DOMAIN r = 1 .. Len(queue) + Len(K)
      /\ \A i \in 1 .. Len(queue) + Len(K) :
           r[i] = IF i <= Len(queue) THEN queue[i] ELSE K[i - Len(queue)]
  BY <1>1, <1>4, MoreEntries
<1> HIDE DEF r
<1>7. Len(queue) \in Nat /\ DOMAIN queue = 1 .. Len(queue) /\ Len(K) \in Nat /\ DOMAIN K = 1 .. Len(K)
  BY <1>1, <1>4
<1>8. ASSUME NEW i \in DOMAIN r, r[i].event.type = "Placed"
      PROVE  i \in DOMAIN queue /\ r[i] = queue[i]
  <2>1. CASE i <= Len(queue)  BY <1>6, <1>7, <1>8, <2>1
  <2>2. CASE i > Len(queue)
    <3>1. i - Len(queue) \in DOMAIN K /\ r[i] = K[i - Len(queue)]
      BY <1>6, <1>7, <2>2
    <3> QED BY <1>5, <1>8, <3>1
  <2> QED BY <1>6, <1>7, <2>1, <2>2
<1>9. OncePlaced(r)  BY <1>1, <1>8 DEF OncePlaced
<1>10. ASSUME NEW v \in Owner
       PROVE  /\ actor'[v] \in ActorState /\ actor'[v].active = actor[v].active
              /\ actor'[v].openVolume = actor[v].openVolume
  BY <1>1, <1>4
<1>11. ActorsInv(actor', mail')
  <2>1. DOMAIN actor' = Owner /\ actor' = [v \in Owner |-> actor'[v]]
    BY <1>1, <1>4
  <2>2. actor' \in [Owner -> ActorState]  BY <1>10, <2>1
  <2>3. \A v \in Owner : Reserved(actor'[v])
    BY <1>1, <1>10 DEF Reserved
  <2> QED BY <1>1, <1>4, <2>2, <2>3 DEF ActorsInv
<1>12. KnownInv(r, actor', orderInfo', restarted')
  <2> SUFFICES ASSUME ~ restarted', NEW o \in Id, NEW i \in DOMAIN r, r[i].event = Placed(o)
               PROVE  o \in DOMAIN actor'[Sender(o)].active \/ orderInfo'[o] # NotFound
    BY DEF KnownInv
  <2>1. i \in DOMAIN queue /\ queue[i].event = Placed(o)
    BY <1>8 DEF Placed
  <2>2. o \in DOMAIN actor[Sender(o)].active \/ orderInfo[o] # NotFound
    BY <1>1, <1>4, <2>1 DEF KnownInv
  <2>3. Sender(o) \in Owner  BY TradingAssumption DEF Sender
  <2> QED BY <1>4, <1>10, <2>2, <2>3
<1> QED BY <1>1, <1>4, <1>6, <1>9, <1>11, <1>12 DEF TradingInvNext, QueueInv, r

\* Storing an order that is not in the queue keeps it, when its actor has reserved it.
LEMMA PlaceStored ==
  ASSUME TradingInv, NEW o \in Id,
         Store(Sender(o), Reserve(actor[Sender(o)], LimitOrder(o)), <<Placed(o)>>),
         o \notin DOMAIN actor[Sender(o)].active,
         \A i \in DOMAIN queue : queue[i].event # Placed(o)
  PROVE  TradingInvNext
<1> DEFINE w == Sender(o)
           x == Reserve(actor[w], LimitOrder(o))
           events == <<Placed(o)>>
<1>0. w \in Owner  BY TradingAssumption DEF Sender
<1>1. /\ queue \in Seq(Entries) /\ OncePlaced(queue) /\ processed \in 0 .. Len(queue)
      /\ actor \in [Owner -> ActorState] /\ mail \in [Owner -> Seq(Events)]
      /\ \A v \in Owner : Reserved(actor[v])
      /\ KnownInv(queue, actor, orderInfo, restarted)
      /\ Faithful(queue, processed, book, trades) /\ clock \in Nat
  BY DEF TradingInv, QueueInv, ActorsInv
<1>2. events \in Seq(Requests) /\ Len(events) = 1 /\ ToSet(events) = {Placed(o)}
  BY DEF Placed, Requests, ToSet
<1>3. /\ x \in ActorState /\ DOMAIN x.active = DOMAIN actor[w].active \cup {o}
      /\ Reserved(x)
  <2>1. LimitOrder(o) \in LimitOrders /\ LimitOrder(o).id = o
    BY LimitOrderFacts DEF LimitOrder
  <2>2. ReservedBut(actor[w], o)
    <3>1. DOMAIN actor[w].active \ {o} = DOMAIN actor[w].active
      OBVIOUS
    <3>2. Reserved(actor[w])  BY <1>0, <1>1
    <3> QED BY <3>1, <3>2 DEF Reserved, ReservedBut, RequiredBut
  <2>3. actor[w] \in ActorState  BY <1>0, <1>1
  <2> DEFINE lo == LimitOrder(o)
             a == actor[w]
  <2> HIDE DEF lo, a
  <2>4. LET y == Reserve(a, lo)
        IN  /\ y \in ActorState
            /\ DOMAIN y.active = DOMAIN a.active \cup {lo.id}
            /\ ReservedBut(a, lo.id) => Reserved(y)
    BY <2>1, <2>3, ReserveFacts DEF lo, a
  <2> QED BY <2>1, <2>2, <2>4 DEF lo, a
<1> HIDE DEF x
<1>4. PICK K : Stores(K, w, x, events) /\ Len(K) <= 1
  BY <1>0, <1>1, <1>2, <1>3, StoreFacts DEF x
<1>5. /\ K \in Seq(Entries) /\ queue' = queue \o K /\ \A i \in DOMAIN K : K[i].event = Placed(o)
      /\ actor' = [actor EXCEPT ![w] = actor'[w]]
      /\ actor'[w] \in ActorState /\ actor'[w].active = x.active
      /\ actor'[w].openVolume = x.openVolume
      /\ UNCHANGED <<processed, book, trades, mail, orderInfo, restarted, clock>>
  BY <1>2, <1>4 DEF Stores
<1> HIDE DEF w, events
<1> DEFINE r == queue \o K
<1>6. /\ Faithful(r, processed, book, trades)
      /\ r \in Seq(Entries) /\ processed \in 0 .. Len(r)
      /\ DOMAIN r = 1 .. Len(queue) + Len(K)
      /\ \A i \in 1 .. Len(queue) + Len(K) :
           r[i] = IF i <= Len(queue) THEN queue[i] ELSE K[i - Len(queue)]
  BY <1>1, <1>5, MoreEntries
<1> HIDE DEF r
<1>7. Len(queue) \in Nat /\ DOMAIN queue = 1 .. Len(queue) /\ Len(K) \in {0, 1} /\ DOMAIN K = 1 .. Len(K)
  <2>1. \A s \in Seq(Entries) : Len(s) \in Nat /\ DOMAIN s = 1 .. Len(s)
    <3> HIDE DEF Entries
    <3> QED OBVIOUS
  <2>2. Len(K) <= 1 => Len(K) \in {0, 1}
    BY <1>5, <2>1
  <2> QED BY <1>1, <1>4, <1>5, <2>1, <2>2
<1>8. ASSUME NEW i \in DOMAIN r
      PROVE  (i \in DOMAIN queue /\ r[i] = queue[i])
             \/ (i = Len(queue) + 1 /\ r[i].event = Placed(o))
  <2>1. CASE i <= Len(queue)  BY <1>6, <1>7, <2>1
  <2>2. CASE i > Len(queue)
    <3>1. i - Len(queue) \in DOMAIN K /\ r[i] = K[i - Len(queue)] /\ i = Len(queue) + 1
      BY <1>6, <1>7, <2>2
    <3> QED BY <1>5, <3>1
  <2> QED BY <1>6, <1>7, <2>1, <2>2
<1>9. OncePlaced(r)  BY <1>1, <1>8 DEF OncePlaced
<1>10. ASSUME NEW v \in Owner, v # w PROVE actor'[v] = actor[v]
  BY <1>1, <1>5, <1>10
<1>11. ActorsInv(actor', mail')
  <2>1. DOMAIN actor' = Owner /\ actor' = [v \in Owner |-> actor'[v]]
    BY <1>1, <1>5
  <2>2. Reserved(actor'[w])  BY <1>3, <1>5 DEF Reserved
  <2>3. actor' \in [Owner -> ActorState]
    BY <1>1, <1>5, <1>10, <2>1
  <2>4. \A v \in Owner : Reserved(actor'[v])
    BY <1>1, <1>10, <2>2
  <2> QED BY <1>1, <1>5, <2>3, <2>4 DEF ActorsInv
<1>12. KnownInv(r, actor', orderInfo', restarted')
  <2> SUFFICES ASSUME ~ restarted', NEW p \in Id, NEW i \in DOMAIN r, r[i].event = Placed(p)
               PROVE  p \in DOMAIN actor'[Sender(p)].active \/ orderInfo'[p] # NotFound
    BY DEF KnownInv
  <2>1. CASE p = o  BY <1>3, <1>5, <2>1 DEF w
  <2>2. CASE p # o
    <3>1. i \in DOMAIN queue /\ queue[i].event = Placed(p)
      BY <1>8, <2>2 DEF Placed
    <3>2. p \in DOMAIN actor[Sender(p)].active \/ orderInfo[p] # NotFound
      BY <1>1, <1>5, <3>1 DEF KnownInv
    <3>3. Sender(p) \in Owner  BY TradingAssumption DEF Sender
    <3>4. DOMAIN actor[Sender(p)].active \subseteq DOMAIN actor'[Sender(p)].active
      BY <1>3, <1>5, <1>10, <3>3
    <3> QED BY <1>5, <3>2, <3>4
  <2> QED BY <2>1, <2>2
<1> QED BY <1>1, <1>5, <1>6, <1>9, <1>11, <1>12 DEF TradingInvNext, QueueInv, r

----------------------------------------------------------------------------
(* The steps *)

LEMMA InvParts ==
  ASSUME TradingInv
  PROVE  /\ queue \in Seq(Entries) /\ OncePlaced(queue) /\ processed \in 0 .. Len(queue)
         /\ actor \in [Owner -> ActorState] /\ mail \in [Owner -> Seq(Events)]
         /\ \A v \in Owner : Reserved(actor[v])
         /\ KnownInv(queue, actor, orderInfo, restarted)
         /\ Faithful(queue, processed, book, trades) /\ clock \in Nat
         /\ \A o \in Id : Sender(o) \in Owner
  BY TradingAssumption DEF TradingInv, QueueInv, ActorsInv, Sender

LEMMA PlaceOrderStep ==
  ASSUME TradingInv, NEW o \in Id, MaySend(o), PlaceOrder(o) PROVE TradingInvNext
<1> DEFINE w == Sender(o)
           x == actor[w]
<1>1. /\ ~ OrderExists(x, o) /\ (restarted => ~ WasSent(o))
      /\ Store(w, Reserve(x, LimitOrder(o)), <<Placed(o)>>)
  BY DEF PlaceOrder, MaySend, TradingInv, NobodyResends
<1>2. o \notin DOMAIN x.active /\ orderInfo[o] = NotFound
  BY <1>1 DEF OrderExists
<1>3. \A i \in DOMAIN queue : queue[i].event # Placed(o)
  BY <1>1, <1>2, InvParts DEF WasSent, KnownInv
<1> QED BY <1>1, <1>2, <1>3, PlaceStored

LEMMA CancelOneRequest ==
  ASSUME NEW o \in Id
  PROVE  Canceled(o) \in CancelRequests /\ <<Canceled(o)>> \in Seq(CancelRequests)
<1>1. Canceled(o) \in CancelRequests
  BY DEF Canceled, CancelRequests
<1> HIDE DEF CancelRequests
<1> QED BY <1>1

LEMMA CancelOrderStep ==
  ASSUME TradingInv, NEW o \in Id, CancelOrder(o) PROVE TradingInvNext
<1> DEFINE w == Sender(o)
           x == actor[w]
           events == <<Canceled(o)>>
<1>1. Store(w, x, events)  BY DEF CancelOrder
<1>2. w \in Owner /\ x \in ActorState  BY InvParts
<1>3. events \in Seq(CancelRequests)  BY CancelOneRequest
<1> HIDE DEF events, w
<1> QED BY <1>1, <1>2, <1>3, CancelStored

LEMMA CancelExpiredOrderStep ==
  ASSUME TradingInv, NEW o \in Id, CancelExpiredOrder(o) PROVE TradingInvNext
<1> DEFINE w == Sender(o)
           a == actor[w]
           t == a.timers[o] - 1
           x == [a EXCEPT !.expiration = @ \ {o}, !.timers[o] = t]
           events == IF o \in DOMAIN x.active THEN <<Canceled(o)>> ELSE <<>>
<1>1. a.timers[o] > 0 /\ Store(w, x, events)
  BY DEF CancelExpiredOrder
<1>2. w \in Owner /\ a \in ActorState  BY InvParts
<1>3. events \in Seq(CancelRequests)  BY CancelOneRequest
<1> HIDE DEF events
<1>4. t \in Nat  BY <1>2, <1>1 DEF ActorState
<1> HIDE DEF t, a
<1>5. x \in ActorState /\ x.active = a.active /\ x.openVolume = a.openVolume
  BY <1>2, <1>4 DEF ActorState
<1> HIDE DEF x, w
<1> QED BY <1>1, <1>2, <1>3, <1>5, CancelStored DEF a

LEMMA CancelRequestsOf ==
  ASSUME NEW ids \in Seq(Id)
  PROVE  [i \in DOMAIN ids |-> Canceled(ids[i])] \in Seq(CancelRequests)
<1> DEFINE n == Len(ids)
           s == [i \in DOMAIN ids |-> Canceled(ids[i])]
<1>1. n \in Nat /\ DOMAIN ids = 1 .. n /\ \A i \in 1 .. n : ids[i] \in Id
  OBVIOUS
<1> HIDE DEF n
<1>2. \A i \in 1 .. n : Canceled(ids[i]) \in CancelRequests
  BY <1>1, CancelOneRequest
<1>3. s \in [1 .. n -> CancelRequests]  BY <1>1, <1>2
<1> HIDE DEF s
<1>4. s \in Seq(CancelRequests)  BY <1>1, <1>3
<1> QED BY <1>4 DEF s

\* The active orders in some order
LEMMA ActiveSeqs ==
  ASSUME NEW x \in ActorState, NEW ids \in SetToSeqs(DOMAIN x.active)
  PROVE  ids \in Seq(Id)
<1> DEFINE D == DOMAIN x.active
           n == Cardinality(D)
<1>1. x.active \in Actives  BY DEF ActorState
<1>2. D \subseteq Id /\ IsFiniteSet(D)  BY <1>1, ActivesFacts
<1>3. n \in Nat  BY <1>2, FS_CardinalityType
<1>4. ids \in [1 .. n -> D]  BY DEF SetToSeqs
<1> HIDE DEF D, n
<1>5. ids \in Seq(D)  BY <1>3, <1>4
<1> QED BY <1>2, <1>5, SeqMonotonic

LEMMA CancelAllOrdersStep ==
  ASSUME TradingInv, NEW w \in Owner, CancelAllOrders(w) PROVE TradingInvNext
<1>1. PICK ids \in SetToSeqs(DOMAIN actor[w].active) :
        Store(w, actor[w], [i \in DOMAIN ids |-> Canceled(ids[i])])
  BY DEF CancelAllOrders
<1>2. actor[w] \in ActorState  BY InvParts
<1>3. ids \in Seq(Id)  BY <1>1, <1>2, ActiveSeqs
<1> DEFINE events == [i \in DOMAIN ids |-> Canceled(ids[i])]
<1>4. events \in Seq(CancelRequests)
  BY <1>3, CancelRequestsOf
<1> HIDE DEF events
<1> QED BY <1>1, <1>2, <1>4, CancelStored DEF events

LEMMA BalanceUpdatedStep ==
  ASSUME TradingInv, NEW w \in Owner, BalanceUpdated(w) PROVE TradingInvNext
<1>1. PICK assets \in (SUBSET changed[w]) \ {{}} : \E byAge \in ByAge(actor[w]) :
        LET ids == OrdersToDelete(actor[w], Restrict(spendable[w], assets), byAge)
        IN  Store(w, actor[w], [i \in DOMAIN ids |-> Canceled(ids[i])])
  BY DEF BalanceUpdated
<1>2. PICK byAge \in ByAge(actor[w]) :
        LET ids == OrdersToDelete(actor[w], Restrict(spendable[w], assets), byAge)
        IN  Store(w, actor[w], [i \in DOMAIN ids |-> Canceled(ids[i])])
  BY <1>1
<1> DEFINE ids == OrdersToDelete(actor[w], Restrict(spendable[w], assets), byAge)
           events == [i \in DOMAIN ids |-> Canceled(ids[i])]
<1>3. actor[w] \in ActorState  BY InvParts
<1>4. byAge \in Seq(Id)  BY <1>3, ActiveSeqs DEF ByAge
<1>5. PICK S : ids = Where(byAge, S)  BY DEF OrdersToDelete
<1> HIDE DEF ids
<1>6. ids \in Seq(Id)  BY <1>4, <1>5, WhereElements
<1>7. events \in Seq(CancelRequests)
  BY <1>6, CancelRequestsOf
<1>8. Store(w, actor[w], events)  BY <1>2 DEF ids
<1> HIDE DEF events
<1> QED BY <1>3, <1>7, <1>8, CancelStored

\* An order that an event ends gets a final status.
LEMMA TerminatedIsFinal ==
  ASSUME NEW x, NEW w, NEW e, NEW t \in Terminated(x, w, e)
  PROVE  t[2] # NotFound
<1>1. \A n : Filled(n) # NotFound /\ Cancelled(n) # NotFound
  BY DEF Filled, Cancelled, NotFound
<1>2. CASE e.type = "OrderExecuted"
  BY <1>2, <1>1 DEF Terminated
<1>3. CASE e.type = "OrderCanceled"
  BY <1>3, <1>1 DEF Terminated, FinalStatus
<1>4. CASE e.type \notin {"OrderExecuted", "OrderCanceled"}
  BY <1>4 DEF Terminated
<1> QED BY <1>2, <1>3, <1>4

LEMMA SavedIsFinal ==
  ASSUME NEW info, NEW x, NEW w, NEW e, NEW o \in Id,
         info[o] # NotFound \/ \E t \in Terminated(x, w, e) : t[1] = o
  PROVE  SaveOrderInfo(info, Terminated(x, w, e))[o] # NotFound
<1> DEFINE T == Terminated(x, w, e)
<1>1. SaveOrderInfo(info, T)[o] =
        IF info[o] = NotFound /\ \E t \in T : t[1] = o
        THEN (CHOOSE t \in T : t[1] = o)[2] ELSE info[o]
  BY DEF SaveOrderInfo
<1>2. \A t \in T : t[2] # NotFound  BY TerminatedIsFinal
<1> HIDE DEF T
<1> QED BY <1>1, <1>2 DEF T

LEMMA HandleEventStep ==
  ASSUME TradingInv, NEW w \in Owner, HandleEvent(w) PROVE TradingInvNext
<1> DEFINE e == Head(mail[w])
           y == Handle(actor[w], w, e)
           info == SaveOrderInfo(orderInfo, Terminated(actor[w], w, e))
<1>1. /\ mail[w] # <<>> /\ actor' = [actor EXCEPT ![w] = y] /\ orderInfo' = info
      /\ mail' = [mail EXCEPT ![w] = Tail(@)]
      /\ UNCHANGED <<queue, processed, book, trades, restarted, clock>>
  BY DEF HandleEvent, bookVars, budgets
<1>2. /\ queue \in Seq(Entries) /\ OncePlaced(queue) /\ processed \in 0 .. Len(queue)
      /\ actor \in [Owner -> ActorState] /\ mail \in [Owner -> Seq(Events)]
      /\ \A v \in Owner : Reserved(actor[v])
      /\ KnownInv(queue, actor, orderInfo, restarted)
      /\ Faithful(queue, processed, book, trades) /\ clock \in Nat
      /\ \A o \in Id : Sender(o) \in Owner
  BY InvParts
<1>3. mail[w] \in Seq(Events)  BY <1>2
<1>4. e \in Events /\ Tail(mail[w]) \in Seq(Events)
  BY <1>1, <1>3, HeadTailProperties
<1> HIDE DEF e
<1>5. /\ y \in ActorState /\ (Reserved(actor[w]) => Reserved(y))
      /\ \A o \in DOMAIN actor[w].active :
           o \in DOMAIN y.active \/ \E t \in Terminated(actor[w], w, e) : t[1] = o
  BY <1>2, <1>4, HandleFacts
<1> HIDE DEF y
<1>6. ActorsInv(actor', mail')
  BY <1>1, <1>2, <1>4, <1>5 DEF ActorsInv
<1>7. KnownInv(queue', actor', orderInfo', restarted')
  BY <1>1, <1>2, SavedIsFinal, <1>5 DEF KnownInv
<1> QED BY <1>1, <1>2, <1>6, <1>7 DEF TradingInvNext, QueueInv

\* The events on their way to an actor
LEMMA EventsForTyped ==
  ASSUME NEW w, NEW events \in Seq(Events)
  PROVE  EventsFor(w, events) \in Seq(Events)
  BY WhereElements DEF EventsFor

LEMMA ApplyNextStep ==
  ASSUME TradingInv, ApplyNext PROVE TradingInvNext
<1> DEFINE n == processed + 1
           r == Apply(book, queue[n])
<1>1. /\ processed < Len(queue) /\ processed' = n /\ book' = r.book
      /\ trades' = trades \o TradesOf(n, r.events)
      /\ mail' = [w \in Owner |-> mail[w] \o EventsFor(w, r.events)]
      /\ UNCHANGED <<queue, actor, orderInfo, restarted, clock>>
  BY DEF ApplyNext, budgets
<1>2. /\ queue \in Seq(Entries) /\ OncePlaced(queue) /\ processed \in 0 .. Len(queue)
      /\ actor \in [Owner -> ActorState] /\ mail \in [Owner -> Seq(Events)]
      /\ \A v \in Owner : Reserved(actor[v])
      /\ KnownInv(queue, actor, orderInfo, restarted)
      /\ Faithful(queue, processed, book, trades) /\ clock \in Nat
  BY InvParts
<1>3. n \in 1 .. Len(queue) /\ n - 1 = processed /\ n \in 0 .. Len(queue)
  BY <1>2, <1>1
<1> HIDE DEF n
<1>4. LET x == Apply(book, queue[n])
      IN  /\ Faithful(queue, n, x.book, trades \o TradesOf(n, x.events))
          /\ x.events \in Seq(Events) /\ TradesOf(n, x.events) \in Seq(TradeSet)
  BY <1>2, <1>3, ApplyFaithful
<1> HIDE DEF r
<1>5. Faithful(queue, n, r.book, trades \o TradesOf(n, r.events)) /\ r.events \in Seq(Events)
  BY <1>4 DEF r
<1>6. mail' \in [Owner -> Seq(Events)]
  <2>1. ASSUME NEW w \in Owner PROVE mail[w] \o EventsFor(w, r.events) \in Seq(Events)
    <3>1. mail[w] \in Seq(Events)  BY <1>2
    <3>2. EventsFor(w, r.events) \in Seq(Events)
      BY <1>5, EventsForTyped
    <3> QED BY ONLY <3>1, <3>2, ConcatProperties
  <2> QED BY <1>1, <2>1
<1>7. ActorsInv(actor', mail')
  BY <1>1, <1>2, <1>6 DEF ActorsInv
<1> QED BY <1>1, <1>2, <1>3, <1>5, <1>7 DEF TradingInvNext, QueueInv

\* An actor that starts has no active orders and has reserved nothing.
LEMMA StartingFacts == StartingActor \in ActorState /\ Reserved(StartingActor)
<1>1. <<>> \in Actives
  <2>1. DOMAIN <<>> = {} /\ <<>> = [o \in {} |-> <<>>]
    OBVIOUS
  <2>2. <<>> \in [{} -> LimitOrders]  BY <2>1
  <2>3. IsFiniteSet({})  BY FS_EmptySet
  <2> QED BY <2>2, <2>3, ActivesMade
<1>2. StartingActor \in ActorState
  BY <1>1 DEF StartingActor, ActorState
<1>3. Reserved(StartingActor)
  <2> SUFFICES ASSUME NEW a \in Asset
               PROVE  StartingActor.openVolume[a] =
                        Sum([o \in DOMAIN StartingActor.active |->
                               RequiredBalance(StartingActor.active[o])[a]])
    BY DEF Reserved
  <2> DEFINE f == [o \in DOMAIN StartingActor.active |-> RequiredBalance(StartingActor.active[o])[a]]
  <2>1. DOMAIN f = {}  BY DEF StartingActor
  <2> HIDE DEF f
  <2>2. Sum(f) = 0  BY <2>1, SumNone
  <2> QED BY <2>2 DEF f, StartingActor
<1> QED BY <1>2, <1>3

\* All actors start.
LEMMA StartingActors ==
  ASSUME NEW act, act = [w \in Owner |-> StartingActor], NEW msgs \in [Owner -> Seq(Events)]
  PROVE  ActorsInv(act, msgs)
<1>1. \A w \in Owner : act[w] = StartingActor  OBVIOUS
<1> QED BY <1>1, StartingFacts DEF ActorsInv

LEMMA RestartStep ==
  ASSUME TradingInv, Restart PROVE TradingInvNext
<1>1. PICK n \in 0 .. processed : ComeBackWith(n, Replay(n))
  BY DEF Restart
<1> DEFINE back == Replay(n)
           orders == back.book["buy"] \o back.book["sell"]
           events == [i \in DOMAIN orders |-> OrderAdded(orders[i])]
<1>2. /\ processed' = n /\ book' = back.book /\ trades' = back.trades
      /\ mail' = [w \in Owner |-> EventsFor(w, events)]
      /\ actor' = [w \in Owner |-> StartingActor] /\ restarted' = TRUE
      /\ UNCHANGED <<queue, orderInfo, clock>>
  BY <1>1 DEF Restart, ComeBackWith
<1>3. /\ queue \in Seq(Entries) /\ OncePlaced(queue) /\ processed \in 0 .. Len(queue)
      /\ clock \in Nat
  BY InvParts
<1>4. n \in 0 .. Len(queue)  BY <1>3
<1>5. Faithful(queue, n, back.book, back.trades)
  BY <1>3, <1>4, ReplayExplained DEF Explained
<1> HIDE DEF back
<1>6. orders \in Seq(LimitOrders)
  <2>1. "buy" \in Side /\ "sell" \in Side  BY DEF Side
  <2>2. back.book \in [Side -> Seq(LimitOrders)]
    BY <1>5 DEF Faithful, GoodBook
  <2>3. back.book["buy"] \in Seq(LimitOrders)  BY <2>1, <2>2
  <2>4. back.book["sell"] \in Seq(LimitOrders)  BY <2>1, <2>2
  <2> QED BY ONLY <2>3, <2>4, ConcatProperties
<1> HIDE DEF orders
<1>7. events \in Seq(Events)
  <2>1. Len(orders) \in Nat /\ DOMAIN orders = 1 .. Len(orders)
        /\ \A i \in DOMAIN orders : orders[i] \in LimitOrders
    BY <1>6
  <2>2. \A i \in DOMAIN orders : OrderAdded(orders[i]) \in Events
    BY <2>1, EventFacts
  <2>3. events \in [1 .. Len(orders) -> Events]  BY <2>1, <2>2
  <2> HIDE DEF events
  <2> QED BY <2>1, <2>3
<1> HIDE DEF events
<1>8. \A w \in Owner : EventsFor(w, events) \in Seq(Events)
  BY <1>7, EventsForTyped
<1>9. mail' \in [Owner -> Seq(Events)]  BY <1>2, <1>8
<1>10. ActorsInv(actor', mail')  BY <1>2, <1>9, StartingActors
<1>11. KnownInv(queue', actor', orderInfo', restarted')
  BY <1>2 DEF KnownInv
<1> QED BY <1>2, <1>3, <1>4, <1>5, <1>10, <1>11 DEF TradingInvNext, QueueInv

\* A step that leaves the book, the actors and the queue alone
LEMMA OtherStep ==
  ASSUME TradingInv, UNCHANGED <<queue, bookVars, mail, actor, orderInfo, restarted>>,
         clock' = clock \/ clock' = clock + 1
  PROVE  TradingInvNext
<1>1. UNCHANGED <<queue, processed, book, trades, mail, actor, orderInfo, restarted>>
  BY DEF bookVars
<1>2. clock' \in Nat  BY DEF TradingInv
<1> QED BY <1>1, <1>2 DEF TradingInv, TradingInvNext

LEMMA InvInit == Init => TradingInv
<1> SUFFICES ASSUME Init PROVE TradingInv  OBVIOUS
<1>1. /\ queue = <<>> /\ processed = 0 /\ book = EmptyBook /\ trades = <<>>
      /\ mail = [w \in Owner |-> <<>>] /\ actor = [w \in Owner |-> StartingActor] /\ clock = 0
      /\ ~ restarted
  BY DEF Init
<1>2. QueueInv(queue, processed)
  BY <1>1 DEF QueueInv, OncePlaced
<1>3. mail \in [Owner -> Seq(Events)]  BY <1>1
<1>4. ActorsInv(actor, mail)  BY <1>1, <1>3, StartingActors
<1>5. KnownInv(queue, actor, orderInfo, restarted)
  BY <1>1 DEF KnownInv
<1>6. Faithful(queue, processed, book, trades)
  BY FreshExplained, <1>1 DEF Explained, Fresh
<1> QED BY <1>1, <1>2, <1>4, <1>5, <1>6 DEF TradingInv

LEMMA InvStep == TradingInv /\ [Next]_vars => TradingInvNext
<1> SUFFICES ASSUME TradingInv, [Next]_vars PROVE TradingInvNext
  OBVIOUS
<1>1. ASSUME NEW o \in Id, MaySend(o), PlaceOrder(o) PROVE TradingInvNext
  BY <1>1, PlaceOrderStep
<1>2. ASSUME NEW o \in Id, CancelOrder(o) PROVE TradingInvNext
  BY <1>2, CancelOrderStep
<1>3. ASSUME NEW o \in Id, CancelExpiredOrder(o) PROVE TradingInvNext
  BY <1>3, CancelExpiredOrderStep
<1>4. ASSUME NEW w \in Owner, CancelAllOrders(w) PROVE TradingInvNext
  BY <1>4, CancelAllOrdersStep
<1>5. ASSUME NEW w \in Owner, BalanceUpdated(w) PROVE TradingInvNext
  BY <1>5, BalanceUpdatedStep
<1>6. ASSUME NEW w \in Owner, HandleEvent(w) PROVE TradingInvNext
  BY <1>6, HandleEventStep
<1>7. ASSUME NEW w \in Owner, NEW a \in Asset, Spend(w, a) PROVE TradingInvNext
  BY <1>7, OtherStep DEF Spend
<1>8. CASE ApplyNext  BY <1>8, ApplyNextStep
<1>9. CASE Settle  BY <1>9, OtherStep DEF Settle, budgets
<1>10. CASE Tick  BY <1>10, OtherStep DEF Tick
<1>11. CASE Restart  BY <1>11, RestartStep
<1>12. CASE UNCHANGED vars
  BY <1>12, OtherStep DEF vars, budgets
<1> QED BY <1>1, <1>2, <1>3, <1>4, <1>5, <1>6, <1>7, <1>8, <1>9, <1>10, <1>11, <1>12 DEF Next

----------------------------------------------------------------------------
(* What events tell of an order *)

\* What is left of an order in a book, and what an actor takes to be left of it
InBook(b, p) == {lo \in AllOrders(b) : lo.id = p}
ActiveOf(x, p) == {x.active[o] : o \in DOMAIN x.active \cap {p}}

Silent(s, p) == \A i \in DOMAIN s : p \notin Mentioned(s[i])

\* Who takes A to be left of an order takes B to be, after these events.
Tells(s, p, A, B) ==
  \/ A = B /\ Silent(s, p)
  \/ \E i \in DOMAIN s : /\ p \in Mentioned(s[i]) /\ Says(s[i], p) = B
                         /\ \A j \in DOMAIN s : j > i => p \notin Mentioned(s[j])

LEMMA TellsNothing ==
  ASSUME NEW p, NEW A
  PROVE  Silent(<<>>, p) /\ \A B : Tells(<<>>, p, A, B) <=> A = B
<1>1. DOMAIN <<>> = {}  OBVIOUS
<1> QED BY <1>1 DEF Tells, Silent

\* One event more
LEMMA TellsAppend ==
  ASSUME NEW s \in Seq(Events), NEW e \in Events, NEW p, NEW A, NEW B
  PROVE  /\ Silent(Append(s, e), p) <=> Silent(s, p) /\ p \notin Mentioned(e)
         /\ Tells(Append(s, e), p, A, B)
              <=> IF p \in Mentioned(e) THEN Says(e, p) = B ELSE Tells(s, p, A, B)
<1> DEFINE t == Append(s, e)
           n == Len(s)
<1>1. /\ n \in Nat /\ DOMAIN s = 1 .. n /\ DOMAIN t = 1 .. n + 1 /\ t[n + 1] = e
      /\ \A i \in 1 .. n : t[i] = s[i]
  OBVIOUS
<1> HIDE DEF t, n
<1>2. \A i \in 1 .. n + 1 : i \in 1 .. n \/ i = n + 1  BY <1>1
<1>3. n + 1 \in 1 .. n + 1 /\ \A i \in 1 .. n : i \in 1 .. n + 1
  BY <1>1
<1>4. Silent(t, p) <=> Silent(s, p) /\ p \notin Mentioned(e)
  BY <1>1, <1>2, <1>3 DEF Silent
<1>5. CASE p \in Mentioned(e)
  BY <1>1, <1>3, <1>5, <1>4 DEF Tells, t
<1>6. CASE p \notin Mentioned(e)
  BY <1>1, <1>2, <1>3, <1>6, <1>4 DEF Tells, t
<1> QED BY <1>5, <1>6

\* What holds of no events, and of one event more whenever it holds of some, holds of all.
LEMMA EventsInduction ==
  ASSUME NEW T, NEW s \in Seq(T), NEW G,
         <<>> \in G, \A t \in Seq(T) : \A e \in T : t \in G /\ e \in ToSet(s) => Append(t, e) \in G
  PROVE  s \in G
<1> DEFINE n == Len(s)
           Upto(k) == SubSeq(s, 1, k)
           H == {k \in 0 .. n : Upto(k) \in G}
<1>1. n \in Nat  OBVIOUS
<1>2. 0 \in H
  <2>1. Upto(0) = <<>> /\ 0 \in 0 .. n  OBVIOUS
  <2> HIDE DEF Upto, n
  <2> QED BY <2>1
<1>3. ASSUME NEW k \in 0 .. n, k # n, k \in H PROVE k + 1 \in H
  <2>1. k + 1 \in 1 .. n /\ k + 1 \in 0 .. n /\ k \in Nat
    BY <1>1, <1>3
  <2>2. Upto(k) \in Seq(T) /\ Len(Upto(k)) = k  BY <1>1, <2>1
  <2>3. s[k + 1] \in T /\ s[k + 1] \in ToSet(s)
    BY <2>1 DEF ToSet
  <2>4. Upto(k + 1) = Append(Upto(k), s[k + 1])
    <3>1. \A i \in 1 .. k + 1 : i \in 1 .. k \/ i = k + 1
      BY <2>1
    <3>2. Upto(k + 1) \in Seq(T) /\ Len(Upto(k + 1)) = k + 1
          /\ \A i \in 1 .. k + 1 : Upto(k + 1)[i] = s[i]
      BY <1>1, <2>1
    <3>3. \A i \in 1 .. k : Upto(k)[i] = s[i]  BY <1>1, <2>1
    <3> DEFINE u == Upto(k)
               v == Upto(k + 1)
               a == Append(u, s[k + 1])
    <3> HIDE DEF u, v
    <3>4. u \in Seq(T) /\ Len(u) = k  BY <2>2 DEF u
    <3>5. a \in Seq(T) /\ Len(a) = k + 1 /\ a[k + 1] = s[k + 1] /\ \A i \in 1 .. k : a[i] = u[i]
      BY <2>1, <2>3, <3>4
    <3>6. v \in Seq(T) /\ Len(v) = k + 1 /\ \A i \in 1 .. k + 1 : v[i] = s[i]
      BY <3>2 DEF v
    <3> HIDE DEF a
    <3>7. \A i \in 1 .. Len(v) : v[i] = a[i]
      BY <3>1, <3>3, <3>5, <3>6 DEF u
    <3>8. v = a  BY <3>5, <3>6, <3>7, SeqEqual
    <3> QED BY <3>8 DEF u, v, a
  <2>5. Upto(k) \in G  BY <1>3
  <2> HIDE DEF Upto
  <2>6. Upto(k + 1) \in G  BY <2>2, <2>3, <2>4, <2>5
  <2> QED BY <2>1, <2>6
<1>4. n \in H
  <2> HIDE DEF H, n
  <2>1. \A k \in 0 .. n : k \in H  BY <1>1, <1>2, <1>3, Climb
  <2> QED BY <1>1, <2>1
<1>5. Upto(n) = s  OBVIOUS
<1> QED BY <1>4, <1>5

\* Events one after the other
LEMMA TellsConcat ==
  ASSUME NEW s \in Seq(Events), NEW t \in Seq(Events), NEW p
  PROVE  /\ Silent(s \o t, p) <=> Silent(s, p) /\ Silent(t, p)
         /\ \A A, B, C : /\ Tells(t, p, B, C)
                         /\ ~ Silent(t, p) \/ Tells(s, p, A, B)
                         => Tells(s \o t, p, A, C)
<1>1. Silent(s \o t, p) <=> Silent(s, p) /\ Silent(t, p)
  <2> DEFINE G == {u \in Seq(Events) : Silent(s \o u, p) <=> Silent(s, p) /\ Silent(u, p)}
  <2>1. <<>> \in G  BY TellsNothing
  <2>2. ASSUME NEW u \in Seq(Events), NEW e \in Events, u \in G PROVE Append(u, e) \in G
    <3>1. s \o u \in Seq(Events) /\ Append(u, e) \in Seq(Events)
      OBVIOUS
    <3>2. s \o Append(u, e) = Append(s \o u, e)
      BY ConcatAppend
    <3>3. Silent(Append(u, e), p) <=> Silent(u, p) /\ p \notin Mentioned(e)
      BY TellsAppend
    <3>4. Silent(Append(s \o u, e), p) <=> Silent(s \o u, p) /\ p \notin Mentioned(e)
      BY <3>1, TellsAppend
    <3> QED BY <2>2, <3>1, <3>2, <3>3, <3>4
  <2>3. t \in G  BY <2>1, <2>2, EventsInduction
  <2> QED BY <2>3
<1>2. ASSUME NEW A, NEW B, NEW C, Tells(t, p, B, C), ~ Silent(t, p) \/ Tells(s, p, A, B)
      PROVE  Tells(s \o t, p, A, C)
  <2> DEFINE G == {u \in Seq(Events) :
                     /\ Tells(u, p, B, C)
                     /\ ~ Silent(u, p) \/ Tells(s, p, A, B)
                     => Tells(s \o u, p, A, C)}
  <2>1. <<>> \in G  BY TellsNothing
  <2>2. ASSUME NEW u \in Seq(Events), NEW e \in Events, u \in G PROVE Append(u, e) \in G
    <3>1. s \o u \in Seq(Events) /\ Append(u, e) \in Seq(Events)
      OBVIOUS
    <3>2. s \o Append(u, e) = Append(s \o u, e)
      BY ConcatAppend
    <3>3. /\ Silent(Append(u, e), p) <=> Silent(u, p) /\ p \notin Mentioned(e)
          /\ Tells(Append(u, e), p, B, C)
               <=> IF p \in Mentioned(e) THEN Says(e, p) = C ELSE Tells(u, p, B, C)
      BY TellsAppend
    <3>4. Tells(Append(s \o u, e), p, A, C)
            <=> IF p \in Mentioned(e) THEN Says(e, p) = C ELSE Tells(s \o u, p, A, C)
      BY <3>1, TellsAppend
    <3> QED BY <2>2, <3>1, <3>2, <3>3, <3>4
  <2>3. t \in G  BY <2>1, <2>2, EventsInduction
  <2> QED BY <1>2, <2>3
<1> QED BY <1>1, <1>2

\* What events tell of an order is told by those that mention it.
LEMMA TellsFilter ==
  ASSUME NEW s \in Seq(Events), NEW S, NEW p,
         \A e \in ToSet(s) : p \in Mentioned(e) => e \in S
  PROVE  /\ Silent(Where(s, S), p) <=> Silent(s, p)
         /\ \A A, B : Tells(Where(s, S), p, A, B) <=> Tells(s, p, A, B)
<1> SUFFICES ASSUME NEW A, NEW B
             PROVE  /\ Silent(Where(s, S), p) <=> Silent(s, p)
                    /\ Tells(Where(s, S), p, A, B) <=> Tells(s, p, A, B)
  OBVIOUS
<1> DEFINE G == {u \in Seq(Events) :
                   /\ Silent(Where(u, S), p) <=> Silent(u, p)
                   /\ Tells(Where(u, S), p, A, B) <=> Tells(u, p, A, B)}
<1>1. <<>> \in G  BY WhereNothing
<1>2. ASSUME NEW u \in Seq(Events), NEW e \in Events, u \in G, e \in ToSet(s)
      PROVE  Append(u, e) \in G
  <2>1. Append(u, e) \in Seq(Events)  OBVIOUS
  <2>2. Where(u, S) \in Seq(Events)  BY WhereElements
  <2>3. Where(Append(u, e), S) = IF e \in S THEN Append(Where(u, S), e) ELSE Where(u, S)
    BY WhereAppend
  <2>4. /\ Silent(Append(u, e), p) <=> Silent(u, p) /\ p \notin Mentioned(e)
        /\ Tells(Append(u, e), p, A, B)
             <=> IF p \in Mentioned(e) THEN Says(e, p) = B ELSE Tells(u, p, A, B)
    BY TellsAppend
  <2>5. /\ Silent(Append(Where(u, S), e), p) <=> Silent(Where(u, S), p) /\ p \notin Mentioned(e)
        /\ Tells(Append(Where(u, S), e), p, A, B)
             <=> IF p \in Mentioned(e) THEN Says(e, p) = B ELSE Tells(Where(u, S), p, A, B)
    BY <2>2, TellsAppend
  <2>6. p \in Mentioned(e) => e \in S  BY <1>2
  <2> QED BY <1>2, <2>1, <2>3, <2>4, <2>5, <2>6
<1>3. s \in G  BY <1>1, <1>2, EventsInduction
<1> QED BY <1>3

\* The first event is handled.
LEMMA TellsTail ==
  ASSUME NEW s \in Seq(Events), s # <<>>, NEW p
  PROVE  /\ Head(s) \in Events /\ Tail(s) \in Seq(Events)
         /\ Silent(s, p) <=> Silent(Tail(s), p) /\ p \notin Mentioned(Head(s))
         /\ \A A, B : Tells(s, p, A, B) =>
              Tells(Tail(s), p, IF p \in Mentioned(Head(s)) THEN Says(Head(s), p) ELSE A, B)
<1> DEFINE n == Len(s)
           t == Tail(s)
<1>1. /\ n \in Nat \ {0} /\ DOMAIN s = 1 .. n /\ DOMAIN t = 1 .. n - 1 /\ Head(s) = s[1]
      /\ \A i \in 1 .. n - 1 : t[i] = s[i + 1]
      /\ Head(s) \in Events /\ t \in Seq(Events)
  OBVIOUS
<1> HIDE DEF t, n
<1>2. \A i \in 1 .. n : i = 1 \/ (i - 1 \in 1 .. n - 1 /\ (i - 1) + 1 = i)
  BY <1>1
<1>3. 1 \in 1 .. n /\ \A i \in 1 .. n - 1 : i + 1 \in 1 .. n
  BY <1>1
<1>4. \A i \in 2 .. n : i - 1 \in 1 .. n - 1 /\ t[i - 1] = s[i]
  BY <1>1, <1>2
<1>5. Silent(s, p) <=> Silent(t, p) /\ p \notin Mentioned(Head(s))
  <2>1. ASSUME Silent(s, p) PROVE Silent(t, p) /\ p \notin Mentioned(Head(s))
    BY <1>1, <1>3, <2>1 DEF Silent
  <2>2. ASSUME Silent(t, p), p \notin Mentioned(Head(s)) PROVE Silent(s, p)
    <3> SUFFICES ASSUME NEW i \in 1 .. n PROVE p \notin Mentioned(s[i])
      BY <1>1 DEF Silent
    <3>1. CASE i = 1  BY <1>1, <2>2, <3>1
    <3>2. CASE i \in 2 .. n
      BY <1>1, <1>4, <2>2, <3>2 DEF Silent
    <3> QED BY <1>1, <3>1, <3>2
  <2> QED BY <2>1, <2>2
<1>6. ASSUME NEW A, NEW B, Tells(s, p, A, B)
      PROVE  Tells(t, p, IF p \in Mentioned(Head(s)) THEN Says(Head(s), p) ELSE A, B)
  <2>1. CASE Silent(s, p)
    BY <1>6, <2>1, <1>5 DEF Tells, Silent
  <2>2. CASE ~ Silent(s, p)
    <3>1. PICK i \in 1 .. n : /\ p \in Mentioned(s[i]) /\ Says(s[i], p) = B
                              /\ \A j \in 1 .. n : j > i => p \notin Mentioned(s[j])
      BY <1>1, <1>6, <2>2 DEF Tells
    <3>2. CASE i = 1  BY <1>1, <3>2, <3>1 DEF Silent, Tells
    <3>3. CASE i # 1
      <4>1. i - 1 \in 1 .. n - 1 /\ (i - 1) + 1 = i /\ t[i - 1] = s[i]
        BY <1>1, <1>2, <3>3
      <4>2. ASSUME NEW j \in 1 .. n - 1, j > i - 1 PROVE p \notin Mentioned(t[j])
        BY <1>1, <4>2, <3>1
      <4> QED BY <1>1, <3>1, <4>1, <4>2 DEF Tells
    <3> QED BY <3>2, <3>3
  <2> QED BY <2>1, <2>2
<1> QED BY <1>1, <1>5, <1>6 DEF t

\* Events are about some orders only.
About(s, ids) == \A i \in DOMAIN s : Proper(s[i]) /\ Mentioned(s[i]) \subseteq ids

LEMMA AboutAppend ==
  ASSUME NEW s \in Seq(Events), NEW e \in Events, NEW ids
  PROVE  About(Append(s, e), ids) <=> About(s, ids) /\ Proper(e) /\ Mentioned(e) \subseteq ids
<1> DEFINE t == Append(s, e)
           n == Len(s)
<1>1. /\ n \in Nat /\ DOMAIN s = 1 .. n /\ DOMAIN t = 1 .. n + 1 /\ t[n + 1] = e
      /\ \A i \in 1 .. n : t[i] = s[i]
  OBVIOUS
<1> HIDE DEF t, n
<1>2. \A i \in 1 .. n + 1 : i \in 1 .. n \/ i = n + 1  BY <1>1
<1>3. n + 1 \in 1 .. n + 1 /\ \A i \in 1 .. n : i \in 1 .. n + 1
  BY <1>1
<1> QED BY <1>1, <1>2, <1>3 DEF About, t

LEMMA AboutConcat ==
  ASSUME NEW s \in Seq(Events), NEW t \in Seq(Events), NEW ids, About(s, ids), About(t, ids)
  PROVE  About(s \o t, ids)
<1>1. /\ Len(s) \in Nat /\ Len(t) \in Nat /\ DOMAIN s = 1 .. Len(s) /\ DOMAIN t = 1 .. Len(t)
      /\ DOMAIN (s \o t) = 1 .. Len(s) + Len(t)
      /\ \A i \in 1 .. Len(s) + Len(t) :
           (s \o t)[i] = IF i <= Len(s) THEN s[i] ELSE t[i - Len(s)]
  OBVIOUS
<1>2. \A i \in 1 .. Len(s) + Len(t) : i \in 1 .. Len(s) \/ i - Len(s) \in 1 .. Len(t)
  BY <1>1
<1> DEFINE u == s \o t
<1> HIDE DEF u
<1>3. \A i \in 1 .. Len(s) + Len(t) :
        (i \in 1 .. Len(s) /\ u[i] = s[i]) \/ (i - Len(s) \in 1 .. Len(t) /\ u[i] = t[i - Len(s)])
  BY <1>1, <1>2 DEF u
<1>4. About(u, ids)  BY <1>1, <1>3 DEF About, u
<1> QED BY <1>4 DEF u

\* One event, and two
LEMMA TellsOne ==
  ASSUME NEW e \in Events, NEW p, NEW A, NEW B
  PROVE  /\ Silent(<<e>>, p) <=> p \notin Mentioned(e)
         /\ Tells(<<e>>, p, A, B) <=> IF p \in Mentioned(e) THEN Says(e, p) = B ELSE A = B
         /\ \A ids : About(<<e>>, ids) <=> Proper(e) /\ Mentioned(e) \subseteq ids
<1>1. <<>> \in Seq(Events) /\ Append(<<>>, e) = <<e>>  OBVIOUS
<1>2. \A ids : About(<<>>, ids)  BY DEF About
<1>3. /\ Silent(Append(<<>>, e), p) <=> Silent(<<>>, p) /\ p \notin Mentioned(e)
      /\ Tells(Append(<<>>, e), p, A, B)
           <=> IF p \in Mentioned(e) THEN Says(e, p) = B ELSE Tells(<<>>, p, A, B)
  BY <1>1, TellsAppend
<1>4. \A ids : About(Append(<<>>, e), ids) <=> Proper(e) /\ Mentioned(e) \subseteq ids
  BY ONLY <1>1, <1>2, e \in Events, AboutAppend
<1>5. Silent(<<>>, p) /\ (Tells(<<>>, p, A, B) <=> A = B)
  BY TellsNothing
<1> QED BY <1>1, <1>3, <1>4, <1>5

LEMMA TellsTwo ==
  ASSUME NEW e \in Events, NEW d \in Events, NEW p, NEW A, NEW B
  PROVE  /\ Silent(<<e, d>>, p) <=> p \notin Mentioned(e) /\ p \notin Mentioned(d)
         /\ Tells(<<e, d>>, p, A, B)
              <=> IF p \in Mentioned(d) THEN Says(d, p) = B
                  ELSE IF p \in Mentioned(e) THEN Says(e, p) = B ELSE A = B
         /\ \A ids : About(<<e, d>>, ids)
              <=> /\ Proper(e) /\ Mentioned(e) \subseteq ids
                  /\ Proper(d) /\ Mentioned(d) \subseteq ids
<1>1. <<e>> \in Seq(Events) /\ Append(<<e>>, d) = <<e, d>>
  <2>1. <<>> \in Seq(Events) /\ <<>> \o <<e>> = <<e>> /\ <<>> \o <<e, d>> = <<e, d>>
    OBVIOUS
  <2>2. <<>> \o <<e>> = Append(<<>>, e) /\ <<>> \o <<e, d>> = Append(Append(<<>>, e), d)
    BY <2>1, EventsConcat
  <2>3. <<e>> \in Seq(Events)  OBVIOUS
  <2> QED BY <2>1, <2>2, <2>3
<1>2. /\ Silent(Append(<<e>>, d), p) <=> Silent(<<e>>, p) /\ p \notin Mentioned(d)
      /\ Tells(Append(<<e>>, d), p, A, B)
           <=> IF p \in Mentioned(d) THEN Says(d, p) = B ELSE Tells(<<e>>, p, A, B)
  BY <1>1, TellsAppend
<1>3. \A ids : About(Append(<<e>>, d), ids)
                 <=> About(<<e>>, ids) /\ Proper(d) /\ Mentioned(d) \subseteq ids
  BY ONLY <1>1, d \in Events, AboutAppend
<1>4. /\ Silent(<<e>>, p) <=> p \notin Mentioned(e)
      /\ Tells(<<e>>, p, A, B) <=> IF p \in Mentioned(e) THEN Says(e, p) = B ELSE A = B
      /\ \A ids : About(<<e>>, ids) <=> Proper(e) /\ Mentioned(e) \subseteq ids
  BY TellsOne
<1> QED BY <1>1, <1>2, <1>3, <1>4

----------------------------------------------------------------------------
(* What applying an entry of the queue tells *)

\* What the events tell of every order: what is left of it in the book afterwards.
\* Who has heard nothing of lo hears of it now.
TellAll(s, lo, b, c) ==
  /\ s \in Seq(Events) /\ About(s, IdsIn(b) \cup {lo.id}) /\ ~ Silent(s, lo.id)
  /\ \A A : Tells(s, lo.id, A, InBook(c, lo.id))
  /\ \A p : p # lo.id => Tells(s, p, InBook(b, p), InBook(c, p))

LEMMA NotInBook ==
  ASSUME NEW b, NEW p
  PROVE  InBook(b, p) = {} <=> p \notin IdsIn(b)
  BY DEF InBook, IdsIn

LEMMA SameOne == \A x, y : <<x>> = <<y>> => x = y
  OBVIOUS

\* One event that is about the submitted order only
LEMMA TellAllOne ==
  ASSUME NEW lo \in LimitOrders, NEW b, NEW c, NEW e \in Events, Proper(e), Mentioned(e) = {lo.id},
         Says(e, lo.id) = InBook(c, lo.id), \A p : p # lo.id => InBook(c, p) = InBook(b, p)
  PROVE  TellAll(<<e>>, lo, b, c)
<1>1. <<e>> \in Seq(Events)  OBVIOUS
<1>2. \A p, A, B : /\ Silent(<<e>>, p) <=> p \notin Mentioned(e)
                   /\ Tells(<<e>>, p, A, B)
                        <=> IF p \in Mentioned(e) THEN Says(e, p) = B ELSE A = B
  BY TellsOne
<1>3. About(<<e>>, IdsIn(b) \cup {lo.id})  BY TellsOne
<1>4. ~ Silent(<<e>>, lo.id)  BY <1>2
<1>5. \A A : Tells(<<e>>, lo.id, A, InBook(c, lo.id))  BY <1>2
<1>6. \A p : p # lo.id => Tells(<<e>>, p, InBook(b, p), InBook(c, p))
  BY <1>2
<1> QED BY <1>1, <1>3, <1>4, <1>5, <1>6 DEF TellAll

\* A submitted order that is used up by the best counter order does not go on.
LEMMA LastIsUsedUp ==
  ASSUME NEW b, NEW lo, NEW ts, NEW c,
         b[CounterSide(lo)] = <<>> \/ ~ GoesOn(lo, Head(b[CounterSide(lo)]), ts),
         EndMatch(b, lo).events = <<OrderExecuted(lo, c)>>
  PROVE  ~ IsValid(SubmittedRemaining(OrderExecuted(lo, c)))
<1> DEFINE counters == b[CounterSide(lo)]
           h == Head(counters)
           x == OrderExecuted(lo, h)
           y == OrderExecuted(lo, c)
           end == EndMatch(b, lo)
<1>0. y.type = "OrderExecuted" /\ Len(<<y>>) = 1 /\ <<y>>[1] = y
  BY DEF OrderExecuted
<1>1. CASE counters = <<>> \/ ~ CanMatch(lo, h)
  BY <1>1, <1>0 DEF EndMatch, OrderAdded
<1>2. CASE ~ (counters = <<>> \/ ~ CanMatch(lo, h)) /\ ~ IsValidAt(lo, Price(h))
  BY <1>2, SameOne, <1>0 DEF EndMatch, OrderCanceled
<1>3. CASE ~ (counters = <<>> \/ ~ CanMatch(lo, h)) /\ IsValidAt(lo, Price(h))
           /\ IsValid(CounterRemaining(x))
  <2> DEFINE rest == SubmittedRemaining(x)
  <2>1. end.events = IF IsValid(rest) THEN <<x, OrderCanceled(rest, TRUE)>> ELSE <<x>>
    BY <1>3 DEF EndMatch
  <2>2. CASE IsValid(rest)  BY <2>1, <2>2, <1>0
  <2>3. CASE ~ IsValid(rest)  BY <2>1, <2>3
  <2> QED BY <2>2, <2>3
<1>4. CASE ~ (counters = <<>> \/ ~ CanMatch(lo, h)) /\ IsValidAt(lo, Price(h))
           /\ ~ IsValid(CounterRemaining(x))
  BY <1>4 DEF EndMatch, GoesOn
<1> QED BY <1>1, <1>2, <1>3, <1>4

LEMMA LastTells ==
  ASSUME NEW b, GoodBook(b), NEW lo \in LimitOrders, IsValid(lo), lo.id \notin IdsIn(b), NEW ts,
         b[CounterSide(lo)] = <<>> \/ ~ GoesOn(lo, Head(b[CounterSide(lo)]), ts)
  PROVE  TellAll(EndMatch(b, lo).events, lo, b, EndMatch(b, lo).book)
<1> DEFINE end == EndMatch(b, lo)
           ids == IdsIn(b) \cup {lo.id}
<1>1. end.events \in Seq(Events) /\ Outcome(b, lo, end)
  BY EndMatchFacts
<1>2. \A x \in AllOrders(b) : x.id # lo.id  BY DEF IdsIn
<1>3. \A c \in LimitOrders : end.events = <<OrderExecuted(lo, c)>>
        => ~ IsValid(SubmittedRemaining(OrderExecuted(lo, c)))
  BY LastIsUsedUp
<1> HIDE DEF end
<1>4. CASE end.events = <<OrderAdded(lo)>> /\ AllOrders(end.book) = AllOrders(b) \cup {lo}
  <2> DEFINE e == OrderAdded(lo)
  <2>1. e \in Events /\ Proper(e) /\ Mentioned(e) = {lo.id} /\ Says(e, lo.id) = {lo}
    BY AddedSays
  <2>2. InBook(end.book, lo.id) = {lo}
    BY <1>2, <1>4 DEF InBook
  <2>3. \A p : p # lo.id => InBook(end.book, p) = InBook(b, p)
    BY <1>4 DEF InBook
  <2> HIDE DEF e
  <2>4. TellAll(<<e>>, lo, b, end.book)
    BY <2>1, <2>2, <2>3, TellAllOne
  <2> QED BY <1>4, <2>4 DEF end, e
<1>5. CASE end.events = <<OrderCanceled(lo, TRUE)>> /\ AllOrders(end.book) = AllOrders(b)
  <2> DEFINE e == OrderCanceled(lo, TRUE)
  <2>1. e \in Events /\ Proper(e) /\ Mentioned(e) = {lo.id} /\ Says(e, lo.id) = {}
    BY CanceledSays
  <2>2. InBook(end.book, lo.id) = {}  BY <1>2, <1>5 DEF InBook
  <2>3. \A p : InBook(end.book, p) = InBook(b, p)
    BY <1>5 DEF InBook
  <2> HIDE DEF e
  <2>4. TellAll(<<e>>, lo, b, end.book)
    BY <2>1, <2>2, <2>3, TellAllOne
  <2> QED BY <1>5, <2>4 DEF end, e
<1>6. ASSUME NEW c \in AllOrders(b),
             LET x == OrderExecuted(lo, c)
             IN  /\ \/ end.events = <<x>>
                    \/ end.events = <<x, OrderCanceled(SubmittedRemaining(x), TRUE)>>
                 /\ AllOrders(end.book) =
                      (AllOrders(b) \ {c}) \cup {r \in {CounterRemaining(x)} : IsValid(r)}
      PROVE  TellAll(end.events, lo, b, end.book)
  <2> DEFINE x == OrderExecuted(lo, c)
             d == OrderCanceled(SubmittedRemaining(x), TRUE)
  <2>1. c \in LimitOrders /\ c.id # lo.id /\ c.id \in IdsIn(b)
    BY <1>2, GoodBookOrders DEF IdsIn
  <2>2. /\ x \in Events /\ Proper(x) /\ Mentioned(x) = {lo.id, c.id}
        /\ Says(x, lo.id) = {r \in {SubmittedRemaining(x)} : IsValid(r)}
        /\ Says(x, c.id) = {r \in {CounterRemaining(x)} : IsValid(r)}
    BY <2>1, ExecutedSays
  <2>3. /\ SubmittedRemaining(x) \in LimitOrders /\ SubmittedRemaining(x).id = lo.id
        /\ CounterRemaining(x).id = c.id
    BY <2>1, OrderExecutedFacts
  <2>4. d \in Events /\ Proper(d) /\ Mentioned(d) = {lo.id} /\ \A p : Says(d, p) = {}
    BY <2>3, CanceledSays
  <2>5. /\ end.events = <<x>> \/ end.events = <<x, d>>
        /\ AllOrders(end.book) =
             (AllOrders(b) \ {c}) \cup {r \in {CounterRemaining(x)} : IsValid(r)}
    BY <1>6
  <2>6. end.events = <<x>> => Says(x, lo.id) = {}
    BY <1>3, <2>1, <2>2
  <2> HIDE DEF x, d
  <2>7. \A y \in AllOrders(b) : y.id = c.id => y = c
    BY GoodBookIds
  <2>8. InBook(end.book, c.id) = {r \in {CounterRemaining(x)} : IsValid(r)}
    BY <2>3, <2>5, <2>7 DEF InBook
  <2>9. \A p : p # c.id => InBook(end.book, p) = InBook(b, p)
    BY <2>3, <2>5 DEF InBook
  <2>10. InBook(end.book, lo.id) = {}
    BY <1>2, <2>1, <2>9 DEF InBook
  <2>11. ASSUME NEW p, NEW A, p = lo.id \/ A = InBook(b, p)
         PROVE  Tells(end.events, p, A, InBook(end.book, p))
    <3>1. CASE end.events = <<x>>
      <4>1. Tells(<<x>>, p, A, InBook(end.book, p))
              <=> IF p \in Mentioned(x) THEN Says(x, p) = InBook(end.book, p)
                  ELSE A = InBook(end.book, p)
        BY <2>2, TellsOne
      <4> QED BY <2>2, <2>6, <2>8, <2>9, <2>10, <2>11, <3>1, <4>1
    <3>2. CASE end.events = <<x, d>>
      <4>1. Tells(<<x, d>>, p, A, InBook(end.book, p))
              <=> IF p \in Mentioned(d) THEN Says(d, p) = InBook(end.book, p)
                  ELSE IF p \in Mentioned(x) THEN Says(x, p) = InBook(end.book, p)
                  ELSE A = InBook(end.book, p)
        BY <2>2, <2>4, TellsTwo
      <4> QED BY <2>2, <2>4, <2>8, <2>9, <2>10, <2>11, <3>2, <4>1
    <3> QED BY <2>5, <3>1, <3>2
  <2>12. About(end.events, ids) /\ ~ Silent(end.events, lo.id)
    <3>1. Mentioned(x) \subseteq ids /\ (d \in Events => Mentioned(d) \subseteq ids)
      BY <2>1, <2>2, <2>4
    <3>2. About(<<x>>, ids) /\ ~ Silent(<<x>>, lo.id)
      BY <2>2, <3>1, TellsOne
    <3>3. About(<<x, d>>, ids) /\ ~ Silent(<<x, d>>, lo.id)
      <4> x \in Events /\ d \in Events  BY <2>2, <2>4
      <4>1. \A i : About(<<x, d>>, i) <=> /\ Proper(x) /\ Mentioned(x) \subseteq i
                                         /\ Proper(d) /\ Mentioned(d) \subseteq i
        BY ONLY x \in Events, d \in Events, TellsTwo
      <4>2. Silent(<<x, d>>, lo.id) <=> lo.id \notin Mentioned(x) /\ lo.id \notin Mentioned(d)
        BY ONLY x \in Events, d \in Events, TellsTwo
      <4>3. About(<<x, d>>, ids)  BY <2>2, <2>4, <3>1, <4>1
      <4>4. lo.id \in Mentioned(x)  BY <2>2
      <4> QED BY <4>2, <4>3, <4>4
    <3> QED BY <2>5, <3>2, <3>3
  <2> QED BY <1>1, <2>11, <2>12 DEF TellAll
<1> QED BY <1>1, <1>4, <1>5, <1>6 DEF Outcome, end

\* A counter order that the submitted order goes past is ended.
LEMMA RoundTells ==
  ASSUME NEW left \in LimitOrders, NEW c \in LimitOrders, left.id # c.id, NEW ts,
         GoesOn(left, c, ts)
  PROVE  LET e == RoundEvent(left, c, ts)
         IN  /\ e \in Events /\ Proper(e) /\ Says(e, c.id) = {}
             /\ c.id \in Mentioned(e) /\ Mentioned(e) \subseteq {left.id, c.id}
<1>1. CASE IsAlive(c, ts)
  <2> DEFINE e == OrderExecuted(left, c)
  <2>1. RoundEvent(left, c, ts) = e  BY <1>1 DEF RoundEvent
  <2>2. /\ e \in Events /\ Proper(e) /\ Mentioned(e) = {left.id, c.id}
        /\ Says(e, c.id) = {x \in {CounterRemaining(e)} : IsValid(x)}
    BY ExecutedSays
  <2>3. ~ IsValid(CounterRemaining(e))  BY <1>1 DEF GoesOn
  <2> HIDE DEF e
  <2> QED BY <2>1, <2>2, <2>3
<1>2. CASE ~ IsAlive(c, ts)
  BY <1>2, CanceledSays DEF RoundEvent
<1> QED BY <1>1, <1>2

\* The rounds but the last, for the orders of the book
LEMMA PassingTells ==
  ASSUME NEW b, GoodBook(b), NEW lo \in LimitOrders, lo.id \notin IdsIn(b), NEW ts
  PROVE  LET ev == PassingEvents(lo, b[CounterSide(lo)], ts)
         IN  /\ ev \in Seq(Events) /\ About(ev, IdsIn(b) \cup {lo.id})
             /\ \A p : p # lo.id => Tells(ev, p, InBook(b, p), InBook(BookPast(b, lo, ts), p))
<1> DEFINE counters == b[CounterSide(lo)]
           left == Leftovers(lo, counters, ts)
           N == Passed(lo, counters, ts)
           s == SubSeq(counters, N + 1, Len(counters))
           c == BookPast(b, lo, ts)
           ev == PassingEvents(lo, counters, ts)
<1>1. CounterSide(lo) \in Side /\ SideOf(lo) \in Side /\ SideOf(lo) # CounterSide(lo)
  BY CounterSideFacts
<1>2. counters \in Seq(LimitOrders) /\ GoodSide(counters, CounterSide(lo)) /\ Len(counters) \in Nat
      /\ DOMAIN counters = 1 .. Len(counters)
  BY <1>1 DEF GoodBook, GoodSide
<1>3. AllOrders(b) = ToSet(counters) \cup ToSet(b[SideOf(lo)])
  BY <1>1, AllOrdersOf
<1>4. \A k \in 0 .. Len(counters) : left[k] \in LimitOrders /\ left[k].id = lo.id
  BY <1>2, LeftoversFacts
<1>5. N \in 0 .. Len(counters) /\ \A k \in 0 .. N - 1 : GoesOn(left[k], counters[k + 1], ts)
  BY <1>2, PassedFacts
<1>6. ev \in Seq(Events)  BY <1>2, PassingFacts
<1>7. ev = [k \in 1 .. N |-> RoundEvent(left[k - 1], counters[k], ts)]
  BY DEF PassingEvents, RoundEvent
<1>8. AllOrders(c) = ToSet(s) \cup ToSet(b[SideOf(lo)])
  <2>1. c = WithSide(b, CounterSide(lo), s)  BY DEF BookPast
  <2>2. GoodSide(s, CounterSide(lo)) /\ ToSet(s) \subseteq ToSet(counters)
    BY <1>2, <1>5, GoodSideFrom
  <2>3. \A x \in ToSet(s) : \E y \in ToSet(b[CounterSide(lo)]) : Price(x) = Price(y)
    BY <2>2
  <2> HIDE DEF s, c
  <2> QED BY <2>1, <2>2, <2>3, GoodBookCounters
<1> HIDE DEF left, N, ev, counters, c
<1>9. DOMAIN s = 1 .. Len(counters) - N /\ \A i \in DOMAIN s : s[i] = counters[N + i]
  BY <1>2, <1>5
<1> HIDE DEF s
<1>10. \A k \in 1 .. N : k \in DOMAIN counters /\ k - 1 \in 0 .. N - 1 /\ k - 1 \in 0 .. Len(counters)
                         /\ (k - 1) + 1 = k
  BY <1>2, <1>5
<1>11. \A k \in DOMAIN counters : counters[k] \in LimitOrders /\ counters[k] \in AllOrders(b)
         /\ counters[k].id \in IdsIn(b) /\ counters[k].id # lo.id
  BY <1>2, <1>3 DEF ToSet, IdsIn
<1>12. DOMAIN ev = 1 .. N /\ \A k \in 1 .. N : ev[k] = RoundEvent(left[k - 1], counters[k], ts)
  BY <1>7
<1>13. ASSUME NEW k \in 1 .. N
       PROVE  /\ Proper(ev[k]) /\ Says(ev[k], counters[k].id) = {}
              /\ counters[k].id \in Mentioned(ev[k])
              /\ Mentioned(ev[k]) \subseteq {lo.id, counters[k].id}
  <2>1. left[k - 1] \in LimitOrders /\ left[k - 1].id = lo.id
    BY <1>4, <1>10
  <2>2. GoesOn(left[k - 1], counters[k], ts)  BY <1>5, <1>10
  <2>3. counters[k] \in LimitOrders /\ left[k - 1].id # counters[k].id
    BY <1>10, <1>11, <2>1
  <2>4. LET e == RoundEvent(left[k - 1], counters[k], ts)
        IN  /\ e \in Events /\ Proper(e) /\ Says(e, counters[k].id) = {}
            /\ counters[k].id \in Mentioned(e) /\ Mentioned(e) \subseteq {left[k - 1].id, counters[k].id}
    BY <2>1, <2>2, <2>3, RoundTells
  <2> QED BY <1>12, <2>1, <2>4
<1>14. \A j, k \in DOMAIN counters : j # k => counters[j].id # counters[k].id
  BY <1>2 DEF GoodSide
<1>15. About(ev, IdsIn(b) \cup {lo.id})
  BY <1>10, <1>11, <1>12, <1>13 DEF About
<1>16. ASSUME NEW p, p # lo.id, NEW k \in 1 .. N, counters[k].id = p
       PROVE  Tells(ev, p, InBook(b, p), InBook(c, p))
  <2>1. ASSUME NEW y \in AllOrders(c), y.id = p PROVE FALSE
    <3>1. counters[k] \in AllOrders(b) /\ SideOf(counters[k]) = CounterSide(lo)
      BY <1>2, <1>10, <1>11 DEF GoodSide
    <3>2. CASE y \in ToSet(s)
      <4>1. PICK i \in DOMAIN s : y = s[i]  BY <3>2 DEF ToSet
      <4>2. N + i \in DOMAIN counters /\ N + i # k /\ y = counters[N + i]
        BY <1>2, <1>5, <1>9, <4>1
      <4> QED BY <1>10, <1>14, <1>16, <2>1, <4>2
    <3>3. CASE y \in ToSet(b[SideOf(lo)])
      BY <1>1, <3>3, GoodBookSides, <1>3, <1>16, <2>1, <3>1, GoodBookIds
    <3> QED BY <1>8, <3>2, <3>3
  <2>2. InBook(c, p) = {}  BY <2>1 DEF InBook
  <2>3. \A j \in DOMAIN ev : j > k => p \notin Mentioned(ev[j])
    BY <1>10, <1>12, <1>13, <1>14, <1>16
  <2> QED BY <1>12, <1>13, <1>16, <2>2, <2>3 DEF Tells
<1>17. ASSUME NEW p, p # lo.id, \A k \in 1 .. N : counters[k].id # p
       PROVE  Tells(ev, p, InBook(b, p), InBook(c, p))
  <2>1. Silent(ev, p)  BY <1>12, <1>13, <1>17 DEF Silent
  <2>2. ASSUME NEW y, y.id = p PROVE y \in AllOrders(b) <=> y \in AllOrders(c)
    <3>1. ASSUME y \in ToSet(counters) PROVE y \in ToSet(s)
      <4>1. PICK j \in DOMAIN counters : y = counters[j]
        BY <3>1 DEF ToSet
      <4>2. ~ j \in 1 .. N  BY <1>17, <2>2, <4>1
      <4>3. j - N \in DOMAIN s /\ N + (j - N) = j
        BY <1>2, <1>5, <1>9, <4>2
      <4> QED BY <1>9, <4>1, <4>3 DEF ToSet
    <3>2. ASSUME y \in ToSet(s) PROVE y \in ToSet(counters)
      BY <3>2, <1>2, <1>5, <1>9 DEF ToSet
    <3> QED BY <1>3, <1>8, <3>1, <3>2
  <2>3. InBook(b, p) = InBook(c, p)  BY <2>2 DEF InBook
  <2> QED BY <2>1, <2>3 DEF Tells
<1>18. \A p : p # lo.id => Tells(ev, p, InBook(b, p), InBook(c, p))
  BY <1>16, <1>17
<1> QED BY <1>6, <1>15, <1>18 DEF ev, c, counters

\* The best of the counter orders left does not let the submitted order past.
LEMMA PastStops ==
  ASSUME NEW b, GoodBook(b), NEW lo \in LimitOrders, NEW ts
  PROVE  LET s == BookPast(b, lo, ts)[CounterSide(lo)]
         IN  s = <<>> \/ ~ GoesOn(LeftPast(b, lo, ts), Head(s), ts)
<1> DEFINE counters == b[CounterSide(lo)]
           N == Passed(lo, counters, ts)
           s == SubSeq(counters, N + 1, Len(counters))
<1>1. CounterSide(lo) \in Side  BY CounterSideFacts
<1>2. counters \in Seq(LimitOrders) /\ Len(counters) \in Nat
  BY <1>1 DEF GoodBook
<1>3. N \in 0 .. Len(counters)
      /\ (N < Len(counters) => ~ GoesOn(Leftovers(lo, counters, ts)[N], counters[N + 1], ts))
  BY <1>2, PassedFacts
<1>4. BookPast(b, lo, ts)[CounterSide(lo)] = s
  BY <1>1 DEF BookPast, WithSide, GoodBook
<1>5. LeftPast(b, lo, ts) = Leftovers(lo, counters, ts)[N]
  BY DEF LeftPast
<1> HIDE DEF N, counters
<1>6. CASE N = Len(counters)  BY <1>2, <1>6, <1>4
<1>7. CASE N < Len(counters)  BY <1>2, <1>3, <1>7, <1>4, <1>5
<1> QED BY <1>2, <1>3, <1>6, <1>7

\* Adding an order tells of every order what is left of it in the book.
LEMMA AddTells ==
  ASSUME NEW b, GoodBook(b), NEW o \in Id, o \notin IdsIn(b), NEW ts
  PROVE  TellAll(Add(b, o, ts).events, LimitOrder(o), b, Add(b, o, ts).book)
<1> DEFINE lo == LimitOrder(o)
           b1 == BookPast(b, lo, ts)
           l1 == LeftPast(b, lo, ts)
           end == EndMatch(b1, l1)
           ev == PassingEvents(lo, b[CounterSide(lo)], ts)
           r == Add(b, o, ts)
<1>1. lo \in LimitOrders /\ IsValid(lo) /\ lo.id = o
  BY LimitOrderFacts DEF LimitOrder
<1> HIDE DEF lo
<1>2. CASE ~ IsAlive(lo, ts)
  <2> DEFINE e == OrderCanceled(lo, FALSE)
  <2>1. r.book = b /\ r.events = <<e>>
    BY <1>2 DEF Add, DoMatch, lo
  <2>2. e \in Events /\ Proper(e) /\ Mentioned(e) = {lo.id} /\ Says(e, lo.id) = {}
    BY <1>1, CanceledSays
  <2> HIDE DEF e
  <2>3. InBook(b, lo.id) = {}  BY <1>1, NotInBook
  <2>4. TellAll(<<e>>, lo, b, b)
    BY <1>1, <2>2, <2>3, TellAllOne
  <2> QED BY <2>1, <2>4 DEF lo
<1>3. CASE IsAlive(lo, ts)
  <2>1. /\ GoodBook(b1) /\ AllOrders(b1) \subseteq AllOrders(b)
        /\ l1 \in LimitOrders /\ l1.id = lo.id /\ IsValid(l1) /\ l1.id \notin IdsIn(b1)
    BY <1>1, PastFacts
  <2>2. r.book = end.book /\ r.events = ev \o end.events
    <3>1. r = DoMatch(b, lo, ts)  BY DEF Add, lo
    <3>2. r = [book |-> end.book, events |-> ev \o end.events]
      BY <1>3, <3>1, DoMatchIs
    <3> HIDE DEF r, end, ev
    <3> QED BY <3>2
  <2>3. b1[CounterSide(l1)] = <<>> \/ ~ GoesOn(l1, Head(b1[CounterSide(l1)]), ts)
    BY <2>1, <1>1, PastStops DEF CounterSide, IsBuy
  <2>4. /\ ev \in Seq(Events) /\ About(ev, IdsIn(b) \cup {lo.id})
        /\ \A p : p # lo.id => Tells(ev, p, InBook(b, p), InBook(b1, p))
    BY <1>1, PassingTells
  <2> HIDE DEF b1, l1, ev
  <2>5. TellAll(end.events, l1, b1, end.book)
    BY <2>1, <2>3, LastTells
  <2> HIDE DEF end, r
  <2>6. /\ end.events \in Seq(Events) /\ About(end.events, IdsIn(b) \cup {lo.id})
        /\ ~ Silent(end.events, lo.id)
        /\ \A A : Tells(end.events, lo.id, A, InBook(end.book, lo.id))
        /\ \A p : p # lo.id => Tells(end.events, p, InBook(b1, p), InBook(end.book, p))
    BY <2>1, <2>5 DEF IdsIn, TellAll, About
  <2>7. ev \o end.events \in Seq(Events) /\ About(ev \o end.events, IdsIn(b) \cup {lo.id})
    BY ONLY <2>4, <2>6, AboutConcat, ConcatProperties
  <2>8. ASSUME NEW p
        PROVE  /\ Silent(ev \o end.events, p) <=> Silent(ev, p) /\ Silent(end.events, p)
               /\ \A A, B, C : /\ Tells(end.events, p, B, C)
                               /\ ~ Silent(end.events, p) \/ Tells(ev, p, A, B)
                               => Tells(ev \o end.events, p, A, C)
    BY ONLY <2>4, <2>6, TellsConcat
  <2>9. ~ Silent(ev \o end.events, lo.id)  BY <2>6, <2>8
  <2>10. \A A : Tells(ev \o end.events, lo.id, A, InBook(end.book, lo.id))
    BY <2>6, <2>8
  <2>11. \A p : p # lo.id => Tells(ev \o end.events, p, InBook(b, p), InBook(end.book, p))
    BY <2>4, <2>6, <2>8
  <2>12. TellAll(ev \o end.events, lo, b, end.book)
    BY <2>7, <2>9, <2>10, <2>11 DEF TellAll
  <2> QED BY <2>2, <2>12 DEF r, lo
<1> QED BY <1>2, <1>3

\* An order that is cancelled is ended if the book has it.
LEMMA CancelTells ==
  ASSUME NEW b, GoodBook(b), NEW o \in Id
  PROVE  LET r == Cancel(b, o)
         IN  /\ r.events \in Seq(Events) /\ About(r.events, IdsIn(b))
             /\ \A p : Tells(r.events, p, InBook(b, p), InBook(r.book, p))
             /\ o \in IdsIn(b) => \E i \in DOMAIN r.events : Ends(r.events[i], o)
<1> DEFINE r == Cancel(b, o)
           side == b[Orders[o].orderType]
           places == {i \in DOMAIN side : side[i].id = o}
           place == CHOOSE i \in places : TRUE
           lo == side[place]
           e == OrderCanceled(lo, FALSE)
<1>1. /\ r.events \in Seq(Events) /\ AllOrders(r.book) \subseteq AllOrders(b)
      /\ \A x \in AllOrders(b) : x.id # o => x \in AllOrders(r.book)
      /\ \A x \in AllOrders(r.book) : x.id # o
  BY CancelFacts
<1>2. InBook(r.book, o) = {} /\ \A p : p # o => InBook(r.book, p) = InBook(b, p)
  BY <1>1 DEF InBook
<1>3. CASE places = {}
  BY <1>3, <1>1, TellsNothing DEF Cancel, IdsIn, About
<1>4. CASE places # {}
  <2>1. place \in places  BY <1>4
  <2>2. r.events = <<e>>  BY <1>4 DEF Cancel
  <2>3. Orders[o].orderType \in Side  BY OrderFacts
  <2>4. lo \in LimitOrders /\ lo.id = o /\ lo \in AllOrders(b)
    <3>1. side \in Seq(LimitOrders)  BY <2>3 DEF GoodBook
    <3> HIDE DEF place
    <3> QED BY <2>1, <2>3, <3>1 DEF AllOrders, ToSet, Side
  <2> HIDE DEF lo
  <2>5. e \in Events /\ Proper(e) /\ Mentioned(e) = {o} /\ \A p : Says(e, p) = {}
    BY <2>4, CanceledSays
  <2> HIDE DEF e, r
  <2>6. About(<<e>>, IdsIn(b))
    BY <2>4, <2>5, TellsOne DEF IdsIn
  <2>7. \A p : Tells(<<e>>, p, InBook(b, p), InBook(r.book, p))
    <3>1. \A p : Tells(<<e>>, p, InBook(b, p), InBook(r.book, p))
             <=> IF p \in Mentioned(e) THEN Says(e, p) = InBook(r.book, p)
                 ELSE InBook(b, p) = InBook(r.book, p)
      BY <2>5, TellsOne
    <3> QED BY <1>2, <2>5, <3>1
  <2>8. 1 \in DOMAIN <<e>> /\ Ends(<<e>>[1], o)
    BY <2>5 DEF Ends
  <2> QED BY <1>1, <2>2, <2>6, <2>7, <2>8 DEF r
<1> QED BY <1>3, <1>4

----------------------------------------------------------------------------
(* What an actor takes to be left of its orders *)

\* The actor x of w and the actor y it is after lo is what an execution has left
ViewAfter(x, w, lo, y) ==
  LET mine == Sender(lo.id) = w
  IN  /\ y \in ActorState
      /\ \A p : ActiveOf(y, p) = IF mine /\ p = lo.id THEN {l \in {lo} : IsValid(l)} ELSE ActiveOf(x, p)
      /\ \A o \in DOMAIN y.active : o \in DOMAIN x.active \/ (mine /\ o = lo.id)
      /\ y.pendingPlacement = IF mine THEN x.pendingPlacement \ {lo.id} ELSE x.pendingPlacement
      /\ y.pendingCancellation = IF mine /\ ~ IsValid(lo) THEN x.pendingCancellation \ {lo.id}
                                 ELSE x.pendingCancellation

LEMMA ExecutedView ==
  ASSUME NEW x \in ActorState, NEW w, NEW lo \in LimitOrders
  PROVE  ViewAfter(x, w, lo, HandleOrderExecuted(x, w, lo))
<1> DEFINE r == Release(x, lo.id)
           c == ConfirmPlacement(r, lo.id)
           y == HandleOrderExecuted(x, w, lo)
<1>0. lo.id \in Id  BY DEF LimitOrders
<1>1. y \in ActorState /\ ActiveAfter(x, w, lo, y)
  BY ExecutedHandled
<1>2. /\ r \in ActorState /\ r.pendingPlacement = x.pendingPlacement
      /\ r.pendingCancellation = x.pendingCancellation
  BY ReleaseFacts
<1>3. CASE Sender(lo.id) # w
  BY <1>3, <1>1 DEF HandleOrderExecuted, ViewAfter
<1>4. CASE Sender(lo.id) = w /\ IsValid(lo)
  BY <1>4, <1>2, AddedFacts, <1>1 DEF HandleOrderExecuted, ActiveAfter, ActiveOf, y, ViewAfter
<1>5. CASE Sender(lo.id) = w /\ ~ IsValid(lo)
  BY <1>5, <1>2, ConfirmFacts, <1>0, TerminatedFacts, <1>1 DEF HandleOrderExecuted, y, r, c,
     ActiveAfter, ActiveOf, ViewAfter
<1> QED BY <1>3, <1>4, <1>5

LEMMA CanceledView ==
  ASSUME NEW x \in ActorState, NEW o \in Id
  PROVE  LET y == HandleOrderCanceled(x, o)
         IN  /\ \A p : ActiveOf(y, p) = IF p = o THEN {} ELSE ActiveOf(x, p)
             /\ DOMAIN y.active \subseteq DOMAIN x.active
             /\ y.pendingPlacement = x.pendingPlacement \ {o}
             /\ y.pendingCancellation = x.pendingCancellation \ {o}
<1> DEFINE c == ConfirmPlacement(x, o)
           d == [c EXCEPT !.pendingCancellation = @ \ {o}]
           r == Release(d, o)
           y == HandleOrderCanceled(x, o)
<1>1. /\ c \in ActorState /\ c.pendingPlacement = x.pendingPlacement \ {o}
      /\ c.pendingCancellation = x.pendingCancellation
  BY ConfirmFacts
<1> HIDE DEF c
<1>2. /\ d \in ActorState /\ d.pendingPlacement = x.pendingPlacement \ {o}
      /\ d.pendingCancellation = x.pendingCancellation \ {o}
  BY <1>1 DEF ActorState
<1> HIDE DEF d
<1>3. DOMAIN y.active = DOMAIN x.active \ {o} /\ \A p \in DOMAIN y.active : y.active[p] = x.active[p]
  BY CanceledHandled
<1>4. \A p : ActiveOf(y, p) = IF p = o THEN {} ELSE ActiveOf(x, p)
  BY <1>3 DEF ActiveOf
<1>5. y.pendingPlacement = d.pendingPlacement /\ y.pendingCancellation = x.pendingCancellation \ {o}
  <2>1. CASE o \in DOMAIN x.active
    <3>1. y = HandleOrderTerminated(r, o)
      BY <2>1 DEF HandleOrderCanceled, c, d
    <3>2. /\ r \in ActorState /\ r.pendingPlacement = d.pendingPlacement
          /\ r.pendingCancellation = d.pendingCancellation
      BY <1>2, ReleaseFacts
    <3> HIDE DEF r
    <3>3. LET z == HandleOrderTerminated(r, o)
          IN  /\ z.pendingPlacement = r.pendingPlacement
              /\ z.pendingCancellation = r.pendingCancellation \ {o}
      BY <3>2, TerminatedFacts
    <3> HIDE DEF y
    <3> QED BY <1>2, <3>1, <3>2, <3>3
  <2>2. CASE o \notin DOMAIN x.active
    BY <2>2, <1>2 DEF HandleOrderCanceled, c, d
  <2> QED BY <2>1, <2>2
<1> QED BY <1>2, <1>3, <1>4, <1>5

\* An actor that handles an event takes to be left of its orders what the event
\* says, and forgets the promises that the event keeps.
LEMMA HandleView ==
  ASSUME NEW x \in ActorState, NEW w, NEW e \in Events, Proper(e), w \in Parties(e)
  PROVE  LET y == Handle(x, w, e)
         IN  /\ \A p \in Id : Sender(p) = w =>
                  /\ ActiveOf(y, p) = IF p \in Mentioned(e) THEN Says(e, p) ELSE ActiveOf(x, p)
                  /\ p \in y.pendingPlacement => p \in x.pendingPlacement /\ p \notin Mentioned(e)
                  /\ p \in y.pendingCancellation <=> p \in x.pendingCancellation /\ ~ Ends(e, p)
             /\ \A o \in DOMAIN y.active : o \in DOMAIN x.active \/ Sender(o) = w
<1> DEFINE y == Handle(x, w, e)
<1>1. CASE e.type = "OrderAdded"
  <2>1. e.lo \in LimitOrders /\ Sender(e.lo.id) = w
    BY <1>1 DEF Events, Parties
  <2> DEFINE r == Release(x, e.lo.id)
  <2>2. /\ r \in ActorState /\ r.active = x.active
        /\ r.pendingPlacement = x.pendingPlacement /\ r.pendingCancellation = x.pendingCancellation
    BY ReleaseFacts
  <2>3. y = HandleOrderAdded(r, e.lo)  BY <1>1 DEF Handle
  <2> HIDE DEF r
  <2>4. LET z == HandleOrderAdded(r, e.lo)
        IN  /\ DOMAIN z.active = DOMAIN r.active \cup {e.lo.id} /\ z.active[e.lo.id] = e.lo
            /\ \A o \in DOMAIN r.active : o # e.lo.id => z.active[o] = r.active[o]
            /\ z.pendingPlacement = r.pendingPlacement \ {e.lo.id}
            /\ z.pendingCancellation = r.pendingCancellation
    BY <2>1, <2>2, AddedFacts
  <2> HIDE DEF y
  <2>5. /\ DOMAIN y.active = DOMAIN x.active \cup {e.lo.id} /\ y.active[e.lo.id] = e.lo
        /\ \A o \in DOMAIN x.active : o # e.lo.id => y.active[o] = x.active[o]
        /\ y.pendingPlacement = x.pendingPlacement \ {e.lo.id}
        /\ y.pendingCancellation = x.pendingCancellation
    BY <2>2, <2>3, <2>4
  <2>6. Mentioned(e) = {e.lo.id} /\ Says(e, e.lo.id) = {e.lo}
    BY <1>1 DEF Mentioned, Says, LeftBy
  <2>7. ActiveOf(y, e.lo.id) = {e.lo} /\ \A p : p # e.lo.id => ActiveOf(y, p) = ActiveOf(x, p)
    BY <2>5 DEF ActiveOf
  <2> QED BY <2>1, <2>5, <2>6, <2>7 DEF y, Ends
<1>2. CASE e.type = "OrderExecuted"
  <2> DEFINE s == SubmittedRemaining(e)
             c == CounterRemaining(e)
             z == HandleOrderExecuted(x, w, s)
  <2>1. s \in LimitOrders /\ c \in LimitOrders /\ s.id = e.submitted.id /\ c.id = e.counter.id
    BY <1>2, RemainingTyped DEF Events, SubmittedRemaining, CounterRemaining
  <2>2. y = HandleOrderExecuted(z, w, c)  BY <1>2 DEF Handle
  <2>3. /\ Mentioned(e) = {s.id, c.id} /\ s.id # c.id
        /\ LeftBy(e) = {l \in {s, c} : IsValid(l)}
    BY <1>2, <2>1 DEF Mentioned, Proper, LeftBy
  <2> HIDE DEF s, c
  <2>4. /\ Says(e, s.id) = {l \in {s} : IsValid(l)} /\ Says(e, c.id) = {l \in {c} : IsValid(l)}
    BY <2>3 DEF Says
  <2>5. /\ z \in ActorState
        /\ \A p : ActiveOf(z, p) = IF Sender(s.id) = w /\ p = s.id THEN {l \in {s} : IsValid(l)}
                                   ELSE ActiveOf(x, p)
        /\ \A o \in DOMAIN z.active : o \in DOMAIN x.active \/ (Sender(s.id) = w /\ o = s.id)
        /\ z.pendingPlacement =
             IF Sender(s.id) = w THEN x.pendingPlacement \ {s.id} ELSE x.pendingPlacement
        /\ z.pendingCancellation =
             IF Sender(s.id) = w /\ ~ IsValid(s) THEN x.pendingCancellation \ {s.id}
             ELSE x.pendingCancellation
    <3>1. ViewAfter(x, w, s, z)  BY <2>1, ExecutedView
    <3> HIDE DEF z
    <3> QED BY <3>1 DEF ViewAfter
  <2> HIDE DEF z
  <2>6. ViewAfter(z, w, c, y)
    BY <2>1, <2>2, <2>5, ExecutedView
  <2> HIDE DEF y
  <2>7. /\ \A p : ActiveOf(y, p) = IF Sender(c.id) = w /\ p = c.id THEN {l \in {c} : IsValid(l)}
                                   ELSE ActiveOf(z, p)
        /\ \A o \in DOMAIN y.active : o \in DOMAIN z.active \/ (Sender(c.id) = w /\ o = c.id)
        /\ y.pendingPlacement =
             IF Sender(c.id) = w THEN z.pendingPlacement \ {c.id} ELSE z.pendingPlacement
        /\ y.pendingCancellation =
             IF Sender(c.id) = w /\ ~ IsValid(c) THEN z.pendingCancellation \ {c.id}
             ELSE z.pendingCancellation
    BY <2>6 DEF ViewAfter
  <2>8. \A o \in DOMAIN y.active : o \in DOMAIN x.active \/ Sender(o) = w
    BY <2>5, <2>7
  <2>9. ASSUME NEW p \in Id, Sender(p) = w
        PROVE  /\ ActiveOf(y, p) = IF p \in Mentioned(e) THEN Says(e, p) ELSE ActiveOf(x, p)
               /\ p \in y.pendingPlacement => p \in x.pendingPlacement /\ p \notin Mentioned(e)
               /\ p \in y.pendingCancellation <=> p \in x.pendingCancellation /\ ~ Ends(e, p)
    <3>1. CASE p = s.id
      <4>1. Ends(e, p) <=> ~ IsValid(s)
        BY <2>3, <2>4, <3>1 DEF Ends
      <4> QED BY <2>3, <2>4, <2>5, <2>7, <2>9, <3>1, <4>1
    <3>2. CASE p = c.id
      <4>1. Ends(e, p) <=> ~ IsValid(c)
        BY <2>3, <2>4, <3>2 DEF Ends
      <4> QED BY <2>3, <2>4, <2>5, <2>7, <2>9, <3>2, <4>1
    <3>3. CASE p # s.id /\ p # c.id
      BY <2>3, <3>3, <2>5, <2>7 DEF Ends
    <3> QED BY <3>1, <3>2, <3>3
  <2> QED BY <2>8, <2>9 DEF y
<1>3. CASE e.type = "OrderCanceled"
  <2>1. e.lo \in LimitOrders /\ e.lo.id \in Id
    BY <1>3 DEF Events, LimitOrders
  <2>2. y = HandleOrderCanceled(x, e.lo.id)
    BY <1>3 DEF Handle
  <2>3. LET z == HandleOrderCanceled(x, e.lo.id)
        IN  /\ \A p : ActiveOf(z, p) = IF p = e.lo.id THEN {} ELSE ActiveOf(x, p)
            /\ DOMAIN z.active \subseteq DOMAIN x.active
            /\ z.pendingPlacement = x.pendingPlacement \ {e.lo.id}
            /\ z.pendingCancellation = x.pendingCancellation \ {e.lo.id}
    BY <2>1, CanceledView
  <2> HIDE DEF y
  <2>4. /\ \A p : ActiveOf(y, p) = IF p = e.lo.id THEN {} ELSE ActiveOf(x, p)
        /\ DOMAIN y.active \subseteq DOMAIN x.active
        /\ y.pendingPlacement = x.pendingPlacement \ {e.lo.id}
        /\ y.pendingCancellation = x.pendingCancellation \ {e.lo.id}
    BY <2>2, <2>3
  <2>5. Mentioned(e) = {e.lo.id} /\ \A p : Says(e, p) = {}
    BY <1>3 DEF Mentioned, Says, LeftBy
  <2> QED BY <2>4, <2>5 DEF y, Ends
<1> QED BY <1>1, <1>2, <1>3 DEF Events

----------------------------------------------------------------------------
(* The invariant of what is under way *)

\* An entry that is still to be applied
Waits(q, done, e) == \E i \in done + 1 .. Len(q) : q[i].event = e

\* Unless it is still to be placed, what an actor takes to be left of an order
\* becomes, with the events on their way, what is left of it in the book.
ViewInv(q, done, b, msgs, act, lost) ==
  \A p \in Id :
    \/ Placed(p) \in lost
    \/ Waits(q, done, Placed(p))
    \/ Tells(msgs[Sender(p)], p, ActiveOf(act[Sender(p)], p), InBook(b, p))

MailInv(q, done, msgs) ==
  \A w \in Owner : /\ About(msgs[w], PlacedIn(q, done))
                   /\ \A i \in DOMAIN msgs[w] : w \in Parties(msgs[w][i])

OwnInv(act) == \A w \in Owner : \A o \in DOMAIN act[w].active : Sender(o) = w

\* An order that could not be stored stays active and is never stored.
FailedInv(q, act, lost) ==
  \A p \in Id : Placed(p) \in lost =>
    p \notin PlacedIn(q, Len(q)) /\ p \in DOMAIN act[Sender(p)].active

\* A promise to place an order is kept by an entry or an event on its way.
PlaceInv(q, done, msgs, act, lost) ==
  \A p \in Id : p \in act[Sender(p)].pendingPlacement =>
    \/ Placed(p) \in lost
    \/ Waits(q, done, Placed(p))
    \/ ~ Silent(msgs[Sender(p)], p)

\* So is a promise to cancel one, which is active until then.
CancelInv(q, done, msgs, act, lost) ==
  \A p \in Id : p \in act[Sender(p)].pendingCancellation =>
    /\ p \in DOMAIN act[Sender(p)].active
    /\ \/ {Placed(p), Canceled(p)} \cap lost # {}
       \/ \E j \in done + 1 .. Len(q) : q[j].event = Canceled(p) /\ p \in PlacedIn(q, j)
       \/ \E i \in DOMAIN msgs[Sender(p)] : Ends(msgs[Sender(p)][i], p)

UnderWay(q, done, b, msgs, act, lost) ==
  /\ ViewInv(q, done, b, msgs, act, lost)
  /\ MailInv(q, done, msgs)
  /\ OwnInv(act)
  /\ FailedInv(q, act, lost)
  /\ PlaceInv(q, done, msgs, act, lost)
  /\ CancelInv(q, done, msgs, act, lost)

RestInv == UnderWay(queue, processed, book, mail, actor, failed)
RestInvNext == UnderWay(queue', processed', book', mail', actor', failed')

LEMMA RestNext == RestInvNext => RestInv'
  BY DEF RestInvNext, RestInv

LEMMA RequestKinds ==
  \A o, p : Placed(o) # Canceled(p) /\ (Placed(o) = Placed(p) => o = p) /\ (Canceled(o) = Canceled(p) => o = p)
  BY DEF Placed, Canceled

\* More is placed by more entries.
LEMMA PlacedMore ==
  ASSUME NEW q, NEW m \in Nat, NEW n \in Nat, m <= n
  PROVE  PlacedIn(q, m) \subseteq PlacedIn(q, n)
<1>1. \A i \in 1 .. m : i \in 1 .. n  OBVIOUS
<1> QED BY <1>1 DEF PlacedIn

\* What the queue r, which is q and the entries K, places, and what waits in it
Grown(q, K, done, r) ==
  /\ Len(r) = Len(q) + Len(K) /\ Len(q) \in Nat /\ Len(r) \in Nat
  /\ \A n \in 0 .. Len(q) : PlacedIn(r, n) = PlacedIn(q, n)
  /\ \A p \in Id : p \in PlacedIn(r, Len(r))
       <=> p \in PlacedIn(q, Len(q)) \/ Placed(p) \in {K[i].event : i \in DOMAIN K}
  /\ \A e : Waits(r, done, e) <=> Waits(q, done, e) \/ e \in {K[i].event : i \in DOMAIN K}
  /\ \A j \in done + 1 .. Len(q) : j \in done + 1 .. Len(r) /\ r[j] = q[j]
  /\ \A e \in {K[i].event : i \in DOMAIN K} : \E j \in done + 1 .. Len(r) :
       r[j].event = e /\ PlacedIn(q, Len(q)) \subseteq PlacedIn(r, j)

LEMMA QueueGrows ==
  ASSUME NEW q \in Seq(Entries), NEW K \in Seq(Entries), NEW done \in 0 .. Len(q)
  PROVE  Grown(q, K, done, q \o K)
<1> DEFINE r == q \o K
           new == {K[i].event : i \in DOMAIN K}
           m == Len(q)
<1>1. /\ m \in Nat /\ Len(K) \in Nat /\ DOMAIN K = 1 .. Len(K) /\ Len(r) = m + Len(K)
      /\ \A i \in 1 .. m + Len(K) : r[i] = IF i <= m THEN q[i] ELSE K[i - m]
  OBVIOUS
<1> HIDE DEF r, m
<1>2. \A i \in 1 .. m : i \in 1 .. m + Len(K) /\ r[i] = q[i]
  BY <1>1
<1>3. \A i \in 1 .. Len(K) : m + i \in m + 1 .. Len(r) /\ m + i \in 1 .. Len(r) /\ r[m + i] = K[i]
  BY <1>1
<1>4. \A j \in 1 .. Len(r) : j \in 1 .. m \/ (j - m \in 1 .. Len(K) /\ r[j] = K[j - m])
  BY <1>1
<1>5. done \in 0 .. m  BY DEF m
<1>6. ASSUME NEW n \in 0 .. m PROVE PlacedIn(r, n) = PlacedIn(q, n)
  BY <1>1, <1>2 DEF PlacedIn
<1>7. ASSUME NEW p \in Id PROVE p \in PlacedIn(r, Len(r)) <=> p \in PlacedIn(q, m) \/ Placed(p) \in new
  <2>1. ASSUME NEW i \in 1 .. Len(r), r[i].event = Placed(p)
        PROVE  p \in PlacedIn(q, m) \/ Placed(p) \in new
    BY <1>1, <1>2, <1>4, <2>1 DEF PlacedIn
  <2>2. ASSUME p \in PlacedIn(q, m) PROVE p \in PlacedIn(r, Len(r))
    BY <1>1, <1>2, <2>2 DEF PlacedIn
  <2>3. ASSUME Placed(p) \in new PROVE p \in PlacedIn(r, Len(r))
    BY <1>1, <2>3, <1>3 DEF PlacedIn
  <2> QED BY <2>1, <2>2, <2>3 DEF PlacedIn
<1>8. ASSUME NEW e PROVE Waits(r, done, e) <=> Waits(q, done, e) \/ e \in new
  <2>1. ASSUME NEW i \in done + 1 .. Len(r), r[i].event = e PROVE Waits(q, done, e) \/ e \in new
    <3>1. i \in 1 .. Len(r)  BY <1>1, <1>5
    <3>2. CASE i \in 1 .. m
      BY <1>1, <1>2, <1>5, <2>1, <3>2 DEF Waits, m
    <3>3. CASE ~ i \in 1 .. m  BY <1>1, <1>4, <2>1, <3>1, <3>3
    <3> QED BY <3>2, <3>3
  <2>2. ASSUME NEW i \in done + 1 .. m, q[i].event = e PROVE Waits(r, done, e)
    BY <1>1, <1>5, <1>2, <2>2 DEF Waits
  <2>3. ASSUME e \in new PROVE Waits(r, done, e)
    BY <1>1, <2>3, <1>5, <1>3 DEF Waits
  <2> QED BY <2>1, <2>2, <2>3 DEF Waits, m
<1>9. \A j \in done + 1 .. m : j \in done + 1 .. Len(r) /\ r[j] = q[j]
  BY <1>1, <1>2, <1>5
<1>10. ASSUME NEW e \in new
       PROVE  \E j \in done + 1 .. Len(r) : r[j].event = e /\ PlacedIn(q, m) \subseteq PlacedIn(r, j)
  BY <1>1, <1>5, PlacedMore, <1>6, <1>3
<1>11. m \in Nat /\ Len(r) \in Nat /\ Len(r) = m + Len(K)
  BY <1>1
<1> HIDE DEF new
<1>12. /\ \A n \in 0 .. m : PlacedIn(r, n) = PlacedIn(q, n)
       /\ \A p \in Id : p \in PlacedIn(r, Len(r)) <=> p \in PlacedIn(q, m) \/ Placed(p) \in new
       /\ \A e : Waits(r, done, e) <=> Waits(q, done, e) \/ e \in new
       /\ \A e \in new : \E j \in done + 1 .. Len(r) :
            r[j].event = e /\ PlacedIn(q, m) \subseteq PlacedIn(r, j)
  BY <1>6, <1>7, <1>8, <1>10
<1> QED BY <1>9, <1>11, <1>12 DEF Grown, r, m, new

\* An active order has been placed, or placing it has failed.
LEMMA ActiveIsPlaced ==
  ASSUME TradingInv, RestInv, NEW p \in Id, p \in DOMAIN actor[Sender(p)].active
  PROVE  Placed(p) \in failed \/ p \in PlacedIn(queue, Len(queue))
<1> DEFINE w == Sender(p)
<1>1. /\ processed \in 0 .. Len(queue) /\ Len(queue) \in Nat /\ w \in Owner
      /\ IdsIn(book) \subseteq PlacedIn(queue, processed)
  BY InvParts DEF Faithful
<1>2. PlacedIn(queue, processed) \subseteq PlacedIn(queue, Len(queue))
  BY <1>1, PlacedMore
<1>3. CASE Waits(queue, processed, Placed(p))
  BY <1>3, <1>1 DEF Waits, PlacedIn
<1>4. CASE Tells(mail[w], p, ActiveOf(actor[w], p), InBook(book, p))
  BY <1>4, NotInBook, <1>1, <1>2 DEF Tells, Silent, ActiveOf, RestInv, UnderWay, MailInv, About
<1> QED BY <1>3, <1>4 DEF RestInv, UnderWay, ViewInv

----------------------------------------------------------------------------
(* The steps, with what is under way *)

\* What an actor may store: requests to cancel its active orders, and one to place
\* an order that has never been stored and that it has made active.
MayStore(w, x, events) ==
  /\ \A p \in Id : p \in DOMAIN actor[w].active =>
       p \in DOMAIN x.active /\ x.active[p] = actor[w].active[p]
  /\ \A p \in DOMAIN x.active : p \in DOMAIN actor[w].active \/ Placed(p) \in ToSet(events)
  /\ x.pendingPlacement = actor[w].pendingPlacement
  /\ x.pendingCancellation = actor[w].pendingCancellation
  /\ \A p \in Id : Canceled(p) \in ToSet(events) => p \in DOMAIN actor[w].active
  /\ \A p \in Id : Placed(p) \in ToSet(events) =>
       /\ Sender(p) = w /\ p \in DOMAIN x.active /\ p \notin DOMAIN actor[w].active
       /\ p \notin PlacedIn(queue, Len(queue)) /\ x.active[p] = LimitOrder(p)

LEMMA StoredRest ==
  ASSUME TradingInv, RestInv, NEW w \in Owner, NEW x \in ActorState, NEW events \in Seq(Requests),
         MayStore(w, x, events), NEW K, Stores(K, w, x, events), Promises(K, w, x, events)
  PROVE  RestInvNext
<1> DEFINE new == {K[i].event : i \in DOMAIN K}
<1>1. /\ queue \in Seq(Entries) /\ processed \in 0 .. Len(queue) /\ Len(queue) \in Nat
      /\ actor \in [Owner -> ActorState] /\ \A o \in Id : Sender(o) \in Owner
  BY InvParts
<1>2. /\ K \in Seq(Entries) /\ queue' = queue \o K /\ actor' = [actor EXCEPT ![w] = actor'[w]]
      /\ actor'[w].active = x.active /\ UNCHANGED <<processed, book, mail>>
  BY DEF Stores
<1>3. /\ failed' = failed \cup (ToSet(events) \ new) /\ new \subseteq ToSet(events)
      /\ \A p \in Id : p \in actor'[w].pendingPlacement
                         <=> p \in x.pendingPlacement \/ Placed(p) \in ToSet(events)
      /\ \A p \in Id : p \in actor'[w].pendingCancellation
                         <=> p \in x.pendingCancellation \/ Canceled(p) \in ToSet(events)
  BY DEF Promises, Stores
<1>4. /\ \A n \in 0 .. Len(queue) : PlacedIn(queue', n) = PlacedIn(queue, n)
      /\ \A p \in Id : p \in PlacedIn(queue', Len(queue'))
                         <=> p \in PlacedIn(queue, Len(queue)) \/ Placed(p) \in new
      /\ \A e : Waits(queue', processed, e) <=> Waits(queue, processed, e) \/ e \in new
      /\ \A j \in processed + 1 .. Len(queue) : j \in processed + 1 .. Len(queue') /\ queue'[j] = queue[j]
      /\ \A e \in new : \E j \in processed + 1 .. Len(queue') :
           queue'[j].event = e /\ PlacedIn(queue, Len(queue)) \subseteq PlacedIn(queue', j)
  <2>1. Grown(queue, K, processed, queue')
    BY <1>1, <1>2, QueueGrows
  <2> QED BY <2>1 DEF Grown
<1> HIDE DEF new
<1>5. \A v \in Owner : v # w => actor'[v] = actor[v]
  BY <1>1, <1>2
<1>6. /\ ViewInv(queue, processed, book, mail, actor, failed)
      /\ MailInv(queue, processed, mail) /\ OwnInv(actor) /\ FailedInv(queue, actor, failed)
      /\ PlaceInv(queue, processed, mail, actor, failed)
      /\ CancelInv(queue, processed, mail, actor, failed)
  BY DEF RestInv, UnderWay
\* nothing new is placed twice
<1>7. ASSUME NEW p \in Id, Placed(p) \in ToSet(events)
      PROVE  Sender(p) = w /\ p \in DOMAIN x.active /\ p \notin DOMAIN actor[w].active
             /\ p \notin PlacedIn(queue, Len(queue)) /\ Placed(p) \notin failed
  BY <1>7, <1>6 DEF MayStore, FailedInv
<1>8. ASSUME NEW p \in Id, Placed(p) \notin ToSet(events)
      PROVE  ActiveOf(actor'[Sender(p)], p) = ActiveOf(actor[Sender(p)], p)
  BY <1>1, <1>5, <1>8, <1>2 DEF MayStore, ActiveOf
<1>9. \A p \in Id : p \in DOMAIN actor[Sender(p)].active => p \in DOMAIN actor'[Sender(p)].active
  BY <1>1, <1>2, <1>5 DEF MayStore
<1>10. ViewInv(queue', processed', book', mail', actor', failed')
  BY <1>2, <1>3, <1>4, <1>8, <1>6 DEF ViewInv
<1>11. MailInv(queue', processed', mail')
  BY <1>1, <1>4, <1>2, <1>6 DEF MailInv
<1>12. OwnInv(actor')
  <2> SUFFICES ASSUME NEW v \in Owner, NEW o \in DOMAIN actor'[v].active PROVE Sender(o) = v
    BY DEF OwnInv
  <2>1. CASE v # w  BY <1>5, <1>6, <2>1 DEF OwnInv
  <2>2. CASE v = w
    BY <1>2, <2>2, ActivesFacts, <1>6, <1>7 DEF ActorState, MayStore, OwnInv
  <2> QED BY <2>1, <2>2
<1>13. FailedInv(queue', actor', failed')
  BY <1>3, <1>7, <1>2, <1>4, <1>6, <1>9 DEF FailedInv
<1>14. PlaceInv(queue', processed', mail', actor', failed')
  BY <1>2, <1>3, <1>4, <1>1, <1>5, <1>6 DEF PlaceInv, MayStore
<1>15. CancelInv(queue', processed', mail', actor', failed')
  <2> SUFFICES ASSUME NEW p \in Id, p \in actor'[Sender(p)].pendingCancellation
               PROVE  /\ p \in DOMAIN actor'[Sender(p)].active
                      /\ \/ {Placed(p), Canceled(p)} \cap failed' # {}
                         \/ \E j \in processed + 1 .. Len(queue') :
                              queue'[j].event = Canceled(p) /\ p \in PlacedIn(queue', j)
                         \/ \E i \in DOMAIN mail[Sender(p)] : Ends(mail[Sender(p)][i], p)
    BY <1>2 DEF CancelInv
  <2>1. CASE p \in actor[Sender(p)].pendingCancellation
    BY <1>6, <2>1, <1>1, <1>4, <1>3, <1>9 DEF CancelInv
  <2>2. CASE p \notin actor[Sender(p)].pendingCancellation
    BY <1>1, <1>5, <2>2, <1>3, ActiveIsPlaced, <1>4, <1>9 DEF MayStore
  <2> QED BY <2>1, <2>2
<1> QED BY <1>10, <1>11, <1>12, <1>13, <1>14, <1>15 DEF RestInvNext, UnderWay

\* Something that may be stored is stored.
OnlyStored ==
  \E w \in Owner : \E x, events, K : MayStore(w, x, events) /\ Stores(K, w, x, events)

LEMMA StoreRest ==
  ASSUME TradingInv, RestInv, NEW w \in Owner, NEW x \in ActorState, NEW events \in Seq(Requests),
         MayStore(w, x, events), Store(w, x, events)
  PROVE  RestInvNext /\ OnlyStored
<1>1. clock \in Nat /\ actor \in [Owner -> ActorState]
  BY InvParts
<1>2. PICK K : Stores(K, w, x, events) /\ Promises(K, w, x, events)
  BY <1>1, StoreFacts
<1>3. OnlyStored  BY <1>2 DEF OnlyStored
<1> QED BY <1>2, <1>3, StoredRest

\* Requests to cancel active orders may be stored.
LEMMA CancelRest ==
  ASSUME TradingInv, RestInv, NEW w \in Owner, NEW x \in ActorState,
         x.active = actor[w].active, x.pendingPlacement = actor[w].pendingPlacement,
         x.pendingCancellation = actor[w].pendingCancellation,
         NEW events \in Seq(CancelRequests), Store(w, x, events),
         \A p \in Id : Canceled(p) \in ToSet(events) => p \in DOMAIN x.active
  PROVE  RestInvNext /\ OnlyStored
<1>1. events \in Seq(Requests)
  BY SeqMonotonic DEF CancelRequests, Requests
<1>2. \A p : Placed(p) \notin ToSet(events)
  BY DEF ToSet, CancelRequests, Placed
<1>3. MayStore(w, x, events)  BY <1>2 DEF MayStore
<1> QED BY <1>1, <1>3, StoreRest

LEMMA CancelOrderRest ==
  ASSUME TradingInv, RestInv, NEW o \in Id, CancelOrder(o) PROVE RestInvNext /\ OnlyStored
<1> DEFINE w == Sender(o)
           x == actor[w]
           events == <<Canceled(o)>>
<1>1. Store(w, x, events) /\ o \in DOMAIN x.active
  BY DEF CancelOrder
<1>2. w \in Owner /\ x \in ActorState  BY InvParts
<1>3. events \in Seq(CancelRequests)  BY CancelOneRequest
<1>4. \A p \in Id : Canceled(p) \in ToSet(events) => p = o
  BY RequestKinds DEF ToSet
<1> HIDE DEF events, w
<1> QED BY <1>1, <1>2, <1>3, <1>4, CancelRest

LEMMA CancelExpiredOrderRest ==
  ASSUME TradingInv, RestInv, NEW o \in Id, CancelExpiredOrder(o) PROVE RestInvNext /\ OnlyStored
<1> DEFINE w == Sender(o)
           a == actor[w]
           t == a.timers[o] - 1
           x == [a EXCEPT !.expiration = @ \ {o}, !.timers[o] = t]
           events == IF o \in DOMAIN x.active THEN <<Canceled(o)>> ELSE <<>>
<1>1. a.timers[o] > 0 /\ Store(w, x, events)
  BY DEF CancelExpiredOrder
<1>2. w \in Owner /\ a \in ActorState  BY InvParts
<1>3. events \in Seq(CancelRequests)
      /\ \A p \in Id : Canceled(p) \in ToSet(events) => p \in DOMAIN x.active
  BY CancelOneRequest, RequestKinds DEF ToSet
<1> HIDE DEF events
<1>4. t \in Nat  BY <1>2, <1>1 DEF ActorState
<1> HIDE DEF t, a
<1>5. x \in ActorState /\ x.active = a.active /\ x.pendingPlacement = a.pendingPlacement
      /\ x.pendingCancellation = a.pendingCancellation
  BY <1>2, <1>4 DEF ActorState
<1> HIDE DEF x, w
<1> QED BY <1>1, <1>2, <1>3, <1>5, CancelRest DEF a

\* Requests to cancel some of the active orders
LEMMA CancelSomeRest ==
  ASSUME TradingInv, RestInv, NEW w \in Owner, NEW ids \in Seq(Id),
         ToSet(ids) \subseteq DOMAIN actor[w].active,
         Store(w, actor[w], [i \in DOMAIN ids |-> Canceled(ids[i])])
  PROVE  RestInvNext /\ OnlyStored
<1> DEFINE events == [i \in DOMAIN ids |-> Canceled(ids[i])]
<1>1. actor[w] \in ActorState  BY InvParts
<1>2. events \in Seq(CancelRequests)  BY CancelRequestsOf
<1>3. ASSUME NEW p \in Id, Canceled(p) \in ToSet(events) PROVE p \in DOMAIN actor[w].active
  BY <1>3, RequestKinds DEF ToSet
<1> HIDE DEF events
<1> QED BY <1>1, <1>2, <1>3, CancelRest DEF events

\* All of some active orders in some order
LEMMA ActiveSeqIn ==
  ASSUME NEW x \in ActorState, NEW ids \in SetToSeqs(DOMAIN x.active)
  PROVE  ids \in Seq(Id) /\ ToSet(ids) \subseteq DOMAIN x.active
<1>1. ids \in Seq(Id)  BY ActiveSeqs
<1>2. ids \in [1 .. Cardinality(DOMAIN x.active) -> DOMAIN x.active]
  BY DEF SetToSeqs
<1> QED BY <1>1, <1>2 DEF ToSet

LEMMA CancelAllOrdersRest ==
  ASSUME TradingInv, RestInv, NEW w \in Owner, CancelAllOrders(w) PROVE RestInvNext /\ OnlyStored
<1>1. PICK ids \in SetToSeqs(DOMAIN actor[w].active) :
        Store(w, actor[w], [i \in DOMAIN ids |-> Canceled(ids[i])])
  BY DEF CancelAllOrders
<1>2. actor[w] \in ActorState  BY InvParts
<1>3. ids \in Seq(Id) /\ ToSet(ids) \subseteq DOMAIN actor[w].active
  BY <1>1, <1>2, ActiveSeqIn
<1> QED BY <1>1, <1>3, CancelSomeRest

LEMMA BalanceUpdatedRest ==
  ASSUME TradingInv, RestInv, NEW w \in Owner, BalanceUpdated(w) PROVE RestInvNext /\ OnlyStored
<1>1. PICK assets \in (SUBSET changed[w]) \ {{}} : \E byAge \in ByAge(actor[w]) :
        LET ids == OrdersToDelete(actor[w], Restrict(spendable[w], assets), byAge)
        IN  Store(w, actor[w], [i \in DOMAIN ids |-> Canceled(ids[i])])
  BY DEF BalanceUpdated
<1>2. PICK byAge \in ByAge(actor[w]) :
        LET ids == OrdersToDelete(actor[w], Restrict(spendable[w], assets), byAge)
        IN  Store(w, actor[w], [i \in DOMAIN ids |-> Canceled(ids[i])])
  BY <1>1
<1> DEFINE ids == OrdersToDelete(actor[w], Restrict(spendable[w], assets), byAge)
<1>3. actor[w] \in ActorState  BY InvParts
<1>4. byAge \in Seq(Id) /\ ToSet(byAge) \subseteq DOMAIN actor[w].active
  BY <1>3, ActiveSeqIn DEF ByAge
<1>5. PICK S : ids = Where(byAge, S)  BY DEF OrdersToDelete
<1>6. Store(w, actor[w], [i \in DOMAIN ids |-> Canceled(ids[i])])
  BY <1>2
<1> HIDE DEF ids
<1>7. ids \in Seq(Id) /\ ToSet(ids) \subseteq DOMAIN actor[w].active
  BY <1>4, <1>5, WhereElements
<1> QED BY <1>6, <1>7, CancelSomeRest

LEMMA PlaceOrderRest ==
  ASSUME TradingInv, RestInv, NEW o \in Id, MaySend(o), PlaceOrder(o) PROVE RestInvNext /\ OnlyStored
<1> DEFINE w == Sender(o)
           x == actor[w]
           y == Reserve(x, LimitOrder(o))
           events == <<Placed(o)>>
<1>1. /\ ~ OrderExists(x, o) /\ (restarted => ~ WasSent(o))
      /\ Store(w, y, events)
  BY DEF PlaceOrder, MaySend, TradingInv, NobodyResends
<1>2. o \notin DOMAIN x.active /\ orderInfo[o] = NotFound
  BY <1>1 DEF OrderExists
<1>3. \A i \in DOMAIN queue : queue[i].event # Placed(o)
  BY <1>1, <1>2, InvParts DEF WasSent, KnownInv
<1>4. o \notin PlacedIn(queue, Len(queue))
  BY InvParts, <1>3 DEF PlacedIn
<1>5. w \in Owner /\ x \in ActorState  BY InvParts
<1>6. /\ events \in Seq(Requests)
      /\ \A p : Canceled(p) \notin ToSet(events)
      /\ \A p : Placed(p) \in ToSet(events) <=> p = o
  <2>1. Placed(o) \in Requests  BY DEF Placed, Requests
  <2>2. ToSet(events) = {Placed(o)}  BY DEF ToSet
  <2>3. events \in Seq(Requests)  BY <2>1
  <2> QED BY <2>2, <2>3, RequestKinds
<1> HIDE DEF events, w
<1>7. LimitOrder(o) \in LimitOrders /\ LimitOrder(o).id = o
  BY LimitOrderFacts DEF LimitOrder
<1>8. /\ y \in ActorState /\ DOMAIN y.active = DOMAIN x.active \cup {o}
      /\ \A p \in DOMAIN x.active : p # o => y.active[p] = x.active[p]
      /\ y.active[o] = LimitOrder(o)
      /\ y.pendingPlacement = x.pendingPlacement /\ y.pendingCancellation = x.pendingCancellation
  BY <1>5, <1>7, ReserveFacts
<1> HIDE DEF y
<1>9. MayStore(w, y, events)
  BY <1>2, <1>8, <1>6, <1>4 DEF w, MayStore
<1> QED BY <1>1, <1>5, <1>6, <1>8, <1>9, StoreRest

\* An event is sent to the owners of the orders that it mentions.
LEMMA PartiesOfMentioned ==
  ASSUME NEW e \in Events, NEW p \in Mentioned(e)
  PROVE  p \in Id /\ Sender(p) \in Parties(e)
  BY DEF Events, Mentioned, Parties, LimitOrders

LEMMA ActiveOfIs ==
  ASSUME NEW x, NEW p
  PROVE  ActiveOf(x, p) # {} <=> p \in DOMAIN x.active
  BY DEF ActiveOf

LEMMA HandleEventRest ==
  ASSUME TradingInv, RestInv, NEW w \in Owner, HandleEvent(w) PROVE RestInvNext
<1> DEFINE s == mail[w]
           e == Head(s)
           x == actor[w]
           y == Handle(x, w, e)
<1>1. /\ s # <<>> /\ actor' = [actor EXCEPT ![w] = y] /\ mail' = [mail EXCEPT ![w] = Tail(s)]
      /\ UNCHANGED <<queue, processed, book, failed>>
  BY DEF HandleEvent, bookVars
<1>2. /\ processed \in 0 .. Len(queue) /\ Len(queue) \in Nat
      /\ actor \in [Owner -> ActorState] /\ mail \in [Owner -> Seq(Events)]
      /\ \A o \in Id : Sender(o) \in Owner
  BY InvParts
<1>3. /\ ViewInv(queue, processed, book, mail, actor, failed)
      /\ MailInv(queue, processed, mail) /\ OwnInv(actor) /\ FailedInv(queue, actor, failed)
      /\ PlaceInv(queue, processed, mail, actor, failed)
      /\ CancelInv(queue, processed, mail, actor, failed)
  BY DEF RestInv, UnderWay
<1>4. /\ x \in ActorState /\ s \in Seq(Events)
      /\ \A v \in Owner : v # w => actor'[v] = actor[v] /\ mail'[v] = mail[v]
      /\ actor'[w] = y /\ mail'[w] = Tail(s)
  BY <1>1, <1>2
<1>5. /\ e = s[1] /\ 1 \in DOMAIN s
      /\ \A i \in DOMAIN Tail(s) : i + 1 \in DOMAIN s /\ Tail(s)[i] = s[i + 1]
      /\ \A i \in DOMAIN s : i # 1 => i - 1 \in DOMAIN Tail(s) /\ Tail(s)[i - 1] = s[i]
  BY <1>1, <1>4
<1>6. /\ e \in Events /\ Proper(e) /\ w \in Parties(e)
      /\ Mentioned(e) \subseteq PlacedIn(queue, processed)
  BY <1>1, <1>4, TellsTail, <1>3, <1>5 DEF MailInv, About
<1>7. /\ \A p \in Id : Sender(p) = w =>
           /\ ActiveOf(y, p) = IF p \in Mentioned(e) THEN Says(e, p) ELSE ActiveOf(x, p)
           /\ p \in y.pendingPlacement => p \in x.pendingPlacement /\ p \notin Mentioned(e)
           /\ p \in y.pendingCancellation => p \in x.pendingCancellation /\ ~ Ends(e, p)
      /\ \A o \in DOMAIN y.active : o \in DOMAIN x.active \/ Sender(o) = w
  BY <1>4, <1>6, HandleView
<1> HIDE DEF y
<1>8. \A p : /\ Silent(s, p) <=> Silent(Tail(s), p) /\ p \notin Mentioned(e)
             /\ \A A, B : Tells(s, p, A, B) =>
                  Tells(Tail(s), p, IF p \in Mentioned(e) THEN Says(e, p) ELSE A, B)
  BY <1>1, <1>4, TellsTail
<1> HIDE DEF e, s, x
<1>9. \A p \in Id : Sender(p) # w => actor'[Sender(p)] = actor[Sender(p)] /\ mail'[Sender(p)] = mail[Sender(p)]
  BY <1>2, <1>4
<1>10. ViewInv(queue, processed, book, mail', actor', failed)
  BY <1>3, <1>9, <1>7, <1>8, <1>4 DEF ViewInv, s, x
<1>11. MailInv(queue, processed, mail')
  <2> SUFFICES ASSUME NEW v \in Owner, NEW i \in DOMAIN mail'[v]
               PROVE  /\ Proper(mail'[v][i]) /\ Mentioned(mail'[v][i]) \subseteq PlacedIn(queue, processed)
                      /\ v \in Parties(mail'[v][i])
    BY DEF MailInv, About
  <2>1. CASE v # w  BY <1>3, <1>4, <2>1 DEF MailInv, About
  <2>2. CASE v = w
    <3>1. i + 1 \in DOMAIN mail[w] /\ mail'[v][i] = mail[w][i + 1]
      BY <1>4, <1>5, <2>2 DEF s
    <3> QED BY <1>3, <2>2, <3>1 DEF MailInv, About
  <2> QED BY <2>1, <2>2
<1>12. OwnInv(actor')  BY <1>3, <1>4, <1>7 DEF OwnInv, x
<1>13. FailedInv(queue, actor', failed)
  BY <1>3, <1>2, PlacedMore, <1>6, <1>7, <1>4, ActiveOfIs, <1>9 DEF FailedInv, x
<1>14. PlaceInv(queue, processed, mail', actor', failed)
  BY <1>4, <1>7, <1>3, <1>8, <1>9 DEF PlaceInv, s, x
<1>15. CancelInv(queue, processed, mail', actor', failed)
  <2> SUFFICES ASSUME NEW p \in Id, p \in actor'[Sender(p)].pendingCancellation
               PROVE  /\ p \in DOMAIN actor'[Sender(p)].active
                      /\ \/ {Placed(p), Canceled(p)} \cap failed # {}
                         \/ \E j \in processed + 1 .. Len(queue) :
                              queue[j].event = Canceled(p) /\ p \in PlacedIn(queue, j)
                         \/ \E i \in DOMAIN mail'[Sender(p)] : Ends(mail'[Sender(p)][i], p)
    BY DEF CancelInv
  <2>1. CASE Sender(p) = w
    <3>1. p \in x.pendingCancellation /\ ~ Ends(e, p)
      BY <1>4, <1>7, <2>1
    <3>2. p \in DOMAIN x.active
      BY <1>3, <2>1, <3>1 DEF CancelInv, x
    <3>3. p \in DOMAIN y.active
      BY <1>7, <2>1, <3>1, <3>2, ActiveOfIs DEF Ends
    <3>4. \/ {Placed(p), Canceled(p)} \cap failed # {}
          \/ \E j \in processed + 1 .. Len(queue) :
               queue[j].event = Canceled(p) /\ p \in PlacedIn(queue, j)
          \/ \E i \in DOMAIN s : Ends(s[i], p)
      BY <1>3, <2>1, <3>1 DEF CancelInv, s, x
    <3>5. ASSUME NEW i \in DOMAIN s, Ends(s[i], p)
          PROVE  \E k \in DOMAIN Tail(s) : Ends(Tail(s)[k], p)
      BY <1>5, <3>1, <3>5
    <3> QED BY <1>4, <2>1, <3>3, <3>4, <3>5
  <2>2. CASE Sender(p) # w  BY <1>3, <1>9, <2>2 DEF CancelInv
  <2> QED BY <2>1, <2>2
<1> QED BY <1>1, <1>10, <1>11, <1>12, <1>13, <1>14, <1>15 DEF RestInvNext, UnderWay

\* What the events of applying entry n of a queue tell
EntryTells(q, n, b, r) ==
  /\ r.events \in Seq(Events) /\ About(r.events, PlacedIn(q, n))
  /\ \A p \in Id : q[n].event = Placed(p) =>
       ~ Silent(r.events, p) /\ \A A : Tells(r.events, p, A, InBook(r.book, p))
  /\ \A p \in Id : q[n].event # Placed(p) => Tells(r.events, p, InBook(b, p), InBook(r.book, p))
  /\ \A p \in Id : q[n].event = Canceled(p) /\ p \in IdsIn(b) =>
       \E i \in DOMAIN r.events : Ends(r.events[i], p)

LEMMA ApplyTells ==
  ASSUME NEW q \in Seq(Entries), OncePlaced(q), NEW n \in 1 .. Len(q), NEW b, NEW T,
         Faithful(q, n - 1, b, T)
  PROVE  EntryTells(q, n, b, Apply(b, q[n]))
<1> DEFINE e == q[n].event
           o == e.id
           r == Apply(b, q[n])
<1>1. /\ q[n] \in Entries /\ n \in Nat /\ n - 1 \in Nat /\ n - 1 <= n
      /\ DOMAIN q = 1 .. Len(q) /\ n \in DOMAIN q /\ n \in 1 .. n
  OBVIOUS
<1>2. o \in Id /\ e.type \in {"Placed", "Canceled"} /\ e = [type |-> e.type, id |-> o]
  BY <1>1 DEF Entries
<1>3. GoodBook(b) /\ IdsIn(b) \subseteq PlacedIn(q, n - 1)
  BY DEF Faithful
<1>4. PlacedIn(q, n - 1) \subseteq PlacedIn(q, n)
  BY <1>1, PlacedMore
<1>5. CASE e.type = "Placed"
  <2>1. e = Placed(o)  BY <1>2, <1>5 DEF Placed
  <2>2. o \in PlacedIn(q, n)  BY <1>1, <1>2, <2>1 DEF PlacedIn
  <2>3. o \notin PlacedIn(q, n - 1)
    BY <1>1, <2>1, <1>5 DEF PlacedIn, OncePlaced
  <2>4. r = Add(b, o, q[n].ts)  BY <1>5 DEF Apply
  <2>5. \A p : e # Canceled(p) /\ (e = Placed(p) => p = o)
    BY <2>1, RequestKinds
  <2> HIDE DEF e, o, r
  <2>6. o \notin IdsIn(b)  BY <1>3, <2>3
  <2>7. TellAll(r.events, LimitOrder(o), b, r.book)
    BY <1>2, <1>3, <2>6, AddTells, <2>4
  <2>8. LimitOrder(o).id = o  BY DEF LimitOrder
  <2>9. /\ r.events \in Seq(Events) /\ About(r.events, IdsIn(b) \cup {o}) /\ ~ Silent(r.events, o)
        /\ \A A : Tells(r.events, o, A, InBook(r.book, o))
        /\ \A p : p # o => Tells(r.events, p, InBook(b, p), InBook(r.book, p))
    BY <2>7, <2>8 DEF TellAll
  <2>10. About(r.events, PlacedIn(q, n))
    BY <1>3, <1>4, <2>2, <2>9 DEF About
  <2>11. EntryTells(q, n, b, r)
    BY <2>1, <2>5, <2>9, <2>10 DEF EntryTells, e
  <2> QED BY <2>11 DEF r
<1>6. CASE e.type # "Placed"
  BY <1>2, <1>6, RequestKinds, <1>3, CancelTells, <1>4 DEF Canceled, Apply, About, EntryTells,
     e, r
<1> QED BY <1>5, <1>6

\* An actor is sent all that mentions its orders.
LEMMA EventsForTells ==
  ASSUME NEW w, NEW s \in Seq(Events)
  PROVE  LET t == EventsFor(w, s)
         IN  /\ t \in Seq(Events) /\ \A i \in DOMAIN t : w \in Parties(t[i])
             /\ \A ids : About(s, ids) => About(t, ids)
             /\ \A p : Sender(p) = w =>
                  /\ Silent(t, p) <=> Silent(s, p)
                  /\ \A A, B : Tells(t, p, A, B) <=> Tells(s, p, A, B)
                  /\ (\E i \in DOMAIN s : Ends(s[i], p)) => \E i \in DOMAIN t : Ends(t[i], p)
<1> DEFINE S == {e \in ToSet(s) : w \in Parties(e)}
           t == EventsFor(w, s)
<1>1. t = Where(s, S)  BY DEF EventsFor
<1>2. t \in Seq(Events) /\ ToSet(t) = ToSet(s) \cap S
  BY <1>1, WhereElements
<1>3. \A i \in DOMAIN t : t[i] \in ToSet(s) /\ w \in Parties(t[i])
  BY <1>2 DEF ToSet
<1>4. ASSUME NEW ids, About(s, ids) PROVE About(t, ids)
  BY <1>3, <1>4 DEF About, ToSet
<1>5. ASSUME NEW p, Sender(p) = w, NEW e \in ToSet(s), p \in Mentioned(e) PROVE e \in S
  BY <1>5, PartiesOfMentioned DEF ToSet
<1>6. ASSUME NEW p, Sender(p) = w, NEW i \in DOMAIN s, Ends(s[i], p)
      PROVE  \E j \in DOMAIN t : Ends(t[j], p)
  BY <1>6, <1>2, <1>5 DEF ToSet, Ends
<1> HIDE DEF S, t
<1>7. ASSUME NEW p, Sender(p) = w
      PROVE  (Silent(t, p) <=> Silent(s, p)) /\ \A A, B : Tells(t, p, A, B) <=> Tells(s, p, A, B)
  BY <1>1, <1>5, <1>7, TellsFilter
<1> QED BY <1>2, <1>3, <1>4, <1>6, <1>7 DEF t

\* The elements of u are those of s and of t.
Joined(u, s, t) ==
  /\ \A i \in DOMAIN u : (\E j \in DOMAIN s : u[i] = s[j]) \/ (\E j \in DOMAIN t : u[i] = t[j])
  /\ \A j \in DOMAIN s : \E i \in DOMAIN u : u[i] = s[j]
  /\ \A j \in DOMAIN t : \E i \in DOMAIN u : u[i] = t[j]

LEMMA ConcatElements ==
  ASSUME NEW T, NEW s \in Seq(T), NEW t \in Seq(T)
  PROVE  Joined(s \o t, s, t)
<1>1. /\ Len(s) \in Nat /\ Len(t) \in Nat /\ DOMAIN s = 1 .. Len(s) /\ DOMAIN t = 1 .. Len(t)
      /\ DOMAIN (s \o t) = 1 .. Len(s) + Len(t)
      /\ \A i \in 1 .. Len(s) + Len(t) : (s \o t)[i] = IF i <= Len(s) THEN s[i] ELSE t[i - Len(s)]
  OBVIOUS
<1>2. ASSUME NEW i \in 1 .. Len(s) + Len(t)
      PROVE  i \in 1 .. Len(s) \/ (i - Len(s) \in 1 .. Len(t) /\ ~ i <= Len(s))
  BY <1>1
<1>3. \A j \in 1 .. Len(s) : j \in 1 .. Len(s) + Len(t) /\ j <= Len(s)
  BY <1>1
<1>4. \A j \in 1 .. Len(t) : /\ Len(s) + j \in 1 .. Len(s) + Len(t) /\ ~ Len(s) + j <= Len(s)
                             /\ (Len(s) + j) - Len(s) = j
  BY <1>1
<1>5. ASSUME NEW i \in DOMAIN (s \o t)
      PROVE  (\E j \in DOMAIN s : (s \o t)[i] = s[j]) \/ (\E j \in DOMAIN t : (s \o t)[i] = t[j])
  BY <1>1, <1>3, <1>2
<1>6. \A j \in DOMAIN s : \E i \in DOMAIN (s \o t) : (s \o t)[i] = s[j]
  BY <1>1, <1>3
<1>7. ASSUME NEW j \in DOMAIN t PROVE \E i \in DOMAIN (s \o t) : (s \o t)[i] = t[j]
  BY <1>1, <1>4
<1> QED BY <1>5, <1>6, <1>7 DEF Joined

LEMMA ApplyNextRest ==
  ASSUME TradingInv, RestInv, ApplyNext PROVE RestInvNext
<1> DEFINE n == processed + 1
           r == Apply(book, queue[n])
           t(w) == EventsFor(w, r.events)
<1>1. /\ processed < Len(queue) /\ processed' = n /\ book' = r.book
      /\ mail' = [w \in Owner |-> mail[w] \o t(w)]
      /\ UNCHANGED <<queue, actor, failed>>
  BY DEF ApplyNext
<1>2. /\ queue \in Seq(Entries) /\ OncePlaced(queue) /\ processed \in 0 .. Len(queue)
      /\ Len(queue) \in Nat /\ DOMAIN queue = 1 .. Len(queue)
      /\ actor \in [Owner -> ActorState] /\ mail \in [Owner -> Seq(Events)]
      /\ Faithful(queue, processed, book, trades)
      /\ \A o \in Id : Sender(o) \in Owner
  BY InvParts
<1>3. /\ n \in 1 .. Len(queue) /\ n - 1 = processed /\ n \in Nat /\ processed \in Nat
      /\ processed <= n /\ n \in processed + 1 .. Len(queue)
      /\ \A j \in processed + 1 .. Len(queue) : j = n \/ j \in n + 1 .. Len(queue)
      /\ \A i \in 1 .. n : i = n \/ i \in 1 .. processed
  BY <1>1, <1>2
<1>4. \A j \in n + 1 .. Len(queue) : j \in processed + 1 .. Len(queue)
  BY <1>2, <1>3
<1> HIDE DEF n
<1>5. EntryTells(queue, n, book, r)  BY <1>2, <1>3, ApplyTells
<1> HIDE DEF r
<1>6. /\ r.events \in Seq(Events) /\ About(r.events, PlacedIn(queue, n))
      /\ \A p \in Id : queue[n].event = Placed(p) =>
           ~ Silent(r.events, p) /\ \A A : Tells(r.events, p, A, InBook(book', p))
      /\ \A p \in Id : queue[n].event # Placed(p) =>
           Tells(r.events, p, InBook(book, p), InBook(book', p))
      /\ \A p \in Id : queue[n].event = Canceled(p) /\ p \in IdsIn(book) =>
           \E i \in DOMAIN r.events : Ends(r.events[i], p)
  BY <1>1, <1>5 DEF EntryTells
<1>7. /\ ViewInv(queue, processed, book, mail, actor, failed)
      /\ MailInv(queue, processed, mail) /\ OwnInv(actor) /\ FailedInv(queue, actor, failed)
      /\ PlaceInv(queue, processed, mail, actor, failed)
      /\ CancelInv(queue, processed, mail, actor, failed)
  BY DEF RestInv, UnderWay
<1>8. \A w : /\ t(w) \in Seq(Events) /\ \A i \in DOMAIN t(w) : w \in Parties(t(w)[i])
             /\ About(t(w), PlacedIn(queue, n))
             /\ \A p : Sender(p) = w =>
                  /\ Silent(t(w), p) <=> Silent(r.events, p)
                  /\ \A A, B : Tells(t(w), p, A, B) <=> Tells(r.events, p, A, B)
                  /\ (\E i \in DOMAIN r.events : Ends(r.events[i], p))
                       => \E i \in DOMAIN t(w) : Ends(t(w)[i], p)
  BY <1>6, EventsForTells
<1> HIDE DEF t
<1>9. \A w \in Owner : mail[w] \in Seq(Events) /\ mail'[w] = mail[w] \o t(w)
  BY <1>1, <1>2
<1>10. \A e : Waits(queue, processed, e) <=> queue[n].event = e \/ Waits(queue, n, e)
  BY <1>3, <1>4 DEF Waits
<1>11. \A w \in Owner : \A p :
         /\ Silent(mail'[w], p) <=> Silent(mail[w], p) /\ Silent(t(w), p)
         /\ \A A, B, C : Tells(t(w), p, B, C) /\ (~ Silent(t(w), p) \/ Tells(mail[w], p, A, B))
                           => Tells(mail'[w], p, A, C)
  <2> SUFFICES ASSUME NEW w \in Owner, NEW p
               PROVE  /\ Silent(mail[w] \o t(w), p) <=> Silent(mail[w], p) /\ Silent(t(w), p)
                      /\ \A A, B, C : /\ Tells(t(w), p, B, C)
                                      /\ ~ Silent(t(w), p) \/ Tells(mail[w], p, A, B)
                                      => Tells(mail[w] \o t(w), p, A, C)
    BY <1>9
  <2>1. mail[w] \in Seq(Events) /\ t(w) \in Seq(Events)
    BY <1>8, <1>9
  <2> QED BY ONLY <2>1, TellsConcat
<1>12. \A w \in Owner : Joined(mail'[w], mail[w], t(w))
  BY <1>9, <1>8, ConcatElements
<1>13. ViewInv(queue, n, book', mail', actor, failed)
  BY <1>2, <1>6, <1>8, <1>11, <1>7, <1>10 DEF ViewInv
<1>14. MailInv(queue, n, mail')
  <2> SUFFICES ASSUME NEW w \in Owner, NEW i \in DOMAIN mail'[w]
               PROVE  /\ Proper(mail'[w][i]) /\ Mentioned(mail'[w][i]) \subseteq PlacedIn(queue, n)
                      /\ w \in Parties(mail'[w][i])
    BY DEF MailInv, About
  <2>1. PlacedIn(queue, processed) \subseteq PlacedIn(queue, n)
    BY <1>3, PlacedMore
  <2>2. CASE \E j \in DOMAIN mail[w] : mail'[w][i] = mail[w][j]
    BY <1>7, <2>1, <2>2 DEF MailInv, About
  <2>3. CASE \E j \in DOMAIN t(w) : mail'[w][i] = t(w)[j]
    BY <1>8, <2>3 DEF About
  <2> QED BY <1>12, <2>2, <2>3 DEF Joined
<1>15. PlaceInv(queue, n, mail', actor, failed)
  <2> SUFFICES ASSUME NEW p \in Id, p \in actor[Sender(p)].pendingPlacement
               PROVE  \/ Placed(p) \in failed \/ Waits(queue, n, Placed(p))
                      \/ ~ Silent(mail'[Sender(p)], p)
    BY DEF PlaceInv
  <2>1. Sender(p) \in Owner  BY <1>2
  <2>2. \/ Placed(p) \in failed \/ queue[n].event = Placed(p) \/ Waits(queue, n, Placed(p))
        \/ ~ Silent(mail[Sender(p)], p)
    BY <1>7, <1>10 DEF PlaceInv
  <2>3. queue[n].event = Placed(p) => ~ Silent(t(Sender(p)), p)
    BY <1>6, <1>8
  <2> QED BY <1>11, <2>1, <2>2, <2>3
\* an order that is active and no longer waits, while the book does not have it, has
\* been ended by an event on its way
<1>16. ASSUME NEW p \in Id, p \in DOMAIN actor[Sender(p)].active, Placed(p) \notin failed,
              queue[n].event = Canceled(p), p \in PlacedIn(queue, n)
       PROVE  \E i \in DOMAIN mail'[Sender(p)] : Ends(mail'[Sender(p)][i], p)
  <2>1. Sender(p) \in Owner  BY <1>2
  <2>2. CASE p \in IdsIn(book)
    BY <1>6, <1>8, <1>16, <2>2, <1>12, <2>1 DEF Joined
  <2>3. CASE p \notin IdsIn(book)
    <3>1. PICK i \in 1 .. n : queue[i].event = Placed(p)
      BY <1>16 DEF PlacedIn
    <3>2. i \in 1 .. processed
      BY <1>3, <1>16, <3>1, RequestKinds
    <3>3. ~ Waits(queue, processed, Placed(p))
      <4> SUFFICES ASSUME NEW j \in processed + 1 .. Len(queue), queue[j].event = Placed(p)
                   PROVE  FALSE
        BY DEF Waits
      <4>1. i \in DOMAIN queue /\ j \in DOMAIN queue /\ i # j
        BY <1>2, <1>3, <3>2
      <4>2. queue[i].event.type = "Placed"  BY <3>1 DEF Placed
      <4> QED BY <1>2, <3>1, <4>1, <4>2 DEF OncePlaced
    <3>4. Tells(mail[Sender(p)], p, ActiveOf(actor[Sender(p)], p), InBook(book, p))
      BY <1>7, <1>16, <3>3 DEF ViewInv
    <3>5. InBook(book, p) = {} /\ ActiveOf(actor[Sender(p)], p) # {}
      BY <1>16, <2>3, NotInBook, ActiveOfIs
    <3>6. PICK k \in DOMAIN mail[Sender(p)] :
            p \in Mentioned(mail[Sender(p)][k]) /\ Says(mail[Sender(p)][k], p) = {}
      BY <3>4, <3>5 DEF Tells
    <3> QED BY <1>12, <2>1, <3>6 DEF Ends, Joined
  <2> QED BY <2>2, <2>3
<1>17. CancelInv(queue, n, mail', actor, failed)
  BY <1>7, <1>2, <1>12, <1>3, <1>16 DEF CancelInv, Joined
<1> QED BY <1>1, <1>7, <1>13, <1>14, <1>15, <1>17 DEF RestInvNext, UnderWay

\* When all that mentions an order leaves the same of it, this is what is told.
LEMMA TellsSame ==
  ASSUME NEW s \in Seq(Events), NEW p, NEW B, \A e \in ToSet(s) : p \in Mentioned(e) => Says(e, p) = B
  PROVE  Silent(s, p) \/ \A A : Tells(s, p, A, B)
<1> DEFINE G == {t \in Seq(Events) : Silent(t, p) \/ \A A : Tells(t, p, A, B)}
<1>1. <<>> \in G  BY TellsNothing
<1>2. ASSUME NEW t \in Seq(Events), NEW e \in Events, t \in G, e \in ToSet(s) PROVE Append(t, e) \in G
  BY TellsAppend, <1>2
<1> HIDE DEF G
<1>3. s \in G  BY <1>1, <1>2, EventsInduction
<1> QED BY <1>3 DEF G

\* What a book tells of the orders that it comes back with
Announced(b) ==
  LET orders == b["buy"] \o b["sell"]
  IN  [i \in DOMAIN orders |-> OrderAdded(orders[i])]

LEMMA AnnouncedTells ==
  ASSUME NEW b, GoodBook(b)
  PROVE  /\ Announced(b) \in Seq(Events) /\ About(Announced(b), IdsIn(b))
         /\ \A p : Tells(Announced(b), p, {}, InBook(b, p))
<1> DEFINE orders == b["buy"] \o b["sell"]
           s == [i \in DOMAIN orders |-> OrderAdded(orders[i])]
<1>1. b["buy"] \in Seq(LimitOrders) /\ b["sell"] \in Seq(LimitOrders) /\ Side = {"buy", "sell"}
  BY DEF GoodBook, Side
<1>2. Joined(orders, b["buy"], b["sell"]) /\ orders \in Seq(LimitOrders)
  <2> DEFINE u == b["buy"]
             v == b["sell"]
  <2>1. u \in Seq(LimitOrders) /\ v \in Seq(LimitOrders)
    BY <1>1
  <2> HIDE DEF u, v
  <2>2. Joined(u \o v, u, v)  BY <2>1, ConcatElements
  <2>3. u \o v \in Seq(LimitOrders)
    BY ONLY <2>1, ConcatProperties
  <2> QED BY <2>2, <2>3 DEF u, v
<1> HIDE DEF orders
<1>3. /\ Len(orders) \in Nat /\ DOMAIN orders = 1 .. Len(orders)
      /\ \A i \in DOMAIN orders : orders[i] \in LimitOrders
  BY <1>2
<1>4. /\ \A i \in DOMAIN orders : orders[i] \in AllOrders(b)
      /\ \A lo \in AllOrders(b) : \E i \in DOMAIN orders : orders[i] = lo
  BY <1>1, AllOrdersOf, <1>2 DEF Joined, ToSet
<1>5. ASSUME NEW i \in DOMAIN orders
      PROVE  /\ i \in DOMAIN s /\ s[i] = OrderAdded(orders[i]) /\ s[i] \in Events /\ Proper(s[i])
             /\ Mentioned(s[i]) = {orders[i].id}
             /\ \A p : Says(s[i], p) = {x \in {orders[i]} : x.id = p}
  BY <1>3, AddedSays
<1>6. s \in Seq(Events) /\ DOMAIN s = DOMAIN orders
  BY <1>3, <1>5
<1> HIDE DEF s
<1>7. About(s, IdsIn(b))  BY <1>4, <1>5, <1>6 DEF About, IdsIn
<1>8. ASSUME NEW p PROVE Tells(s, p, {}, InBook(b, p))
  <2>1. ASSUME NEW i \in DOMAIN s, p \in Mentioned(s[i]) PROVE Says(s[i], p) = InBook(b, p)
    BY <1>4, <1>5, <1>6, <2>1, GoodBookIds DEF InBook
  <2>2. \A e \in ToSet(s) : p \in Mentioned(e) => Says(e, p) = InBook(b, p)
    BY <2>1 DEF ToSet
  <2>3. CASE Silent(s, p)
    BY <1>4, <1>5, <1>6, <2>3 DEF InBook, Silent, Tells
  <2> QED BY <1>6, <2>2, <2>3, TellsSame
<1>9. Announced(b) = s  BY DEF Announced, s, orders
<1> QED BY <1>6, <1>7, <1>8, <1>9

LEMMA RestartRest ==
  ASSUME TradingInv, RestInv, Restart PROVE RestInvNext
<1>1. PICK n \in 0 .. processed : ComeBackWith(n, Replay(n))
  BY DEF Restart
<1> DEFINE b == Replay(n).book
<1>2. /\ processed' = n /\ book' = b
      /\ mail' = [w \in Owner |-> EventsFor(w, Announced(b))]
      /\ actor' = [w \in Owner |-> StartingActor] /\ failed' = {}
      /\ queue' = queue
  BY <1>1 DEF Restart, ComeBackWith, Announced
<1>3. /\ queue \in Seq(Entries) /\ OncePlaced(queue) /\ n \in 0 .. Len(queue)
      /\ \A o \in Id : Sender(o) \in Owner
  BY InvParts
<1>4. GoodBook(b) /\ IdsIn(b) \subseteq PlacedIn(queue, n)
  BY <1>3, ReplayExplained DEF Explained, Faithful
<1> HIDE DEF b
<1>5. /\ Announced(b) \in Seq(Events) /\ About(Announced(b), IdsIn(b))
      /\ \A p : Tells(Announced(b), p, {}, InBook(b, p))
  BY <1>4, AnnouncedTells
<1>6. \A w \in Owner :
        /\ mail'[w] \in Seq(Events) /\ \A i \in DOMAIN mail'[w] : w \in Parties(mail'[w][i])
        /\ About(mail'[w], IdsIn(b))
        /\ \A p : Sender(p) = w => Tells(mail'[w], p, {}, InBook(b, p))
  BY <1>2, <1>5, EventsForTells
<1>7. \A w \in Owner : actor'[w].active = <<>> /\ actor'[w].pendingPlacement = {}
                       /\ actor'[w].pendingCancellation = {}
  BY <1>2 DEF StartingActor
<1>8. DOMAIN <<>> = {}  OBVIOUS
<1>9. ViewInv(queue, n, b, mail', actor', {})
  BY <1>3, <1>7, <1>8, <1>6 DEF ViewInv, ActiveOf
<1>10. MailInv(queue, n, mail')
  BY <1>4, <1>6 DEF MailInv, About
<1>11. OwnInv(actor')  BY <1>7, <1>8 DEF OwnInv
<1>12. FailedInv(queue, actor', {})  BY DEF FailedInv
<1>13. PlaceInv(queue, n, mail', actor', {}) /\ CancelInv(queue, n, mail', actor', {})
  BY <1>3, <1>7 DEF PlaceInv, CancelInv
<1> QED BY <1>2, <1>9, <1>10, <1>11, <1>12, <1>13 DEF RestInvNext, UnderWay

\* Other steps
LEMMA OtherRest ==
  ASSUME RestInv, UNCHANGED <<queue, processed, book, mail, actor, failed>>
  PROVE  RestInvNext
  BY DEF RestInv, RestInvNext

LEMMA RestInit == Init => RestInv
<1> SUFFICES ASSUME Init PROVE RestInv  OBVIOUS
<1>1. /\ queue = <<>> /\ processed = 0 /\ book = EmptyBook /\ failed = {}
      /\ mail = [w \in Owner |-> <<>>] /\ actor = [w \in Owner |-> StartingActor]
  BY DEF Init
<1>2. \A w \in Owner : /\ mail[w] = <<>> /\ actor[w].active = <<>> /\ actor[w].pendingPlacement = {}
                       /\ actor[w].pendingCancellation = {}
  BY <1>1 DEF StartingActor
<1>3. DOMAIN <<>> = {} /\ \A p \in Id : Sender(p) \in Owner
  BY TradingAssumption DEF Sender
<1>4. AllOrders(book) = {}  BY <1>1, EmptyBookIsGood
<1>5. ViewInv(queue, processed, book, mail, actor, failed)
  <2> SUFFICES ASSUME NEW p \in Id
               PROVE  Tells(mail[Sender(p)], p, ActiveOf(actor[Sender(p)], p), InBook(book, p))
    BY DEF ViewInv
  <2>1. ActiveOf(actor[Sender(p)], p) = {} /\ InBook(book, p) = {} /\ mail[Sender(p)] = <<>>
    BY <1>2, <1>3, <1>4 DEF ActiveOf, InBook
  <2> QED BY <2>1, TellsNothing
<1>6. MailInv(queue, processed, mail)
  BY <1>2, <1>3 DEF MailInv, About
<1>7. OwnInv(actor)  BY <1>2, <1>3 DEF OwnInv
<1>8. FailedInv(queue, actor, failed)  BY <1>1 DEF FailedInv
<1>9. PlaceInv(queue, processed, mail, actor, failed) /\ CancelInv(queue, processed, mail, actor, failed)
  BY <1>2, <1>3 DEF PlaceInv, CancelInv
<1> QED BY <1>5, <1>6, <1>7, <1>8, <1>9 DEF RestInv, UnderWay

LEMMA RestStep == TradingInv /\ RestInv /\ [Next]_vars => RestInvNext
<1> SUFFICES ASSUME TradingInv, RestInv, [Next]_vars PROVE RestInvNext
  OBVIOUS
<1>1. ASSUME NEW o \in Id, MaySend(o), PlaceOrder(o) PROVE RestInvNext
  BY <1>1, PlaceOrderRest
<1>2. ASSUME NEW o \in Id, CancelOrder(o) PROVE RestInvNext
  BY <1>2, CancelOrderRest
<1>3. ASSUME NEW o \in Id, CancelExpiredOrder(o) PROVE RestInvNext
  BY <1>3, CancelExpiredOrderRest
<1>4. ASSUME NEW w \in Owner, CancelAllOrders(w) PROVE RestInvNext
  BY <1>4, CancelAllOrdersRest
<1>5. ASSUME NEW w \in Owner, BalanceUpdated(w) PROVE RestInvNext
  BY <1>5, BalanceUpdatedRest
<1>6. ASSUME NEW w \in Owner, HandleEvent(w) PROVE RestInvNext
  BY <1>6, HandleEventRest
<1>7. ASSUME NEW w \in Owner, NEW a \in Asset, Spend(w, a) PROVE RestInvNext
  BY <1>7, OtherRest DEF Spend, bookVars
<1>8. CASE ApplyNext  BY <1>8, ApplyNextRest
<1>9. CASE Settle  BY <1>9, OtherRest DEF Settle, bookVars
<1>10. CASE Tick  BY <1>10, OtherRest DEF Tick, bookVars
<1>11. CASE Restart  BY <1>11, RestartRest
<1>12. CASE UNCHANGED vars
  BY <1>12, OtherRest DEF vars, bookVars
<1> QED BY <1>1, <1>2, <1>3, <1>4, <1>5, <1>6, <1>7, <1>8, <1>9, <1>10, <1>11, <1>12 DEF Next

----------------------------------------------------------------------------
(* The invariant of what has been executed *)

\* After some entry, the order has been placed, is not in the book, and x of it has
\* been executed.
EndedBy(q, o, x) ==
  \E k \in 1 .. Len(q) : /\ o \in PlacedIn(q, k) /\ o \notin IdsIn(Replayed(q, k).book)
                         /\ Total(o, Replayed(q, k).trades) = x

\* The book is what the entries that it has applied make of it, also after a restart.
ReplayInv(q, done, b, T) == b = Replayed(q, done).book /\ T = Replayed(q, done).trades

\* A final status, and an event on its way that ends an order, tell what has been
\* executed when it left the book.
InfoInv(q, info) ==
  \A o \in Id : info[o] # NotFound => EndedBy(q, o, info[o].filled)

EndsInv(q, msgs) ==
  \A w \in Owner : \A e \in ToSet(msgs[w]) : \A p : Ends(e, p) =>
    EndedBy(q, p, FilledAmount(LeftIn(e, p)))

FilledInv ==
  /\ ReplayInv(queue, processed, book, trades)
  /\ InfoInv(queue, orderInfo)
  /\ EndsInv(queue, mail)

FilledInvNext ==
  /\ ReplayInv(queue', processed', book', trades')
  /\ InfoInv(queue', orderInfo')
  /\ EndsInv(queue', mail')

LEMMA FilledNext == FilledInvNext => FilledInv'
  BY DEF FilledInv, FilledInvNext

\* What ended by an entry has ended by the entries of a longer queue.
LEMMA EndedByMore ==
  ASSUME NEW q \in Seq(Entries), OncePlaced(q), NEW r \in Seq(Entries), OncePlaced(r),
         Len(q) <= Len(r), \A i \in 1 .. Len(q) : r[i] = q[i],
         NEW o, NEW x, EndedBy(q, o, x)
  PROVE  EndedBy(r, o, x)
<1>1. PICK k \in 1 .. Len(q) : /\ o \in PlacedIn(q, k) /\ o \notin IdsIn(Replayed(q, k).book)
                               /\ Total(o, Replayed(q, k).trades) = x
  BY DEF EndedBy
<1>2. k \in 1 .. Len(r) /\ k \in 0 .. Len(q) /\ \A i \in 1 .. k : i \in 1 .. Len(q)
  OBVIOUS
<1>3. Replayed(q, k) = Replayed(r, k)  BY <1>2, ReplayedSame
<1>4. o \in PlacedIn(r, k)  BY <1>1, <1>2 DEF PlacedIn
<1> QED BY <1>1, <1>2, <1>3, <1>4 DEF EndedBy

LEMMA StoredFilled ==
  ASSUME TradingInv, TradingInvNext, FilledInv, OnlyStored
  PROVE  FilledInvNext
<1>1. PICK K \in Seq(Entries) : /\ queue' = queue \o K
                                /\ UNCHANGED <<processed, book, trades, mail, orderInfo>>
  BY DEF OnlyStored, Stores
<1>2. /\ queue \in Seq(Entries) /\ OncePlaced(queue) /\ processed \in 0 .. Len(queue)
      /\ queue' \in Seq(Entries) /\ OncePlaced(queue')
  BY DEF TradingInv, TradingInvNext, QueueInv
<1>3. Len(queue) <= Len(queue') /\ \A i \in 1 .. Len(queue) : queue'[i] = queue[i]
  BY <1>1, <1>2
<1>4. Replayed(queue', processed) = Replayed(queue, processed)
  BY <1>2, <1>3, ReplayedSame
<1>5. \A o, x : EndedBy(queue, o, x) => EndedBy(queue', o, x)
  BY <1>2, <1>3, EndedByMore
<1>6. ReplayInv(queue', processed', book', trades')
  BY <1>1, <1>4 DEF FilledInv, ReplayInv
<1>7. InfoInv(queue', orderInfo')
  BY <1>1, <1>5 DEF FilledInv, InfoInv
<1>8. EndsInv(queue', mail')
  BY <1>1, <1>5 DEF FilledInv, EndsInv
<1> QED BY <1>6, <1>7, <1>8 DEF FilledInvNext

\* An order that an event ends for its receiver is one that the event ends, with all
\* but what is left of it.
LEMMA TerminatedEnds ==
  ASSUME NEW x, NEW w, NEW e \in Events, Proper(e), NEW t \in Terminated(x, w, e)
  PROVE  Ends(e, t[1]) /\ t[2].filled = FilledAmount(LeftIn(e, t[1]))
<1>1. \A n : Filled(n).filled = n /\ Cancelled(n).filled = n
  BY DEF Filled, Cancelled
<1>2. CASE e.type = "OrderExecuted"
  <2> DEFINE S == SubmittedRemaining(e)
             C == CounterRemaining(e)
  <2>1. PICK lo \in {S, C} : ~ IsValid(lo) /\ t = <<lo.id, Filled(FilledAmount(lo))>>
    BY <1>2 DEF Terminated
  <2>2. e.submitted \in LimitOrders /\ e.counter \in LimitOrders /\ e.submitted.id # e.counter.id
    BY <1>2 DEF Events, Proper
  <2>3. S.id = e.submitted.id /\ C.id = e.counter.id
    BY <2>2 DEF SubmittedRemaining, CounterRemaining, Remaining, LimitOrders
  <2>4. LeftIn(e, S.id) = S /\ LeftIn(e, C.id) = C
    BY <1>2, <2>2, <2>3 DEF LeftIn
  <2>5. LeftBy(e) = {r \in {S, C} : IsValid(r)} /\ Mentioned(e) = {S.id, C.id}
    BY <1>2, <2>3 DEF LeftBy, Mentioned
  <2> HIDE DEF S, C
  <2>6. Ends(e, lo.id)
    BY <2>1, <2>2, <2>3, <2>5 DEF Ends, Says
  <2> QED BY <1>1, <2>1, <2>4, <2>6
<1>3. CASE e.type = "OrderCanceled"
  BY <1>3, <1>1 DEF Terminated, FinalStatus, LeftBy, Mentioned, LeftIn, Ends, Says
<1>4. CASE e.type \notin {"OrderExecuted", "OrderCanceled"}
  BY <1>4 DEF Terminated
<1> QED BY <1>2, <1>3, <1>4

LEMMA HandleEventFilled ==
  ASSUME TradingInv, RestInv, FilledInv, NEW w \in Owner, HandleEvent(w) PROVE FilledInvNext
<1> DEFINE s == mail[w]
           e == Head(s)
           T == Terminated(actor[w], w, e)
<1>1. /\ s # <<>> /\ mail' = [mail EXCEPT ![w] = Tail(s)]
      /\ orderInfo' = SaveOrderInfo(orderInfo, T)
      /\ UNCHANGED <<queue, processed, book, trades>>
  BY DEF HandleEvent, bookVars
<1>2. mail \in [Owner -> Seq(Events)] /\ s \in Seq(Events)
  BY InvParts
<1>3. /\ e = s[1] /\ 1 \in DOMAIN s
      /\ \A i \in DOMAIN Tail(s) : i + 1 \in DOMAIN s /\ Tail(s)[i] = s[i + 1]
  BY <1>1, <1>2
<1>4. e \in ToSet(s) /\ ToSet(Tail(s)) \subseteq ToSet(s)
  BY <1>3 DEF ToSet
<1>5. e \in Events /\ Proper(e)
  BY <1>1, <1>2, TellsTail, <1>3 DEF RestInv, UnderWay, MailInv, About
<1>6. ASSUME NEW o \in Id, orderInfo'[o] # NotFound
      PROVE  EndedBy(queue, o, orderInfo'[o].filled)
  BY <1>1, <1>6, <1>5, TerminatedEnds, <1>4 DEF SaveOrderInfo, FilledInv, EndsInv, InfoInv
<1>7. \A v \in Owner : ToSet(mail'[v]) \subseteq ToSet(mail[v])
  BY <1>1, <1>2, <1>4
<1> HIDE DEF s, e, T
<1>8. EndsInv(queue, mail')  BY <1>7 DEF FilledInv, EndsInv
<1>9. InfoInv(queue, orderInfo')  BY <1>6 DEF InfoInv
<1> QED BY <1>1, <1>8, <1>9 DEF FilledInv, FilledInvNext

LEMMA ApplyNextFilled ==
  ASSUME TradingInv, FilledInv, ApplyNext PROVE FilledInvNext
<1> DEFINE n == processed + 1
           r == Apply(book, queue[n])
           U == trades \o TradesOf(n, r.events)
<1>1. /\ processed < Len(queue) /\ processed' = n /\ book' = r.book /\ trades' = U
      /\ mail' = [w \in Owner |-> mail[w] \o EventsFor(w, r.events)]
      /\ UNCHANGED <<queue, orderInfo>>
  BY DEF ApplyNext
<1>2. /\ queue \in Seq(Entries) /\ OncePlaced(queue) /\ processed \in 0 .. Len(queue)
      /\ mail \in [Owner -> Seq(Events)] /\ Faithful(queue, processed, book, trades)
  BY InvParts
<1>3. n \in 1 .. Len(queue) /\ n - 1 = processed
  BY <1>1, <1>2
<1> HIDE DEF n
<1>4. EndedOutside(r.events, IdsIn(r.book), U)
  BY <1>2, <1>3, ApplyFaithful
<1>5. r.events \in Seq(Events) /\ About(r.events, PlacedIn(queue, n))
  BY <1>2, <1>3, ApplyTells DEF EntryTells
<1>6. Replayed(queue, n).book = r.book /\ Replayed(queue, n).trades = U
  <2> DEFINE s == Replayed(queue, n - 1)
  <2>1. Replayed(queue, n) = After(queue, n, s)
    BY <1>2, <1>3, ReplayedNext
  <2>2. s.book = book /\ s.trades = trades
    BY <1>3 DEF FilledInv, ReplayInv
  <2> HIDE DEF s
  <2>3. /\ After(queue, n, s).book = Apply(s.book, queue[n]).book
        /\ After(queue, n, s).trades = s.trades \o TradesOf(n, Apply(s.book, queue[n]).events)
    BY ZenonT(30) DEF After
  <2> QED BY <2>1, <2>2, <2>3
<1> HIDE DEF r, U
<1>7. ASSUME NEW e \in ToSet(r.events), NEW p, Ends(e, p)
      PROVE  EndedBy(queue, p, FilledAmount(LeftIn(e, p)))
  BY <1>4, <1>7, <1>5, <1>3, <1>6 DEF EndedOutside, About, Ends, ToSet, EndedBy
<1>8. ASSUME NEW w \in Owner
      PROVE  ToSet(mail'[w]) \subseteq ToSet(mail[w]) \cup ToSet(r.events)
  <2> DEFINE s == mail[w]
             t == EventsFor(w, r.events)
  <2>1. t \in Seq(Events) /\ ToSet(t) \subseteq ToSet(r.events)
    BY <1>5, WhereElements DEF EventsFor
  <2>2. s \in Seq(Events) /\ mail'[w] = s \o t  BY <1>1, <1>2
  <2> HIDE DEF s, t
  <2>3. Joined(s \o t, s, t)  BY <2>1, <2>2, ConcatElements
  <2>4. ToSet(s \o t) \subseteq ToSet(s) \cup ToSet(t)
    BY <2>3 DEF Joined, ToSet
  <2> QED BY <2>1, <2>2, <2>4 DEF s
<1>9. EndsInv(queue, mail')
  BY <1>7, <1>8 DEF FilledInv, EndsInv
<1>10. ReplayInv(queue, n, r.book, U)  BY <1>6 DEF ReplayInv
<1> QED BY <1>1, <1>9, <1>10 DEF FilledInv, FilledInvNext

\* A book that comes back ends no order.
LEMMA RestartFilled ==
  ASSUME TradingInv, FilledInv, Restart PROVE FilledInvNext
<1>1. PICK n \in 0 .. processed : ComeBackWith(n, Replay(n))
  BY DEF Restart
<1> DEFINE back == Replay(n)
           orders == back.book["buy"] \o back.book["sell"]
<1>2. /\ processed' = n /\ book' = back.book /\ trades' = back.trades
      /\ mail' = [w \in Owner |-> EventsFor(w, Announced(back.book))]
      /\ UNCHANGED <<queue, orderInfo>>
  BY <1>1 DEF Restart, ComeBackWith, Announced
<1>3. queue \in Seq(Entries) /\ OncePlaced(queue) /\ n \in 0 .. Len(queue)
  BY InvParts
<1>4. back = Replayed(queue, n) /\ GoodBook(back.book)
  BY <1>3, ReplayExplained DEF Explained, Faithful
<1>5. ReplayInv(queue, n, back.book, back.trades)
  BY <1>4 DEF ReplayInv
<1> HIDE DEF back
<1>6. ASSUME NEW e \in ToSet(Announced(back.book)), NEW p PROVE ~ Ends(e, p)
  <2>1. back.book["buy"] \in Seq(LimitOrders) /\ back.book["sell"] \in Seq(LimitOrders)
    BY <1>4 DEF GoodBook, Side
  <2>2. orders \in Seq(LimitOrders)
    BY ONLY <2>1, ConcatProperties
  <2>3. PICK i \in DOMAIN orders : e = OrderAdded(orders[i])
    BY <1>6 DEF Announced, ToSet
  <2>4. orders[i] \in LimitOrders
    <3> HIDE DEF orders
    <3> QED BY <2>2
  <2> QED BY <2>3, <2>4, AddedEnds
<1>7. \A w \in Owner : ToSet(mail'[w]) \subseteq ToSet(Announced(back.book))
  BY <1>4, AnnouncedTells, <1>2, WhereElements DEF EventsFor
<1>8. EndsInv(queue, mail')  BY <1>6, <1>7 DEF EndsInv
<1> QED BY <1>2, <1>5, <1>8 DEF FilledInv, FilledInvNext

LEMMA OtherFilled ==
  ASSUME FilledInv, UNCHANGED <<queue, processed, book, trades, mail, orderInfo>>
  PROVE  FilledInvNext
  BY DEF FilledInv, FilledInvNext

LEMMA FilledInit == Init => FilledInv
<1> SUFFICES ASSUME Init PROVE FilledInv  OBVIOUS
<1>1. /\ queue = <<>> /\ processed = 0 /\ book = EmptyBook /\ trades = <<>>
      /\ mail = [w \in Owner |-> <<>>] /\ orderInfo = [o \in Id |-> NotFound]
  BY DEF Init
<1>2. queue \in Seq(Entries) /\ OncePlaced(queue) /\ 0 \in 0 .. Len(queue)
  BY InvInit, InvParts
<1>3. Replayed(queue, 0) = Fresh  BY <1>2, ReplayedExplained
<1>4. ReplayInv(queue, processed, book, trades)
  BY <1>1, <1>3 DEF ReplayInv, Fresh
<1>5. InfoInv(queue, orderInfo)  BY <1>1 DEF InfoInv
<1>6. \A w \in Owner : ToSet(mail[w]) = {}  BY <1>1 DEF ToSet
<1>7. EndsInv(queue, mail)  BY <1>6 DEF EndsInv
<1> QED BY <1>4, <1>5, <1>7 DEF FilledInv

LEMMA FilledStep == TradingInv /\ RestInv /\ FilledInv /\ [Next]_vars => FilledInvNext
<1> SUFFICES ASSUME TradingInv, RestInv, FilledInv, [Next]_vars PROVE FilledInvNext
  OBVIOUS
<1>1. TradingInvNext  BY InvStep
<1>2. ASSUME NEW o \in Id, MaySend(o), PlaceOrder(o) PROVE FilledInvNext
  BY <1>1, <1>2, PlaceOrderRest, StoredFilled
<1>3. ASSUME NEW o \in Id, CancelOrder(o) PROVE FilledInvNext
  BY <1>1, <1>3, CancelOrderRest, StoredFilled
<1>4. ASSUME NEW o \in Id, CancelExpiredOrder(o) PROVE FilledInvNext
  BY <1>1, <1>4, CancelExpiredOrderRest, StoredFilled
<1>5. ASSUME NEW w \in Owner, CancelAllOrders(w) PROVE FilledInvNext
  BY <1>1, <1>5, CancelAllOrdersRest, StoredFilled
<1>6. ASSUME NEW w \in Owner, BalanceUpdated(w) PROVE FilledInvNext
  BY <1>1, <1>6, BalanceUpdatedRest, StoredFilled
<1>7. ASSUME NEW w \in Owner, HandleEvent(w) PROVE FilledInvNext
  BY <1>7, HandleEventFilled
<1>8. ASSUME NEW w \in Owner, NEW a \in Asset, Spend(w, a) PROVE FilledInvNext
  BY <1>8, OtherFilled DEF Spend, bookVars
<1>9. CASE ApplyNext  BY <1>9, ApplyNextFilled
<1>10. CASE Settle  BY <1>10, OtherFilled DEF Settle, bookVars
<1>11. CASE Tick  BY <1>11, OtherFilled DEF Tick, bookVars
<1>12. CASE Restart  BY <1>12, RestartFilled
<1>13. CASE UNCHANGED vars
  BY <1>13, OtherFilled DEF vars, bookVars
<1> QED BY <1>2, <1>3, <1>4, <1>5, <1>6, <1>7, <1>8, <1>9, <1>10, <1>11, <1>12, <1>13 DEF Next

\* What has ended is still as it was when the whole queue has been applied.
LEMMA EndedForGood ==
  ASSUME NEW q \in Seq(Entries), OncePlaced(q), NEW o \in Id, NEW x, EndedBy(q, o, x)
  PROVE  LET s == Replayed(q, Len(q))
         IN  o \notin IdsIn(s.book) /\ Total(o, s.trades) = x
<1>1. PICK k \in 1 .. Len(q) : /\ o \in PlacedIn(q, k) /\ o \notin IdsIn(Replayed(q, k).book)
                               /\ Total(o, Replayed(q, k).trades) = x
  BY DEF EndedBy
<1> DEFINE Out(s) == o \notin IdsIn(s.book) /\ Total(o, s.trades) = x
           N == Len(q) - k
           G == {i \in 0 .. N : Out(Replayed(q, k + i))}
<1>2. N \in Nat /\ k + N = Len(q) /\ k + 0 = k /\ Len(q) \in Nat
  OBVIOUS
<1>3. 0 \in G  BY <1>1, <1>2
<1>4. ASSUME NEW i \in 0 .. N, i # N, i \in G PROVE i + 1 \in G
  <2> DEFINE n == k + (i + 1)
  <2>1. n \in 1 .. Len(q) /\ n - 1 = k + i /\ n - 1 \in 0 .. Len(q) /\ k <= n - 1 /\ k \in Nat
        /\ n - 1 \in Nat /\ i + 1 \in 0 .. N
    BY <1>4
  <2> HIDE DEF n
  <2> DEFINE s == Replayed(q, n - 1)
  <2>2. Out(s)  BY <1>4, <2>1
  <2>3. Faithful(q, n - 1, s.book, s.trades)
    BY <2>1, ReplayedExplained DEF Explained
  <2>4. Replayed(q, n) = After(q, n, s)  BY <2>1, ReplayedNext
  <2>5. o \in PlacedIn(q, n - 1)  BY <1>1, <2>1, PlacedMore
  <2> HIDE DEF s
  <2>6. StaysOut(PlacedIn(q, n - 1), s.book, s.trades, Apply(s.book, q[n]).book,
                 s.trades \o TradesOf(n, Apply(s.book, q[n]).events))
    BY <2>1, <2>3, ApplyFaithful
  <2>7. Out(Replayed(q, n))
    BY <2>2, <2>4, <2>5, <2>6 DEF StaysOut, After
  <2> QED BY <2>1, <2>7 DEF n
<1>5. \A i \in 0 .. N : i \in G  BY <1>2, <1>3, <1>4, Climb
<1> QED BY <1>2, <1>5

----------------------------------------------------------------------------
(* What is left of an order never grows *)

\* For what is left of an order now there was something, and no less, left before.
NoMore(A, B) == \A y \in B : \E x \in A : y.amount <= x.amount /\ y.fee <= x.fee

\* Who takes A to be left of an order never hears of more from these events.
Shrinks(s, p, A) ==
  \A j \in DOMAIN s : p \in Mentioned(s[j]) =>
    /\ NoMore(A, Says(s[j], p))
    /\ \A i \in DOMAIN s : i < j /\ p \in Mentioned(s[i]) => NoMore(Says(s[i], p), Says(s[j], p))

\* No more than A is ever left, and no less than B.
Between(s, p, A, B) ==
  NoMore(A, B) /\ \A i \in DOMAIN s : p \in Mentioned(s[i]) => NoMore(Says(s[i], p), B)

LEMMA NoMoreOrder ==
  ASSUME NEW A \in SUBSET LimitOrders, NEW B \in SUBSET LimitOrders, NEW C \in SUBSET LimitOrders
  PROVE  NoMore(A, A) /\ (NoMore(A, B) /\ NoMore(B, C) => NoMore(A, C))
<1>0. \A x \in LimitOrders : x.amount \in Nat /\ x.fee \in Nat
  BY DEF LimitOrders
<1>1. NoMore(A, A)  BY <1>0 DEF NoMore
<1>2. ASSUME NoMore(A, B), NoMore(B, C) PROVE NoMore(A, C)
  BY <1>2, <1>0 DEF NoMore
<1> QED BY <1>1, <1>2

LEMMA SaysTyped ==
  ASSUME NEW e \in Events, NEW p
  PROVE  Says(e, p) \in SUBSET LimitOrders
<1>1. CASE e.type = "OrderAdded"
  BY <1>1 DEF Events, Says, LeftBy
<1>2. CASE e.type = "OrderCanceled"  BY <1>2 DEF Says, LeftBy
<1>3. CASE e.type = "OrderExecuted"
  BY <1>3, RemainingTyped DEF Events, SubmittedRemaining, CounterRemaining, Says, LeftBy
<1> QED BY <1>1, <1>2, <1>3 DEF Events

LEMMA ShrinksNothing ==
  ASSUME NEW p, NEW A
  PROVE  Shrinks(<<>>, p, A)
<1>1. DOMAIN <<>> = {}  OBVIOUS
<1> QED BY <1>1 DEF Shrinks

LEMMA ShrinksSilent ==
  ASSUME NEW s, NEW p, NEW A, Silent(s, p)
  PROVE  Shrinks(s, p, A)
  BY DEF Shrinks, Silent

\* One event more
LEMMA ShrinksAppend ==
  ASSUME NEW s \in Seq(Events), NEW e \in Events, NEW p, NEW A
  PROVE  Shrinks(Append(s, e), p, A) <=>
           /\ Shrinks(s, p, A)
           /\ p \in Mentioned(e) =>
                /\ NoMore(A, Says(e, p))
                /\ \A d \in ToSet(s) : p \in Mentioned(d) => NoMore(Says(d, p), Says(e, p))
<1> DEFINE t == Append(s, e)
           n == Len(s)
<1>1. /\ n \in Nat /\ DOMAIN s = 1 .. n /\ DOMAIN t = 1 .. n + 1 /\ t[n + 1] = e
      /\ \A i \in 1 .. n : t[i] = s[i]
  OBVIOUS
<1> HIDE DEF t, n
<1>2. /\ \A i \in 1 .. n + 1 : i \in 1 .. n \/ i = n + 1
      /\ n + 1 \in 1 .. n + 1
      /\ \A i \in 1 .. n : i \in 1 .. n + 1 /\ i < n + 1 /\ ~ n + 1 < i
      /\ ~ n + 1 < n + 1
  BY <1>1
<1>3. \A d : d \in ToSet(s) <=> \E i \in 1 .. n : d = s[i]
  BY <1>1 DEF ToSet
<1>4. ASSUME Shrinks(t, p, A)
      PROVE  /\ Shrinks(s, p, A)
             /\ p \in Mentioned(e) =>
                  /\ NoMore(A, Says(e, p))
                  /\ \A d \in ToSet(s) : p \in Mentioned(d) => NoMore(Says(d, p), Says(e, p))
  BY <1>1, <1>2, <1>4, <1>3 DEF Shrinks
<1>5. ASSUME Shrinks(s, p, A),
             p \in Mentioned(e) =>
                /\ NoMore(A, Says(e, p))
                /\ \A d \in ToSet(s) : p \in Mentioned(d) => NoMore(Says(d, p), Says(e, p))
      PROVE  Shrinks(t, p, A)
  BY <1>1, <1>5, <1>2, <1>3 DEF Shrinks
<1> QED BY <1>4, <1>5 DEF t

\* Some of the events
LEMMA ShrinksFilter ==
  ASSUME NEW s \in Seq(Events), NEW S, NEW p, NEW A, Shrinks(s, p, A)
  PROVE  Shrinks(Where(s, S), p, A)
<1> DEFINE G == {u \in Seq(Events) : Shrinks(u, p, A) => Shrinks(Where(u, S), p, A)}
<1>1. <<>> \in G  BY WhereNothing
<1>2. ASSUME NEW u \in Seq(Events), NEW e \in Events, u \in G PROVE Append(u, e) \in G
  <2>1. Append(u, e) \in Seq(Events)  OBVIOUS
  <2>2. Where(u, S) \in Seq(Events) /\ ToSet(Where(u, S)) \subseteq ToSet(u)
    BY WhereElements
  <2>3. Where(Append(u, e), S) = IF e \in S THEN Append(Where(u, S), e) ELSE Where(u, S)
    BY WhereAppend
  <2>4. Shrinks(Append(u, e), p, A) <=>
           /\ Shrinks(u, p, A)
           /\ p \in Mentioned(e) =>
                /\ NoMore(A, Says(e, p))
                /\ \A d \in ToSet(u) : p \in Mentioned(d) => NoMore(Says(d, p), Says(e, p))
    BY ShrinksAppend
  <2>5. Shrinks(Append(Where(u, S), e), p, A) <=>
           /\ Shrinks(Where(u, S), p, A)
           /\ p \in Mentioned(e) =>
                /\ NoMore(A, Says(e, p))
                /\ \A d \in ToSet(Where(u, S)) : p \in Mentioned(d) => NoMore(Says(d, p), Says(e, p))
    BY <2>2, ShrinksAppend
  <2> QED BY <1>2, <2>1, <2>2, <2>3, <2>4, <2>5
<1>3. s \in G  BY <1>1, <1>2, EventsInduction
<1> QED BY <1>3

\* What is told last is what is left at the end.
LEMMA TellsBetween ==
  ASSUME NEW s \in Seq(Events), NEW p, NEW A \in SUBSET LimitOrders, NEW B \in SUBSET LimitOrders,
         Tells(s, p, A, B), Shrinks(s, p, A)
  PROVE  Between(s, p, A, B)
<1>1. CASE A = B /\ Silent(s, p)
  BY <1>1, NoMoreOrder DEF Between, Silent
<1>2. CASE ~ (A = B /\ Silent(s, p))
  BY <1>2, NoMoreOrder DEF Tells, Shrinks, Between
<1> QED BY <1>1, <1>2

\* Events one after the other
LEMMA ShrinksConcat ==
  ASSUME NEW s \in Seq(Events), NEW t \in Seq(Events), NEW p,
         NEW A \in SUBSET LimitOrders, NEW B \in SUBSET LimitOrders,
         Shrinks(s, p, A), Shrinks(t, p, B), Between(s, p, A, B)
  PROVE  Shrinks(s \o t, p, A)
<1>1. /\ Len(s) \in Nat /\ Len(t) \in Nat /\ DOMAIN s = 1 .. Len(s) /\ DOMAIN t = 1 .. Len(t)
      /\ DOMAIN (s \o t) = 1 .. Len(s) + Len(t)
      /\ \A i \in 1 .. Len(s) + Len(t) : (s \o t)[i] = IF i <= Len(s) THEN s[i] ELSE t[i - Len(s)]
      /\ \A i \in DOMAIN s : s[i] \in Events
      /\ \A i \in DOMAIN t : t[i] \in Events
  OBVIOUS
<1> DEFINE u == s \o t
           m == Len(s)
           n == Len(t)
<1>2. /\ m \in Nat /\ n \in Nat /\ DOMAIN s = 1 .. m /\ DOMAIN t = 1 .. n /\ DOMAIN u = 1 .. m + n
      /\ \A i \in 1 .. m + n : u[i] = IF i <= m THEN s[i] ELSE t[i - m]
  BY <1>1
<1> HIDE DEF u, m, n
<1>3. \A i \in 1 .. m + n : \/ i \in 1 .. m /\ u[i] = s[i]
                            \/ i > m /\ i - m \in 1 .. n /\ u[i] = t[i - m]
  BY <1>2
<1>4. \A i \in 1 .. m + n, j \in 1 .. m + n : j \in 1 .. m /\ i < j => i \in 1 .. m
  BY <1>2
<1>5. \A i \in 1 .. n : Says(t[i], p) \in SUBSET LimitOrders
  BY <1>1, <1>2, SaysTyped
<1>6. \A i \in 1 .. m : Says(s[i], p) \in SUBSET LimitOrders
  BY <1>1, <1>2, SaysTyped
<1> SUFFICES ASSUME NEW j \in 1 .. m + n, p \in Mentioned(u[j])
             PROVE  /\ NoMore(A, Says(u[j], p))
                    /\ \A i \in 1 .. m + n : i < j /\ p \in Mentioned(u[i])
                                               => NoMore(Says(u[i], p), Says(u[j], p))
  BY <1>2 DEF Shrinks, u
<1>7. CASE j \in 1 .. m  BY <1>2, <1>3, <1>7, <1>4 DEF Shrinks
<1>8. CASE j > m /\ j - m \in 1 .. n /\ u[j] = t[j - m]
  <2> DEFINE C == Says(u[j], p)
  <2>1. C \in SUBSET LimitOrders /\ NoMore(B, C)
    BY <1>2, <1>5, <1>8 DEF Shrinks
  <2> HIDE DEF C
  <2>2. NoMore(A, B)  BY DEF Between
  <2>3. NoMore(A, C)  BY <2>1, <2>2, NoMoreOrder
  <2>4. ASSUME NEW i \in 1 .. m + n, i < j, p \in Mentioned(u[i])
        PROVE  NoMore(Says(u[i], p), C)
    <3>1. CASE i \in 1 .. m /\ u[i] = s[i]
      <4> DEFINE D == Says(u[i], p)
      <4>1. D \in SUBSET LimitOrders /\ NoMore(D, B)
        BY <1>2, <1>6, <2>4, <3>1 DEF Between
      <4> HIDE DEF D
      <4>2. NoMore(D, C)  BY <2>1, <4>1, NoMoreOrder
      <4> QED BY <4>2 DEF D
    <3>2. CASE i > m /\ i - m \in 1 .. n /\ u[i] = t[i - m]
      BY <1>2, <2>4, <1>8, <3>2 DEF Shrinks, C
    <3> QED BY <1>3, <3>1, <3>2
  <2> QED BY <2>3, <2>4 DEF C
<1> QED BY <1>3, <1>7, <1>8

\* The first event is handled.
LEMMA ShrinksTail ==
  ASSUME NEW s \in Seq(Events), s # <<>>, NEW p, NEW A, Shrinks(s, p, A)
  PROVE  /\ p \in Mentioned(Head(s)) => NoMore(A, Says(Head(s), p))
         /\ Shrinks(Tail(s), p, IF p \in Mentioned(Head(s)) THEN Says(Head(s), p) ELSE A)
<1> DEFINE n == Len(s)
           t == Tail(s)
<1>1. /\ n \in Nat \ {0} /\ DOMAIN s = 1 .. n /\ DOMAIN t = 1 .. n - 1 /\ Head(s) = s[1]
      /\ \A i \in 1 .. n - 1 : t[i] = s[i + 1]
  OBVIOUS
<1> HIDE DEF t, n
<1>2. /\ 1 \in 1 .. n
      /\ \A i \in 1 .. n - 1 : i + 1 \in 1 .. n /\ 1 < i + 1
      /\ \A i, j \in 1 .. n - 1 : i < j => i + 1 < j + 1
  BY <1>1
<1>3. p \in Mentioned(Head(s)) => NoMore(A, Says(Head(s), p))
  BY <1>1, <1>2 DEF Shrinks
<1> DEFINE B == IF p \in Mentioned(Head(s)) THEN Says(Head(s), p) ELSE A
<1>4. ASSUME NEW j \in 1 .. n - 1, p \in Mentioned(t[j])
      PROVE  /\ NoMore(B, Says(t[j], p))
             /\ \A i \in 1 .. n - 1 : i < j /\ p \in Mentioned(t[i])
                                        => NoMore(Says(t[i], p), Says(t[j], p))
  BY <1>1, <1>2, <1>4 DEF Shrinks
<1>5. Shrinks(t, p, B)  BY <1>1, <1>4 DEF Shrinks
<1> QED BY <1>3, <1>5 DEF t

\* One event, and two
LEMMA ShrinksOne ==
  ASSUME NEW e \in Events, NEW p, NEW A
  PROVE  Shrinks(<<e>>, p, A) <=> (p \in Mentioned(e) => NoMore(A, Says(e, p)))
<1>1. <<>> \in Seq(Events) /\ Append(<<>>, e) = <<e>>  OBVIOUS
<1>2. ToSet(<<>>) = {}  BY DEF ToSet
<1>3. Shrinks(Append(<<>>, e), p, A) <=>
           /\ Shrinks(<<>>, p, A)
           /\ p \in Mentioned(e) =>
                /\ NoMore(A, Says(e, p))
                /\ \A d \in ToSet(<<>>) : p \in Mentioned(d) => NoMore(Says(d, p), Says(e, p))
  BY <1>1, ShrinksAppend
<1> QED BY <1>1, <1>2, <1>3, ShrinksNothing

\* The second ends what it is about.
LEMMA ShrinksTwo ==
  ASSUME NEW e \in Events, NEW d \in Events, NEW p, NEW A, Says(d, p) = {}
  PROVE  Shrinks(<<e, d>>, p, A) <=> (p \in Mentioned(e) => NoMore(A, Says(e, p)))
<1>1. <<e>> \in Seq(Events) /\ Append(<<e>>, d) = <<e, d>>
  <2>1. <<>> \in Seq(Events) /\ <<>> \o <<e>> = <<e>> /\ <<>> \o <<e, d>> = <<e, d>>
    OBVIOUS
  <2>2. <<>> \o <<e>> = Append(<<>>, e) /\ <<>> \o <<e, d>> = Append(Append(<<>>, e), d)
    BY <2>1, EventsConcat
  <2>3. <<e>> \in Seq(Events)  OBVIOUS
  <2> QED BY <2>1, <2>2, <2>3
<1>2. \A B : NoMore(B, {})  BY DEF NoMore
<1>3. Shrinks(Append(<<e>>, d), p, A) <=>
           /\ Shrinks(<<e>>, p, A)
           /\ p \in Mentioned(d) =>
                /\ NoMore(A, Says(d, p))
                /\ \A c \in ToSet(<<e>>) : p \in Mentioned(c) => NoMore(Says(c, p), Says(d, p))
  BY <1>1, ShrinksAppend
<1>4. Shrinks(Append(<<e>>, d), p, A) <=> Shrinks(<<e>>, p, A)
  BY <1>2, <1>3
<1> QED BY <1>1, <1>4, ShrinksOne

----------------------------------------------------------------------------
(* Applying an entry tells of no more of any order *)

\* What is left of the orders of the book and of lo, which is submitted, shrinks.
AllShrinks(s, lo, b) ==
  /\ Shrinks(s, lo.id, {lo})
  /\ \A p : p # lo.id => Shrinks(s, p, InBook(b, p))

LEMMA RemainingLess ==
  ASSUME NEW lo \in LimitOrders, NEW executed \in Nat
  PROVE  NoMore({lo}, {Remaining(lo, executed)})
<1>1. PartialFee(lo.id, executed) \in Nat
  BY PartialFeeFacts DEF LimitOrders
<1>2. lo \in [id : Id, amount : Nat, fee : Nat]
  BY DEF LimitOrders
<1> DEFINE less == NotNegative(lo.amount - executed)
           fee == NotNegative(lo.fee - PartialFee(lo.id, executed))
<1>3. less \in Nat /\ less <= lo.amount /\ fee \in Nat /\ fee <= lo.fee
  BY <1>1, <1>2 DEF NotNegative
<1>4. Remaining(lo, executed) = [lo EXCEPT !.amount = less, !.fee = fee]
  BY DEF Remaining
<1> HIDE DEF less, fee
<1>5. Remaining(lo, executed) = [id |-> lo.id, amount |-> less, fee |-> fee]
  BY <1>2, <1>4
<1> QED BY <1>3, <1>5 DEF NoMore

LEMMA ExecutedLess ==
  ASSUME NEW s \in LimitOrders, NEW c \in LimitOrders, s.id # c.id
  PROVE  LET e == OrderExecuted(s, c)
         IN  /\ NoMore({s}, {SubmittedRemaining(e)})
             /\ NoMore({s}, Says(e, s.id)) /\ NoMore({c}, Says(e, c.id))
<1> DEFINE e == OrderExecuted(s, c)
<1>1. /\ Says(e, s.id) \subseteq {SubmittedRemaining(e)}
      /\ Says(e, c.id) \subseteq {CounterRemaining(e)}
  BY ExecutedSays
<1>2. /\ SubmittedRemaining(e) = Remaining(s, e.executed)
      /\ CounterRemaining(e) = Remaining(c, e.executed)
  BY OrderExecutedFacts
<1>3. e.executed \in Nat  BY ExecutedFacts DEF OrderExecuted
<1> HIDE DEF e
<1>4. NoMore({s}, {SubmittedRemaining(e)}) /\ NoMore({c}, {CounterRemaining(e)})
  BY <1>2, <1>3, RemainingLess
<1>5. NoMore({s}, Says(e, s.id)) /\ NoMore({c}, Says(e, c.id))
  BY <1>1, <1>4 DEF NoMore
<1> QED BY <1>4, <1>5 DEF e

LEMMA LastShrinks ==
  ASSUME NEW b, GoodBook(b), NEW lo \in LimitOrders, IsValid(lo), lo.id \notin IdsIn(b), NEW ts
  PROVE  AllShrinks(EndMatch(b, lo).events, lo, b)
<1> DEFINE end == EndMatch(b, lo)
<1>1. end.events \in Seq(Events) /\ Outcome(b, lo, end)
  BY EndMatchFacts
<1>2. \A x \in AllOrders(b) : x.id # lo.id  BY DEF IdsIn
<1>3. \A A : NoMore(A, {})  BY DEF NoMore
<1> HIDE DEF end
<1>4. CASE end.events = <<OrderAdded(lo)>>
  <2> DEFINE e == OrderAdded(lo)
  <2>1. e \in Events /\ Mentioned(e) = {lo.id} /\ Says(e, lo.id) = {lo}
    BY AddedSays
  <2> HIDE DEF e
  <2>2. {lo} \in SUBSET LimitOrders  OBVIOUS
  <2>3. NoMore({lo}, Says(e, lo.id))
    BY <2>1, <2>2, NoMoreOrder
  <2>4. AllShrinks(<<e>>, lo, b)
    BY <2>1, <2>3, ShrinksOne DEF AllShrinks
  <2> QED BY <1>4, <2>4 DEF end, e
<1>5. CASE end.events = <<OrderCanceled(lo, TRUE)>>
  <2> DEFINE e == OrderCanceled(lo, TRUE)
  <2>1. e \in Events /\ \A p : Says(e, p) = {}
    BY CanceledSays
  <2> HIDE DEF e
  <2>2. AllShrinks(<<e>>, lo, b)
    BY <1>3, <2>1, ShrinksOne DEF AllShrinks
  <2> QED BY <1>5, <2>2 DEF end, e
<1>6. ASSUME NEW c \in AllOrders(b),
             LET x == OrderExecuted(lo, c)
             IN  \/ end.events = <<x>>
                 \/ end.events = <<x, OrderCanceled(SubmittedRemaining(x), TRUE)>>
      PROVE  AllShrinks(end.events, lo, b)
  <2> DEFINE x == OrderExecuted(lo, c)
             d == OrderCanceled(SubmittedRemaining(x), TRUE)
  <2>1. c \in LimitOrders /\ c.id # lo.id
    BY <1>2, GoodBookOrders
  <2>2. x \in Events /\ Mentioned(x) = {lo.id, c.id}
    BY <2>1, ExecutedSays
  <2>3. NoMore({lo}, Says(x, lo.id)) /\ NoMore({c}, Says(x, c.id))
    BY <2>1, ExecutedLess
  <2>4. SubmittedRemaining(x) \in LimitOrders
    BY <2>1, OrderExecutedFacts
  <2>5. d \in Events /\ \A p : Says(d, p) = {}
    BY <2>4, CanceledSays
  <2>6. end.events = <<x>> \/ end.events = <<x, d>>  BY <1>6
  <2> HIDE DEF x, d
  <2>7. InBook(b, c.id) = {c}  BY GoodBookIds DEF InBook
  <2>8. \A p, A : /\ Shrinks(<<x>>, p, A) <=> (p \in Mentioned(x) => NoMore(A, Says(x, p)))
                  /\ Shrinks(<<x, d>>, p, A) <=> (p \in Mentioned(x) => NoMore(A, Says(x, p)))
    BY <2>2, <2>5, ShrinksOne, ShrinksTwo
  <2>9. AllShrinks(<<x>>, lo, b) /\ AllShrinks(<<x, d>>, lo, b)
    BY <2>1, <2>2, <2>3, <2>7, <2>8 DEF AllShrinks
  <2> QED BY <2>6, <2>9
<1> QED BY <1>1, <1>4, <1>5, <1>6 DEF Outcome, end

\* What is left of the submitted order shrinks from round to round.
LEMMA LeftoversLess ==
  ASSUME NEW lo \in LimitOrders, NEW counters \in Seq(LimitOrders), NEW ts,
         \A c \in ToSet(counters) : c.id # lo.id,
         NEW k \in 0 .. Len(counters), NEW n \in k .. Len(counters)
  PROVE  LET left == Leftovers(lo, counters, ts) IN NoMore({left[k]}, {left[n]})
<1> DEFINE left == Leftovers(lo, counters, ts)
           N == Len(counters)
           Good == {d \in 0 .. N - k : NoMore({left[k]}, {left[k + d]})}
<1>1. N \in Nat /\ k \in Nat /\ k <= N /\ N - k \in Nat
  OBVIOUS
<1>2. /\ \A i \in 1 .. N : left[i] = LeftAfter(left[i - 1], counters[i], ts)
      /\ \A i \in 0 .. N : left[i] \in LimitOrders /\ left[i].id = lo.id
  BY LeftoversFacts
<1>3. \A i \in 1 .. N : counters[i] \in LimitOrders /\ counters[i].id # lo.id
  BY DEF ToSet
<1> HIDE DEF left, N
<1>4. 0 \in Good  BY <1>1, <1>2, NoMoreOrder
<1>5. ASSUME NEW d \in 0 .. N - k, d # N - k, d \in Good PROVE d + 1 \in Good
  <2> DEFINE i == k + d
  <2>1. d + 1 \in 0 .. N - k /\ i \in 0 .. N /\ i + 1 \in 1 .. N /\ i + 1 \in 0 .. N
        /\ (i + 1) - 1 = i /\ k + (d + 1) = i + 1 /\ k \in 0 .. N
    BY <1>1, <1>5
  <2>2. NoMore({left[k]}, {left[i]})  BY <1>5
  <2> HIDE DEF i
  <2>3. left[i + 1] = LeftAfter(left[i], counters[i + 1], ts)
    BY <1>2, <2>1
  <2>4. /\ left[i] \in LimitOrders /\ left[i].id = lo.id /\ left[i + 1] \in LimitOrders
        /\ left[k] \in LimitOrders
        /\ counters[i + 1] \in LimitOrders /\ left[i].id # counters[i + 1].id
    BY <1>2, <1>3, <2>1
  <2>5. NoMore({left[i]}, {left[i + 1]})
    <3>1. CASE IsAlive(counters[i + 1], ts)
      BY <2>3, <3>1, <2>4, ExecutedLess DEF LeftAfter
    <3>2. CASE ~ IsAlive(counters[i + 1], ts)
      BY <2>3, <3>2, <2>4, NoMoreOrder DEF LeftAfter
    <3> QED BY <3>1, <3>2
  <2>6. {left[k]} \in SUBSET LimitOrders /\ {left[i]} \in SUBSET LimitOrders
        /\ {left[i + 1]} \in SUBSET LimitOrders
    BY <2>4
  <2>7. NoMore({left[k]}, {left[i + 1]})
    BY <2>2, <2>5, <2>6, NoMoreOrder
  <2> QED BY <2>1, <2>7
<1>6. \A d \in 0 .. N - k : d \in Good
  BY <1>1, <1>4, <1>5, Climb
<1>7. n - k \in 0 .. N - k /\ k + (n - k) = n  BY <1>1 DEF N
<1>8. n - k \in Good  BY <1>6, <1>7
<1> QED BY <1>7, <1>8 DEF left

LEMMA PassingShrinks ==
  ASSUME NEW b, GoodBook(b), NEW lo \in LimitOrders, lo.id \notin IdsIn(b), NEW ts
  PROVE  LET ev == PassingEvents(lo, b[CounterSide(lo)], ts)
         IN  /\ \A p, A : p # lo.id => Shrinks(ev, p, A)
             /\ Shrinks(ev, lo.id, {lo})
             /\ Between(ev, lo.id, {lo}, {LeftPast(b, lo, ts)})
<1> DEFINE counters == b[CounterSide(lo)]
           left == Leftovers(lo, counters, ts)
           N == Passed(lo, counters, ts)
           ev == PassingEvents(lo, counters, ts)
<1>1. CounterSide(lo) \in Side /\ SideOf(lo) \in Side /\ SideOf(lo) # CounterSide(lo)
  BY CounterSideFacts
<1>2. counters \in Seq(LimitOrders) /\ Len(counters) \in Nat /\ DOMAIN counters = 1 .. Len(counters)
  BY <1>1 DEF GoodBook
<1>3. AllOrders(b) = ToSet(counters) \cup ToSet(b[SideOf(lo)])
  BY <1>1, AllOrdersOf
<1>4. /\ left[0] = lo
      /\ \A k \in 1 .. Len(counters) : left[k] = LeftAfter(left[k - 1], counters[k], ts)
      /\ \A k \in 0 .. Len(counters) : left[k] \in LimitOrders /\ left[k].id = lo.id
  BY <1>2, LeftoversFacts
<1>5. N \in 0 .. Len(counters) /\ \A k \in 0 .. N - 1 : GoesOn(left[k], counters[k + 1], ts)
  BY <1>2, PassedFacts
<1>6. ev = [k \in 1 .. N |-> RoundEvent(left[k - 1], counters[k], ts)]
  BY DEF PassingEvents, RoundEvent
<1>7. LeftPast(b, lo, ts) = left[N]  BY DEF LeftPast
<1>8. \A c \in ToSet(counters) : c.id # lo.id
  BY <1>3 DEF IdsIn
<1>9. \A k \in 0 .. Len(counters) : \A n \in k .. Len(counters) : NoMore({left[k]}, {left[n]})
  BY <1>2, <1>8, LeftoversLess
<1> HIDE DEF left, N, ev, counters
<1>10. \A k \in 1 .. N : k \in DOMAIN counters /\ k - 1 \in 0 .. N - 1 /\ k - 1 \in 0 .. Len(counters)
                         /\ (k - 1) + 1 = k /\ k \in 0 .. Len(counters) /\ N \in k .. Len(counters)
  BY <1>2, <1>5
<1>11. \A k \in DOMAIN counters : counters[k] \in LimitOrders /\ counters[k].id # lo.id
  BY <1>2, <1>8 DEF ToSet
<1>12. DOMAIN ev = 1 .. N /\ \A k \in 1 .. N : ev[k] = RoundEvent(left[k - 1], counters[k], ts)
  BY <1>6
<1>13. ASSUME NEW k \in 1 .. N
       PROVE  /\ \A p : p # lo.id /\ p \in Mentioned(ev[k]) => Says(ev[k], p) = {}
              /\ lo.id \in Mentioned(ev[k]) => Says(ev[k], lo.id) = {left[k]}
  <2>1. left[k - 1] \in LimitOrders /\ left[k - 1].id = lo.id
    BY <1>4, <1>10
  <2>2. GoesOn(left[k - 1], counters[k], ts)  BY <1>5, <1>10
  <2>3. counters[k] \in LimitOrders /\ left[k - 1].id # counters[k].id
    BY <1>10, <1>11, <2>1
  <2>4. LET e == RoundEvent(left[k - 1], counters[k], ts)
        IN  /\ e \in Events /\ Proper(e) /\ Says(e, counters[k].id) = {}
            /\ counters[k].id \in Mentioned(e) /\ Mentioned(e) \subseteq {left[k - 1].id, counters[k].id}
    BY <2>1, <2>2, <2>3, RoundTells
  <2>5. \A p : p # lo.id /\ p \in Mentioned(ev[k]) => Says(ev[k], p) = {}
    BY <1>12, <2>1, <2>4
  <2>6. left[k] = LeftAfter(left[k - 1], counters[k], ts)
    BY <1>2, <1>4, <1>10
  <2>7. CASE IsAlive(counters[k], ts)
    <3> DEFINE x == OrderExecuted(left[k - 1], counters[k])
    <3>1. ev[k] = x /\ left[k] = SubmittedRemaining(x)
      BY <1>12, <2>6, <2>7 DEF RoundEvent, LeftAfter
    <3>2. IsValid(SubmittedRemaining(x))
      BY <2>2, <2>7 DEF GoesOn
    <3>3. Says(x, left[k - 1].id) = {r \in {SubmittedRemaining(x)} : IsValid(r)}
      BY <2>1, <2>3, ExecutedSays
    <3> HIDE DEF x
    <3>4. Says(ev[k], lo.id) = {left[k]}
      BY <2>1, <3>1, <3>2, <3>3
    <3> QED BY <2>5, <3>4
  <2>8. CASE ~ IsAlive(counters[k], ts)
    <3> DEFINE x == OrderCanceled(counters[k], FALSE)
    <3>1. ev[k] = x  BY <1>12, <2>8 DEF RoundEvent
    <3>2. Mentioned(x) = {counters[k].id}
      BY <2>3, CanceledSays
    <3> HIDE DEF x
    <3> QED BY <2>1, <2>3, <2>5, <3>1, <3>2
  <2> QED BY <2>7, <2>8
<1>14. ASSUME NEW p, NEW A, p # lo.id PROVE Shrinks(ev, p, A)
  BY <1>12, <1>13, <1>14 DEF Shrinks, NoMore
<1>15. Shrinks(ev, lo.id, {lo})
  <2> SUFFICES ASSUME NEW j \in 1 .. N, lo.id \in Mentioned(ev[j])
               PROVE  /\ NoMore({lo}, Says(ev[j], lo.id))
                      /\ \A i \in 1 .. N : i < j /\ lo.id \in Mentioned(ev[i])
                                             => NoMore(Says(ev[i], lo.id), Says(ev[j], lo.id))
    BY <1>12 DEF Shrinks
  <2>1. Says(ev[j], lo.id) = {left[j]}  BY <1>13
  <2>2. 0 \in 0 .. Len(counters) /\ j \in 0 .. Len(counters)
    BY <1>2, <1>10
  <2>3. NoMore({lo}, {left[j]})  BY <1>4, <1>9, <2>2
  <2>4. ASSUME NEW i \in 1 .. N, i < j, lo.id \in Mentioned(ev[i])
        PROVE  NoMore(Says(ev[i], lo.id), {left[j]})
    <3>1. i \in 0 .. Len(counters) /\ j \in i .. Len(counters)
      BY <1>2, <1>10, <2>4, <2>2
    <3> QED BY <1>9, <1>13, <2>4, <3>1
  <2> QED BY <2>1, <2>3, <2>4
<1>16. Between(ev, lo.id, {lo}, {left[N]})
  <2>1. 0 \in 0 .. Len(counters) /\ N \in 0 .. Len(counters)
    BY <1>2, <1>5
  <2>2. NoMore({lo}, {left[N]})  BY <1>4, <1>9, <2>1
  <2>3. ASSUME NEW i \in 1 .. N, lo.id \in Mentioned(ev[i]) PROVE NoMore(Says(ev[i], lo.id), {left[N]})
    <3>1. Says(ev[i], lo.id) = {left[i]}  BY <1>13, <2>3
    <3>2. NoMore({left[i]}, {left[N]})  BY <1>9, <1>10
    <3> QED BY <3>1, <3>2
  <2> QED BY <1>12, <2>2, <2>3 DEF Between
<1> QED BY <1>7, <1>14, <1>15, <1>16 DEF ev, counters

\* Adding an order tells of no more of any order.
LEMMA AddShrinks ==
  ASSUME NEW b, GoodBook(b), NEW o \in Id, o \notin IdsIn(b), NEW ts
  PROVE  AllShrinks(Add(b, o, ts).events, LimitOrder(o), b)
<1> DEFINE lo == LimitOrder(o)
           b1 == BookPast(b, lo, ts)
           l1 == LeftPast(b, lo, ts)
           end == EndMatch(b1, l1)
           ev == PassingEvents(lo, b[CounterSide(lo)], ts)
           r == Add(b, o, ts)
<1>1. lo \in LimitOrders /\ IsValid(lo) /\ lo.id = o
  BY LimitOrderFacts DEF LimitOrder
<1> HIDE DEF lo
<1>2. CASE ~ IsAlive(lo, ts)
  <2> DEFINE e == OrderCanceled(lo, FALSE)
  <2>1. r.events = <<e>>  BY <1>2 DEF Add, DoMatch, lo
  <2>2. e \in Events /\ \A p : Says(e, p) = {}
    BY <1>1, CanceledSays
  <2> HIDE DEF e
  <2>3. \A A : NoMore(A, {})  BY DEF NoMore
  <2>4. AllShrinks(<<e>>, lo, b)
    BY <2>2, <2>3, ShrinksOne DEF AllShrinks
  <2> QED BY <2>1, <2>4 DEF lo
<1>3. CASE IsAlive(lo, ts)
  <2>1. /\ GoodBook(b1) /\ AllOrders(b1) \subseteq AllOrders(b)
        /\ l1 \in LimitOrders /\ l1.id = lo.id /\ IsValid(l1) /\ l1.id \notin IdsIn(b1)
    BY <1>1, PastFacts
  <2>2. r.events = ev \o end.events
    <3>1. r = DoMatch(b, lo, ts)  BY DEF Add, lo
    <3>2. r = [book |-> end.book, events |-> ev \o end.events]
      BY <1>3, <3>1, DoMatchIs
    <3> HIDE DEF r, end, ev
    <3> QED BY <3>2
  <2>3. /\ ev \in Seq(Events)
        /\ \A p : p # lo.id => Tells(ev, p, InBook(b, p), InBook(b1, p))
    BY <1>1, PassingTells
  <2>4. /\ \A p, A : p # lo.id => Shrinks(ev, p, A)
        /\ Shrinks(ev, lo.id, {lo}) /\ Between(ev, lo.id, {lo}, {l1})
    BY <1>1, PassingShrinks
  <2> HIDE DEF b1, l1, ev
  <2>5. AllShrinks(end.events, l1, b1) /\ end.events \in Seq(Events)
    BY <2>1, LastShrinks, EndMatchFacts
  <2> HIDE DEF end, r
  <2>6. \A p : InBook(b, p) \in SUBSET LimitOrders /\ InBook(b1, p) \in SUBSET LimitOrders
    BY <2>1, GoodBookOrders DEF InBook
  <2>7. Shrinks(ev \o end.events, lo.id, {lo})
    BY <2>1, <2>5, <1>1, <2>3, <2>4, ShrinksConcat DEF AllShrinks
  <2>8. ASSUME NEW p, p # lo.id PROVE Shrinks(ev \o end.events, p, InBook(b, p))
    BY <2>1, <2>5, <2>8, <2>3, <2>4, <2>6, TellsBetween, ShrinksConcat DEF AllShrinks
  <2>9. AllShrinks(ev \o end.events, lo, b)
    BY <2>7, <2>8 DEF AllShrinks
  <2> QED BY <2>2, <2>9 DEF r, lo
<1> QED BY <1>2, <1>3

\* So does cancelling one.
LEMMA CancelShrinks ==
  ASSUME NEW b, GoodBook(b), NEW o \in Id, NEW p, NEW A
  PROVE  Shrinks(Cancel(b, o).events, p, A)
<1> DEFINE r == Cancel(b, o)
           side == b[Orders[o].orderType]
           places == {i \in DOMAIN side : side[i].id = o}
           place == CHOOSE i \in places : TRUE
           lo == side[place]
           e == OrderCanceled(lo, FALSE)
<1>1. CASE places = {}  BY <1>1, ShrinksNothing DEF Cancel
<1>2. CASE places # {}
  <2>1. place \in places  BY <1>2
  <2>2. r.events = <<e>>  BY <1>2 DEF Cancel
  <2>3. lo \in LimitOrders
    <3>1. Orders[o].orderType \in Side  BY OrderFacts
    <3>2. side \in Seq(LimitOrders)  BY <3>1 DEF GoodBook
    <3> HIDE DEF place
    <3> QED BY <2>1, <3>2
  <2> HIDE DEF lo
  <2>4. e \in Events /\ Says(e, p) = {}  BY <2>3, CanceledSays
  <2> HIDE DEF e, r
  <2>5. NoMore(A, {})  BY DEF NoMore
  <2>6. Shrinks(<<e>>, p, A)  BY <2>4, <2>5, ShrinksOne
  <2> QED BY <2>2, <2>6 DEF r
<1> QED BY <1>1, <1>2

\* What is left, before entry n of a queue is applied, of the orders it tells of
LeftBefore(q, n, b, p) == IF q[n].event = Placed(p) THEN {LimitOrder(p)} ELSE InBook(b, p)

LEMMA ApplyShrinks ==
  ASSUME NEW q \in Seq(Entries), OncePlaced(q), NEW n \in 1 .. Len(q), NEW b, NEW T,
         Faithful(q, n - 1, b, T), NEW p \in Id
  PROVE  Shrinks(Apply(b, q[n]).events, p, LeftBefore(q, n, b, p))
<1> DEFINE e == q[n].event
           o == e.id
           r == Apply(b, q[n])
<1>1. n \in Nat /\ n - 1 \in Nat /\ n - 1 <= n /\ Len(q) \in Nat /\ DOMAIN q = 1 .. Len(q)
      /\ n \in DOMAIN q /\ n \in 1 .. n /\ \A i \in 1 .. n - 1 : i \in DOMAIN q /\ i # n
  OBVIOUS
<1>2. e \in [type : {"Placed", "Canceled"}, id : Id] /\ o \in Id
  <2>1. q[n] \in Entries  BY <1>1
  <2> QED BY <2>1 DEF Entries
<1>3. GoodBook(b) /\ IdsIn(b) \subseteq PlacedIn(q, n - 1)
  BY DEF Faithful
<1>4. CASE e.type = "Placed"
  <2>1. e = Placed(o)  BY <1>2, <1>4 DEF Placed
  <2>2. o \notin PlacedIn(q, n - 1)
    BY <1>1, <2>1, <1>4 DEF PlacedIn, OncePlaced
  <2>3. r = Add(b, o, q[n].ts)  BY <1>4 DEF Apply
  <2>4. e = Placed(p) <=> p = o  BY <2>1, RequestKinds
  <2> HIDE DEF e, o, r
  <2>5. AllShrinks(Add(b, o, q[n].ts).events, LimitOrder(o), b)
    BY <1>2, <1>3, <2>2, AddShrinks
  <2>6. LimitOrder(o).id = o  BY DEF LimitOrder
  <2>7. Shrinks(r.events, o, {LimitOrder(o)}) /\ (p # o => Shrinks(r.events, p, InBook(b, p)))
    BY <2>3, <2>5, <2>6 DEF AllShrinks
  <2>8. Shrinks(r.events, p, LeftBefore(q, n, b, p))
    BY <2>4, <2>7 DEF LeftBefore, e
  <2> QED BY <2>8 DEF r
<1>5. CASE e.type # "Placed"
  BY <1>5, <1>2, <1>3, CancelShrinks DEF Apply, r
<1> QED BY <1>4, <1>5

----------------------------------------------------------------------------
(* What actors take to be left of their orders never grows *)

\* Until a restart the events on their way to an actor leave less and less of its
\* orders, and one that waits to be placed is as its owner signed it.
ShrinkInv(q, done, msgs, act) ==
  \A p \in Id :
    /\ Shrinks(msgs[Sender(p)], p, ActiveOf(act[Sender(p)], p))
    /\ Waits(q, done, Placed(p)) => ActiveOf(act[Sender(p)], p) = {LimitOrder(p)}

LEMMA WaitsUnplaced ==
  ASSUME NEW q \in Seq(Entries), OncePlaced(q), NEW done \in 0 .. Len(q), NEW p \in Id,
         Waits(q, done, Placed(p))
  PROVE  p \notin PlacedIn(q, done)
<1>1. PICK j \in done + 1 .. Len(q) : q[j].event = Placed(p)
  BY DEF Waits
<1>2. DOMAIN q = 1 .. Len(q) /\ Len(q) \in Nat  OBVIOUS
<1> SUFFICES ASSUME NEW i \in 1 .. done, q[i].event = Placed(p) PROVE FALSE
  BY DEF PlacedIn
<1>3. i \in DOMAIN q /\ j \in DOMAIN q /\ i # j  BY <1>2
<1>4. q[i].event.type = "Placed"  BY DEF Placed
<1> QED BY <1>1, <1>3, <1>4 DEF OncePlaced

LEMMA SilentAbout ==
  ASSUME NEW s, NEW ids, About(s, ids), NEW p, p \notin ids
  PROVE  Silent(s, p)
  BY DEF Silent, About

LEMMA ActiveOfTyped ==
  ASSUME NEW x \in ActorState, NEW p
  PROVE  ActiveOf(x, p) \in SUBSET LimitOrders
<1>1. x.active \in Actives  BY DEF ActorState
<1> QED BY <1>1, ActivesFacts DEF ActiveOf

LEMMA ApplyNextShrinks ==
  ASSUME TradingInv, RestInv, ApplyNext, ShrinkInv(queue, processed, mail, actor)
  PROVE  ShrinkInv(queue', processed', mail', actor')
<1> DEFINE n == processed + 1
           r == Apply(book, queue[n])
           t(w) == EventsFor(w, r.events)
<1>1. /\ processed < Len(queue) /\ processed' = n
      /\ mail' = [w \in Owner |-> mail[w] \o t(w)]
      /\ UNCHANGED <<queue, actor>>
  BY DEF ApplyNext
<1>2. /\ queue \in Seq(Entries) /\ OncePlaced(queue) /\ processed \in 0 .. Len(queue)
      /\ Len(queue) \in Nat
      /\ actor \in [Owner -> ActorState] /\ mail \in [Owner -> Seq(Events)]
      /\ Faithful(queue, processed, book, trades)
      /\ \A o \in Id : Sender(o) \in Owner
  BY InvParts
<1>3. /\ n \in 1 .. Len(queue) /\ n \in 0 .. Len(queue) /\ n - 1 = processed /\ n \in Nat
      /\ processed \in Nat /\ processed <= n /\ n \in processed + 1 .. Len(queue)
      /\ n <= Len(queue)
      /\ \A j \in processed + 1 .. Len(queue) : j = n \/ j \in n + 1 .. Len(queue)
      /\ \A j \in n + 1 .. Len(queue) : j \in processed + 1 .. Len(queue)
  BY <1>1, <1>2
<1> HIDE DEF n
<1>4. \A p \in Id : Shrinks(r.events, p, LeftBefore(queue, n, book, p))
  BY <1>2, <1>3, ApplyShrinks
<1>5. EntryTells(queue, n, book, r)  BY <1>2, <1>3, ApplyTells
<1> HIDE DEF r
<1>6. r.events \in Seq(Events) /\ About(r.events, PlacedIn(queue, n))
  BY <1>5 DEF EntryTells
<1>7. /\ ViewInv(queue, processed, book, mail, actor, failed)
      /\ MailInv(queue, processed, mail) /\ FailedInv(queue, actor, failed)
  BY DEF RestInv, UnderWay
<1>8. \A w : t(w) \in Seq(Events) /\ About(t(w), PlacedIn(queue, n))
  BY <1>6, EventsForTells
<1>9. \A w, p, A : Shrinks(r.events, p, A) => Shrinks(t(w), p, A)
  BY <1>6, ShrinksFilter DEF EventsFor
<1> HIDE DEF t
<1>10. \A e : Waits(queue, processed, e) <=> queue[n].event = e \/ Waits(queue, n, e)
  BY <1>3 DEF Waits
<1>11. GoodBook(book)  BY <1>2 DEF Faithful
<1> SUFFICES ASSUME NEW p \in Id
             PROVE  /\ Shrinks(mail'[Sender(p)], p, ActiveOf(actor[Sender(p)], p))
                    /\ Waits(queue, n, Placed(p)) => ActiveOf(actor[Sender(p)], p) = {LimitOrder(p)}
  BY <1>1 DEF ShrinkInv
<1> DEFINE w == Sender(p)
           A == ActiveOf(actor[w], p)
           s == mail[w]
<1>12. /\ w \in Owner /\ s \in Seq(Events) /\ mail'[w] = s \o t(w)
       /\ About(s, PlacedIn(queue, processed)) /\ t(w) \in Seq(Events)
  BY <1>1, <1>2, <1>7, <1>8 DEF MailInv
<1>13. A \in SUBSET LimitOrders  BY <1>2, <1>12, ActiveOfTyped
<1>14. Shrinks(s, p, A) /\ (Waits(queue, processed, Placed(p)) => A = {LimitOrder(p)})
  BY DEF ShrinkInv
<1>15. Waits(queue, n, Placed(p)) => A = {LimitOrder(p)}
  BY <1>10, <1>14
<1>16. InBook(book, p) \in SUBSET LimitOrders
  BY <1>11, GoodBookOrders DEF InBook
<1>17. {} \in SUBSET LimitOrders /\ Between(s, p, A, {})
  BY DEF Between, NoMore
<1>18. ViewInv(queue, processed, book, mail, actor, failed) => \/ Placed(p) \in failed
                                                               \/ Waits(queue, processed, Placed(p))
                                                               \/ Tells(s, p, A, InBook(book, p))
  BY DEF ViewInv
<1> HIDE DEF w, A, s
<1>19. CASE queue[n].event = Placed(p)
  <2>1. A = {LimitOrder(p)}  BY <1>10, <1>14, <1>19
  <2>2. Silent(s, p)
    BY <1>2, <1>10, <1>19, WaitsUnplaced, <1>12, SilentAbout
  <2>3. Between(s, p, A, A)
    BY <1>13, <2>2, NoMoreOrder DEF Between, Silent
  <2>4. Shrinks(t(w), p, A)
    BY <1>4, <1>9, <1>19, <2>1 DEF LeftBefore
  <2>5. Shrinks(s \o t(w), p, A)
    BY <1>12, <1>13, <1>14, <2>3, <2>4, ShrinksConcat
  <2> QED BY <1>12, <1>15, <2>5 DEF w, A
<1>20. CASE queue[n].event # Placed(p) /\ p \notin PlacedIn(queue, n)
  BY <1>8, <1>20, SilentAbout, ShrinksSilent, <1>12, <1>13, <1>14, <1>17, ShrinksConcat, <1>15
     DEF w, A
<1>21. CASE queue[n].event # Placed(p) /\ p \in PlacedIn(queue, n)
  <2>1. Placed(p) \notin failed
    BY <1>2, <1>3, PlacedMore, <1>7, <1>21 DEF FailedInv
  <2>2. ~ Waits(queue, processed, Placed(p))
    BY <1>2, <1>3, <1>21, WaitsUnplaced, <1>10
  <2>3. Tells(s, p, A, InBook(book, p))
    BY <1>7, <1>18, <2>1, <2>2
  <2>4. Between(s, p, A, InBook(book, p))
    BY <1>12, <1>13, <1>14, <1>16, <2>3, TellsBetween
  <2>5. Shrinks(t(w), p, InBook(book, p))
    BY <1>4, <1>9, <1>21 DEF LeftBefore
  <2>6. Shrinks(s \o t(w), p, A)
    BY <1>12, <1>13, <1>14, <1>16, <2>4, <2>5, ShrinksConcat
  <2> QED BY <1>12, <1>15, <2>6 DEF w, A
<1> QED BY <1>19, <1>20, <1>21

LEMMA HandleEventShrinks ==
  ASSUME TradingInv, RestInv, NEW w \in Owner, HandleEvent(w),
         ShrinkInv(queue, processed, mail, actor)
  PROVE  ShrinkInv(queue', processed', mail', actor')
<1> DEFINE s == mail[w]
           e == Head(s)
           x == actor[w]
           y == Handle(x, w, e)
<1>1. /\ s # <<>> /\ actor' = [actor EXCEPT ![w] = y] /\ mail' = [mail EXCEPT ![w] = Tail(s)]
      /\ UNCHANGED <<queue, processed>>
  BY DEF HandleEvent, bookVars
<1>2. /\ queue \in Seq(Entries) /\ OncePlaced(queue) /\ processed \in 0 .. Len(queue)
      /\ actor \in [Owner -> ActorState] /\ mail \in [Owner -> Seq(Events)]
      /\ \A o \in Id : Sender(o) \in Owner
  BY InvParts
<1>3. MailInv(queue, processed, mail)
  BY DEF RestInv, UnderWay
<1>4. /\ x \in ActorState /\ s \in Seq(Events)
      /\ \A v \in Owner : v # w => actor'[v] = actor[v] /\ mail'[v] = mail[v]
      /\ actor'[w] = y /\ mail'[w] = Tail(s)
  BY <1>1, <1>2
<1>5. e = s[1] /\ 1 \in DOMAIN s  BY <1>1, <1>4
<1>6. /\ e \in Events /\ Proper(e) /\ w \in Parties(e)
      /\ Mentioned(e) \subseteq PlacedIn(queue, processed)
  BY <1>1, <1>4, TellsTail, <1>3, <1>5 DEF MailInv, About
<1>7. \A p \in Id : Sender(p) = w =>
        ActiveOf(y, p) = IF p \in Mentioned(e) THEN Says(e, p) ELSE ActiveOf(x, p)
  BY <1>4, <1>6, HandleView
<1> HIDE DEF y
<1>8. \A p, A : Shrinks(s, p, A) =>
        Shrinks(Tail(s), p, IF p \in Mentioned(e) THEN Says(e, p) ELSE A)
  BY <1>1, <1>4, ShrinksTail
<1> HIDE DEF e, s, x
<1> SUFFICES ASSUME NEW p \in Id
             PROVE  /\ Shrinks(mail'[Sender(p)], p, ActiveOf(actor'[Sender(p)], p))
                    /\ Waits(queue, processed, Placed(p)) => ActiveOf(actor'[Sender(p)], p) = {LimitOrder(p)}
  BY <1>1 DEF ShrinkInv
<1>9. /\ Shrinks(mail[Sender(p)], p, ActiveOf(actor[Sender(p)], p))
      /\ Waits(queue, processed, Placed(p)) => ActiveOf(actor[Sender(p)], p) = {LimitOrder(p)}
  BY DEF ShrinkInv
<1>10. CASE Sender(p) # w  BY <1>2, <1>4, <1>9, <1>10
<1>11. CASE Sender(p) = w
  BY <1>9, <1>11, <1>7, <1>8, <1>2, <1>6, WaitsUnplaced, <1>4 DEF s, x
<1> QED BY <1>10, <1>11

\* Storing requests to cancel active orders and one to place an order that was never
\* stored
LEMMA StoredShrinks ==
  ASSUME TradingInv, RestInv, ShrinkInv(queue, processed, mail, actor),
         NEW w \in Owner, NEW x, NEW events, MayStore(w, x, events),
         NEW K, Stores(K, w, x, events)
  PROVE  ShrinkInv(queue', processed', mail', actor')
<1> DEFINE new == {K[i].event : i \in DOMAIN K}
<1>1. /\ queue \in Seq(Entries) /\ processed \in 0 .. Len(queue) /\ Len(queue) \in Nat
      /\ actor \in [Owner -> ActorState] /\ mail \in [Owner -> Seq(Events)]
      /\ \A o \in Id : Sender(o) \in Owner
  BY InvParts
<1>2. /\ K \in Seq(Entries) /\ queue' = queue \o K /\ actor' = [actor EXCEPT ![w] = actor'[w]]
      /\ actor'[w].active = x.active /\ UNCHANGED <<processed, mail>> /\ new \subseteq ToSet(events)
  BY DEF Stores
<1>3. \A e : Waits(queue', processed, e) <=> Waits(queue, processed, e) \/ e \in new
  BY <1>1, <1>2, QueueGrows DEF Grown
<1> HIDE DEF new
<1>4. \A v \in Owner : v # w => actor'[v] = actor[v]
  BY <1>1, <1>2
<1>5. MailInv(queue, processed, mail)
  BY DEF RestInv, UnderWay
<1> SUFFICES ASSUME NEW p \in Id
             PROVE  /\ Shrinks(mail[Sender(p)], p, ActiveOf(actor'[Sender(p)], p))
                    /\ Waits(queue', processed, Placed(p)) => ActiveOf(actor'[Sender(p)], p) = {LimitOrder(p)}
  BY <1>2 DEF ShrinkInv
<1>6. /\ Shrinks(mail[Sender(p)], p, ActiveOf(actor[Sender(p)], p))
      /\ Waits(queue, processed, Placed(p)) => ActiveOf(actor[Sender(p)], p) = {LimitOrder(p)}
  BY DEF ShrinkInv
<1>7. CASE Placed(p) \in ToSet(events)
  BY <1>7, <1>2, <1>1, PlacedMore, <1>5, SilentAbout, ShrinksSilent DEF MayStore, ActiveOf,
     MailInv
<1>8. CASE Placed(p) \notin ToSet(events)
  <2>1. ActiveOf(actor'[Sender(p)], p) = ActiveOf(actor[Sender(p)], p)
    <3>1. CASE Sender(p) # w  BY <1>1, <1>4, <3>1
    <3>2. CASE Sender(p) = w
      BY <1>8, <1>2, <3>2 DEF MayStore, ActiveOf
    <3> QED BY <3>1, <3>2
  <2>2. Placed(p) \notin new  BY <1>2, <1>8
  <2> QED BY <1>3, <1>6, <2>1, <2>2
<1> QED BY <1>7, <1>8

----------------------------------------------------------------------------
(* Less is required of fewer and smaller orders *)

\* g has some of the arguments of f, and no greater values.
Below(g, f) ==
  /\ DOMAIN g \subseteq DOMAIN f
  /\ \A x \in DOMAIN f : f[x] \in Nat
  /\ \A x \in DOMAIN g : g[x] \in Nat /\ g[x] <= f[x]

LEMMA SumFewer ==
  ASSUME NEW f, NEW g, IsFiniteSet(DOMAIN f), Below(g, f)
  PROVE  Sum(f) \in Nat /\ Sum(g) \in Nat /\ Sum(g) <= Sum(f)
<1> DEFINE Less(p, q) == Sum(p) \in Nat /\ Sum(q) \in Nat /\ Sum(q) <= Sum(p)
           Sized(p, n) == IsFiniteSet(DOMAIN p) /\ Cardinality(DOMAIN p) = n
           N == Cardinality(DOMAIN f)
           T == {n \in 0 .. N : \A p, q : Sized(p, n) /\ Below(q, p) => Less(p, q)}
<1>1. N \in Nat /\ N \in 0 .. N  BY FS_CardinalityType
<1>2. 0 \in T
  <2>1. ASSUME NEW p, NEW q, Sized(p, 0), Below(q, p) PROVE Less(p, q)
    BY <2>1, FS_EmptySet, SumNone DEF Below
  <2> QED BY <1>1, <2>1
<1>3. ASSUME NEW n \in 0 .. N, n # N, n \in T PROVE n + 1 \in T
  <2>1. ASSUME NEW p, NEW q, Sized(p, n + 1), Below(q, p) PROVE Less(p, q)
    <3>1. DOMAIN p # {}  BY <1>1, <2>1, FS_EmptySet
    <3>2. PICK x \in DOMAIN p : TRUE  BY <3>1
    <3> DEFINE r == [y \in DOMAIN p \ {x} |-> p[y]]
               s == [y \in DOMAIN q \ {x} |-> q[y]]
    <3>3. DOMAIN r = DOMAIN p \ {x} /\ (\A y \in DOMAIN r : r[y] = p[y])
      OBVIOUS
    <3>4. DOMAIN s = DOMAIN q \ {x} /\ (\A y \in DOMAIN s : s[y] = q[y])
      OBVIOUS
    <3> HIDE DEF r, s
    <3>5. Sized(r, n)
      <4>1. IsFiniteSet(DOMAIN p) /\ Cardinality(DOMAIN p) = n + 1 /\ n \in Nat
        BY <1>1, <2>1
      <4>2. IsFiniteSet(DOMAIN p \ {x}) /\ Cardinality(DOMAIN p \ {x}) = Cardinality(DOMAIN p) - 1
        BY <3>2, <4>1, FS_RemoveElement
      <4> HIDE DEF N
      <4> QED BY <3>3, <4>1, <4>2
    <3>6. Below(s, r)  BY <2>1, <3>3, <3>4 DEF Below
    <3>7. Less(r, s)  BY <1>3, <3>5, <3>6
    <3>8. IsFiniteSet(DOMAIN p) /\ (\A y \in DOMAIN p : p[y] \in Int)
      BY <2>1 DEF Below
    <3>9. Sum(p) = p[x] + Sum(r) /\ p[x] \in Nat
      BY <2>1, <3>2, <3>3, <3>8, SumSplits DEF Below
    <3>10. IsFiniteSet(DOMAIN q) /\ (\A y \in DOMAIN q : q[y] \in Int)
      BY <2>1, FS_Subset DEF Below
    <3>11. CASE x \in DOMAIN q
      <4>1. Sum(q) = q[x] + Sum(s) /\ q[x] \in Nat /\ q[x] <= p[x]
        BY <2>1, <3>4, <3>10, <3>11, SumSplits DEF Below
      <4> QED BY <3>7, <3>9, <4>1
    <3>12. CASE x \notin DOMAIN q
      BY <2>1, <3>3, <3>12, <1>3, <3>5, <3>9 DEF Below
    <3> QED BY <3>11, <3>12
  <2>2. n + 1 \in 0 .. N  BY <1>1, <1>3
  <2> HIDE DEF Less, Sized
  <2> QED BY <2>1, <2>2
<1>4. N \in T  BY <1>1, <1>2, <1>3, Climb
<1> QED BY <1>4

\* What an order requires of an asset, and what it requires of the one it spends as
\* less and less is left of it
LEMMA RequiredNat ==
  ASSUME NEW lo \in LimitOrders, NEW a \in Asset
  PROVE  RequiredBalance(lo)[a] \in Nat
<1>1. lo.id \in Id /\ lo.amount \in Nat /\ lo.fee \in Nat
  BY DEF LimitOrders
<1>2. Price(lo) \in Nat /\ Price(lo) > 0  BY PriceFacts
<1>3. PriceAmount(lo.amount, Price(lo)) \in Nat /\ CorrectedAmount(lo.amount, Price(lo)) \in Nat
  BY <1>1, <1>2, PriceAmountFacts, CorrectedFacts
<1>4. SpendAmount(lo) \in Nat /\ ReceiveAmount(lo) \in Nat
  BY <1>1, <1>3 DEF SpendAmount, ReceiveAmount
<1>5. RequiredFee(lo) \in Nat
  BY <1>1, <1>4 DEF RequiredFee, NotNegative
<1>6. RequiredBalance(lo)[a] = (IF a = SpentAsset(lo) THEN SpendAmount(lo) ELSE 0)
                                + (IF a = FeeAsset THEN RequiredFee(lo) ELSE 0)
  BY DEF RequiredBalance
<1> QED BY <1>4, <1>5, <1>6

LEMMA SpentRequired ==
  ASSUME NEW lo \in LimitOrders
  PROVE  /\ SpentAsset(lo) \in Asset /\ SpendAmount(lo) \in Nat
         /\ RequiredBalance(lo)[SpentAsset(lo)]
              = SpendAmount(lo) + (IF SpentAsset(lo) = FeeAsset THEN lo.fee ELSE 0)
<1>1. lo.amount \in Nat /\ lo.fee \in Nat  BY DEF LimitOrders
<1>2. Price(lo) \in Nat /\ Price(lo) > 0  BY PriceFacts
<1>3. SpendAmount(lo) \in Nat
  BY <1>1, <1>2, PriceAmountFacts DEF SpendAmount
<1>4. SpentAsset(lo) \in Asset /\ SpentAsset(lo) # ReceivedAsset(lo)
  BY DEF SpentAsset, ReceivedAsset, Asset
<1>5. SpentAsset(lo) = FeeAsset => RequiredFee(lo) = lo.fee
  BY <1>4 DEF RequiredFee
<1>6. RequiredBalance(lo)[SpentAsset(lo)]
        = SpendAmount(lo) + (IF SpentAsset(lo) = FeeAsset THEN RequiredFee(lo) ELSE 0)
  BY <1>4 DEF RequiredBalance
<1> QED BY <1>3, <1>4, <1>5, <1>6

LEMMA RequiredLess ==
  ASSUME NEW lo \in LimitOrders, NEW rest \in LimitOrders, rest.id = lo.id,
         rest.amount <= lo.amount, rest.fee <= lo.fee
  PROVE  /\ SpentAsset(rest) = SpentAsset(lo)
         /\ RequiredBalance(rest)[SpentAsset(lo)] <= RequiredBalance(lo)[SpentAsset(lo)]
<1>1. lo.amount \in Nat /\ lo.fee \in Nat /\ rest.amount \in Nat /\ rest.fee \in Nat
  BY DEF LimitOrders
<1>2. Price(lo) \in Nat /\ Price(rest) = Price(lo)
  BY PriceFacts DEF Price
<1>3. SpentAsset(rest) = SpentAsset(lo) /\ (IsBuy(rest) <=> IsBuy(lo))
  BY DEF SpentAsset, IsBuy
<1> DEFINE p == Price(lo)
           x == rest.amount * p
           y == lo.amount * p
<1>4. x <= y /\ x \in Nat /\ y \in Nat
  BY <1>1, <1>2, TimesGrows
<1>5. PriceConstant \in Nat /\ PriceConstant > 0
  BY OrdersAssumption
<1>6. PriceAmount(rest.amount, p) = x \div PriceConstant /\ PriceAmount(lo.amount, p) = y \div PriceConstant
  BY DEF PriceAmount
<1> HIDE DEF x, y
<1>7. PriceAmount(rest.amount, p) <= PriceAmount(lo.amount, p)
  BY <1>4, <1>5, <1>6, DivGrows
<1>8. SpendAmount(rest) <= SpendAmount(lo)
  BY <1>1, <1>2, <1>3, <1>7 DEF SpendAmount
<1>9. SpendAmount(rest) \in Nat /\ SpendAmount(lo) \in Nat
  BY SpentRequired
<1>10. /\ RequiredBalance(lo)[SpentAsset(lo)]
            = SpendAmount(lo) + (IF SpentAsset(lo) = FeeAsset THEN lo.fee ELSE 0)
       /\ RequiredBalance(rest)[SpentAsset(lo)]
            = SpendAmount(rest) + (IF SpentAsset(lo) = FeeAsset THEN rest.fee ELSE 0)
  BY <1>3, SpentRequired
<1> QED BY <1>1, <1>3, <1>8, <1>9, <1>10

----------------------------------------------------------------------------
(* What open orders require is covered *)

\* The orders of an actor that spend an asset and that it has not asked to cancel
Open(x, a) == {o \in DOMAIN x.active : SpentAsset(x.active[o]) = a /\ o \notin x.pendingCancellation}

Required(x, S, a) == [o \in S |-> RequiredBalance(x.active[o])[a]]

Covered(x, a, n) == Sum(Required(x, Open(x, a), a)) <= NotNegative(n)

\* Until a restart, unless a change of an asset is still to be announced, what the
\* owner's open orders require of it is covered by what the owner can spend.
BalanceInv(act, can, news) ==
  \A w \in Owner, a \in Asset : a \notin news[w] => Covered(act[w], a, can[w][a])

CoverInv ==
  /\ spendable \in [Owner -> [Asset -> Int]] /\ changed \in [Owner -> SUBSET Asset]
  /\ toSettle \in Seq(TradeSet)
  /\ ~ restarted => /\ ShrinkInv(queue, processed, mail, actor)
                    /\ BalanceInv(actor, spendable, changed)

CoverInvNext ==
  /\ spendable' \in [Owner -> [Asset -> Int]] /\ changed' \in [Owner -> SUBSET Asset]
  /\ toSettle' \in Seq(TradeSet)
  /\ ~ restarted' => /\ ShrinkInv(queue', processed', mail', actor')
                     /\ BalanceInv(actor', spendable', changed')

LEMMA CoverNext == CoverInvNext => CoverInv'
  BY DEF CoverInv, CoverInvNext

LEMMA RequiredTyped ==
  ASSUME NEW x \in ActorState, NEW a \in Asset, NEW S, S \subseteq DOMAIN x.active
  PROVE  /\ IsFiniteSet(S) /\ DOMAIN Required(x, S, a) = S
         /\ \A o \in S : /\ x.active[o] \in LimitOrders /\ x.active[o].id = o
                         /\ Required(x, S, a)[o] = RequiredBalance(x.active[o])[a]
                         /\ Required(x, S, a)[o] \in Nat
<1>1. x.active \in Actives  BY DEF ActorState
<1>2. IsFiniteSet(DOMAIN x.active) /\ \A o \in DOMAIN x.active : x.active[o] \in LimitOrders /\ x.active[o].id = o
  BY <1>1, ActivesFacts
<1>3. IsFiniteSet(S)  BY <1>2, FS_Subset
<1>4. \A o \in S : RequiredBalance(x.active[o])[a] \in Nat
  BY <1>2, RequiredNat
<1> QED BY <1>2, <1>3, <1>4 DEF Required

\* The sum over some of the orders is no greater when they are no larger.
LEMMA RequiredFewer ==
  ASSUME NEW x \in ActorState, NEW y \in ActorState, NEW a \in Asset,
         NEW S, S \subseteq DOMAIN x.active, NEW U, U \subseteq DOMAIN y.active, U \subseteq S,
         \A o \in U : \/ y.active[o] = x.active[o]
                      \/ /\ SpentAsset(x.active[o]) = a
                         /\ y.active[o].amount <= x.active[o].amount
                         /\ y.active[o].fee <= x.active[o].fee
  PROVE  /\ Sum(Required(x, S, a)) \in Nat /\ Sum(Required(y, U, a)) \in Nat
         /\ Sum(Required(y, U, a)) <= Sum(Required(x, S, a))
<1> DEFINE f == Required(x, S, a)
           g == Required(y, U, a)
<1>1. /\ IsFiniteSet(S) /\ DOMAIN f = S
      /\ \A o \in S : /\ x.active[o] \in LimitOrders /\ x.active[o].id = o
                      /\ f[o] = RequiredBalance(x.active[o])[a] /\ f[o] \in Nat
  BY RequiredTyped
<1>2. /\ DOMAIN g = U
      /\ \A o \in U : /\ y.active[o] \in LimitOrders /\ y.active[o].id = o
                      /\ g[o] = RequiredBalance(y.active[o])[a] /\ g[o] \in Nat
  BY RequiredTyped
<1> HIDE DEF f, g
<1>3. ASSUME NEW o \in U PROVE g[o] <= f[o]
  BY <1>1, <1>2, RequiredLess
<1>4. Below(g, f)  BY <1>1, <1>2, <1>3 DEF Below
<1>5. IsFiniteSet(DOMAIN f)  BY <1>1
<1>6. Sum(f) \in Nat /\ Sum(g) \in Nat /\ Sum(g) <= Sum(f)
  BY <1>4, <1>5, SumFewer
<1> QED BY <1>6 DEF f, g

\* An asset stays covered when the open orders are fewer and smaller.
LEMMA CoverKept ==
  ASSUME NEW x \in ActorState, NEW y \in ActorState, NEW a \in Asset, NEW n \in Int,
         Covered(x, a, n),
         \A o \in Open(y, a) : /\ o \in Open(x, a)
                               /\ \/ y.active[o] = x.active[o]
                                  \/ /\ y.active[o].amount <= x.active[o].amount
                                     /\ y.active[o].fee <= x.active[o].fee
  PROVE  Covered(y, a, n)
<1> DEFINE S == Open(x, a)
           U == Open(y, a)
<1>1. S \subseteq DOMAIN x.active /\ U \subseteq DOMAIN y.active /\ U \subseteq S
      /\ \A o \in S : SpentAsset(x.active[o]) = a
  BY DEF Open
<1> HIDE DEF S, U
<1>2. /\ Sum(Required(x, S, a)) \in Nat /\ Sum(Required(y, U, a)) \in Nat
      /\ Sum(Required(y, U, a)) <= Sum(Required(x, S, a))
  BY <1>1, RequiredFewer DEF S, U
<1>3. NotNegative(n) \in Nat  BY DEF NotNegative
<1>4. Sum(Required(x, S, a)) <= NotNegative(n)
  BY DEF Covered, S
<1>5. Sum(Required(y, U, a)) <= NotNegative(n)
  BY <1>2, <1>3, <1>4
<1> QED BY <1>5 DEF Covered, U

----------------------------------------------------------------------------
(* The steps, with what is covered *)

\* Storing keeps what is active in x, and asks to cancel what is asked for.
LEMMA StoreKeeps ==
  ASSUME NEW w \in Owner, NEW x \in ActorState, NEW events, Store(w, x, events),
         actor \in [Owner -> ActorState]
  PROVE  /\ actor'[w].active = x.active
         /\ x.pendingCancellation \subseteq actor'[w].pendingCancellation
         /\ \A p : Canceled(p) \in ToSet(events) => p \in actor'[w].pendingCancellation
         /\ \A v \in Owner : v # w => actor'[v] = actor[v]
<1> DEFINE IdsOf(type) == {e.id : e \in {f \in ToSet(events) : f.type = type}}
           placing == x.pendingPlacement \cup IdsOf("Placed")
           cancelling == x.pendingCancellation \cup IdsOf("Canceled")
           y == [x EXCEPT !.pendingPlacement = placing, !.pendingCancellation = cancelling]
<1>1. actor' = [actor EXCEPT ![w] = y]  BY DEF Store
<1>2. \A p : Canceled(p) \in ToSet(events) => p \in cancelling
  BY DEF Canceled
<1> HIDE DEF placing, cancelling
<1>3. y.active = x.active /\ y.pendingCancellation = cancelling
  BY DEF ActorState
<1> HIDE DEF y
<1>4. actor'[w] = y /\ \A v \in Owner : v # w => actor'[v] = actor[v]
  BY <1>1
<1> QED BY <1>2, <1>3, <1>4 DEF cancelling

\* Requests to cancel
LEMMA CancelCover ==
  ASSUME TradingInv, TradingInvNext, NEW w \in Owner, NEW x \in ActorState,
         x.active = actor[w].active, x.pendingCancellation = actor[w].pendingCancellation,
         NEW events, Store(w, x, events),
         spendable \in [Owner -> [Asset -> Int]], BalanceInv(actor, spendable, changed)
  PROVE  BalanceInv(actor', spendable, changed)
<1>1. actor \in [Owner -> ActorState] /\ actor' \in [Owner -> ActorState]
  BY DEF TradingInv, TradingInvNext, ActorsInv
<1>2. /\ actor'[w].active = actor[w].active
      /\ actor[w].pendingCancellation \subseteq actor'[w].pendingCancellation
      /\ \A v \in Owner : v # w => actor'[v] = actor[v]
  BY <1>1, StoreKeeps
<1> SUFFICES ASSUME NEW v \in Owner, NEW a \in Asset, a \notin changed[v]
             PROVE  Covered(actor'[v], a, spendable[v][a])
  BY DEF BalanceInv
<1>3. Covered(actor[v], a, spendable[v][a]) /\ spendable[v][a] \in Int
  BY DEF BalanceInv
<1>4. \A o \in Open(actor'[v], a) : o \in Open(actor[v], a) /\ actor'[v].active[o] = actor[v].active[o]
  BY <1>2 DEF Open
<1> QED BY <1>1, <1>3, <1>4, CoverKept

LEMMA PlaceOrderCover ==
  ASSUME TradingInv, TradingInvNext, NEW o \in Id, PlaceOrder(o),
         spendable \in [Owner -> [Asset -> Int]], BalanceInv(actor, spendable, changed)
  PROVE  BalanceInv(actor', spendable, changed)
<1> DEFINE w == Sender(o)
           lo == LimitOrder(o)
           x == actor[w]
           r == Reserve(x, lo)
           y == actor'[w]
<1>1. /\ ~ OrderExists(x, o) /\ IsCovered(w, lo) /\ Store(w, r, <<Placed(o)>>)
  BY DEF PlaceOrder
<1>2. o \notin DOMAIN x.active  BY <1>1 DEF OrderExists
<1>3. /\ actor \in [Owner -> ActorState] /\ actor' \in [Owner -> ActorState] /\ w \in Owner
      /\ Reserved(x)
  BY InvParts DEF TradingInvNext, ActorsInv
<1>4. lo \in LimitOrders /\ lo.id = o
  BY LimitOrderFacts DEF LimitOrder
<1>5. x \in ActorState /\ y \in ActorState  BY <1>3
<1>6. r.openVolume = [a \in Asset |-> x.openVolume[a] + RequiredBalance(lo)[a]]
  BY <1>5 DEF ActorState, Reserve
<1> HIDE DEF lo, x, y, w
<1>7. ReservedBut(x, o)
  <2>1. DOMAIN x.active \ {o} = DOMAIN x.active  BY <1>2
  <2> QED BY <1>3, <2>1 DEF Reserved, ReservedBut, RequiredBut
<1>8. /\ r \in ActorState /\ DOMAIN r.active = DOMAIN x.active \cup {o} /\ r.active[o] = lo
      /\ \A p \in DOMAIN x.active : p # o => r.active[p] = x.active[p]
      /\ Reserved(r) /\ r.pendingCancellation = x.pendingCancellation
  BY <1>4, <1>5, <1>7, ReserveFacts
<1> HIDE DEF r
<1>9. /\ y.active = r.active /\ r.pendingCancellation \subseteq y.pendingCancellation
      /\ \A v \in Owner : v # w => actor'[v] = actor[v]
  BY <1>1, <1>3, <1>8, StoreKeeps DEF y
<1> SUFFICES ASSUME NEW v \in Owner, NEW a \in Asset, a \notin changed[v]
             PROVE  Covered(actor'[v], a, spendable[v][a])
  BY DEF BalanceInv
<1>10. Covered(actor[v], a, spendable[v][a]) /\ spendable[v][a] \in Int
  BY DEF BalanceInv
<1>11. CASE v # w  BY <1>9, <1>10, <1>11
<1>12. CASE v = w /\ SpentAsset(lo) # a
  BY <1>8, <1>9, <1>12, <1>10, <1>5, CoverKept DEF Open, x, y
<1>13. CASE v = w /\ SpentAsset(lo) = a
  <2> DEFINE U == Open(y, a)
             S == DOMAIN r.active
  <2>1. U \subseteq DOMAIN y.active /\ U \subseteq S /\ \A p \in U : y.active[p] = r.active[p]
    BY <1>9 DEF Open
  <2> HIDE DEF U
  <2>2. /\ Sum(Required(r, S, a)) \in Nat /\ Sum(Required(y, U, a)) \in Nat
        /\ Sum(Required(y, U, a)) <= Sum(Required(r, S, a))
    BY <1>5, <1>8, <2>1, RequiredFewer
  <2>3. r.openVolume[a] = Sum(Required(r, S, a))
    BY <1>8 DEF Reserved, Required
  <2>4. spendable[w][a] - x.openVolume[a] >= RequiredBalance(lo)[a]
    BY <1>1, <1>13 DEF IsCovered, TradableBalance, x
  <2>5. r.openVolume[a] = x.openVolume[a] + RequiredBalance(lo)[a]
    BY <1>6
  <2>6. RequiredBalance(lo)[a] \in Nat /\ x.openVolume[a] \in Int /\ spendable[w][a] \in Int
    BY <1>5, <1>3, <1>4, RequiredNat DEF ActorState
  <2> DEFINE rb == RequiredBalance(lo)[a]
             ov == x.openVolume[a]
             sp == spendable[w][a]
             big == Sum(Required(r, S, a))
             small == Sum(Required(y, U, a))
  <2>7. small <= NotNegative(sp)
    BY <2>2, <2>3, <2>4, <2>5, <2>6 DEF NotNegative
  <2>8. Covered(y, a, spendable[w][a])  BY <2>7 DEF Covered, U
  <2> QED BY <1>13, <2>8 DEF y
<1> QED BY <1>11, <1>12, <1>13

LEMMA ActiveOfOne ==
  ASSUME NEW x, NEW p
  PROVE  /\ p \in DOMAIN x.active => ActiveOf(x, p) = {x.active[p]}
         /\ ActiveOf(x, p) # {} => p \in DOMAIN x.active
  BY DEF ActiveOf

\* What an event leaves open of an order was open before, and was no less.
LEMMA HandleEventCover ==
  ASSUME TradingInv, TradingInvNext, RestInv, NEW w \in Owner, HandleEvent(w),
         ShrinkInv(queue, processed, mail, actor),
         spendable \in [Owner -> [Asset -> Int]], BalanceInv(actor, spendable, changed)
  PROVE  BalanceInv(actor', spendable, changed)
<1> DEFINE s == mail[w]
           e == Head(s)
           x == actor[w]
           y == Handle(x, w, e)
<1>1. s # <<>> /\ actor' = [actor EXCEPT ![w] = y]
  BY DEF HandleEvent
<1>2. /\ actor \in [Owner -> ActorState] /\ actor' \in [Owner -> ActorState]
      /\ mail \in [Owner -> Seq(Events)]
  BY DEF TradingInv, TradingInvNext, ActorsInv
<1>3. MailInv(queue, processed, mail) /\ OwnInv(actor)
  BY DEF RestInv, UnderWay
<1>4. /\ x \in ActorState /\ s \in Seq(Events)
      /\ \A v \in Owner : v # w => actor'[v] = actor[v]
      /\ actor'[w] = y /\ y \in ActorState
  BY <1>1, <1>2
<1>5. e = s[1] /\ 1 \in DOMAIN s  BY <1>1, <1>4
<1>6. e \in Events /\ Proper(e) /\ w \in Parties(e)
  BY <1>1, <1>4, TellsTail, <1>3, <1>5 DEF MailInv, About
<1>7. /\ \A p \in Id : Sender(p) = w =>
           /\ ActiveOf(y, p) = IF p \in Mentioned(e) THEN Says(e, p) ELSE ActiveOf(x, p)
           /\ p \in y.pendingCancellation <=> p \in x.pendingCancellation /\ ~ Ends(e, p)
      /\ \A o \in DOMAIN y.active : o \in DOMAIN x.active \/ Sender(o) = w
  BY <1>4, <1>6, HandleView
<1> HIDE DEF y
<1>8. \A p \in Id : Sender(p) = w /\ p \in Mentioned(e) => NoMore(ActiveOf(x, p), Says(e, p))
  BY <1>1, <1>4, ShrinksTail DEF ShrinkInv
<1>9. \A p \in DOMAIN x.active : Sender(p) = w
  BY <1>3 DEF OwnInv
<1> HIDE DEF e, s, x
<1>10. /\ DOMAIN x.active \subseteq Id /\ DOMAIN y.active \subseteq Id
       /\ \A p \in DOMAIN x.active : x.active[p].id = p
       /\ \A p \in DOMAIN y.active : y.active[p].id = p
  BY <1>4, ActivesFacts DEF ActorState
<1> SUFFICES ASSUME NEW v \in Owner, NEW a \in Asset, a \notin changed[v]
             PROVE  Covered(actor'[v], a, spendable[v][a])
  BY DEF BalanceInv
<1>11. Covered(actor[v], a, spendable[v][a]) /\ spendable[v][a] \in Int
  BY DEF BalanceInv
<1>12. CASE v # w  BY <1>4, <1>11, <1>12
<1>13. CASE v = w
  <2>1. ASSUME NEW p \in Open(y, a)
        PROVE  /\ p \in Open(x, a)
               /\ \/ y.active[p] = x.active[p]
                  \/ y.active[p].amount <= x.active[p].amount /\ y.active[p].fee <= x.active[p].fee
    <3>1. p \in DOMAIN y.active /\ SpentAsset(y.active[p]) = a /\ p \notin y.pendingCancellation
      BY <2>1 DEF Open
    <3>2. p \in Id /\ Sender(p) = w
      BY <1>7, <1>9, <1>10, <3>1
    <3>3. ActiveOf(y, p) = {y.active[p]}  BY <3>1, ActiveOfOne
    <3>4. /\ p \in DOMAIN x.active
          /\ \/ y.active[p] = x.active[p]
             \/ y.active[p].amount <= x.active[p].amount /\ y.active[p].fee <= x.active[p].fee
      <4>1. CASE p \notin Mentioned(e)
        <5>1. ActiveOf(x, p) = {y.active[p]}
          BY <1>7, <3>2, <3>3, <4>1
        <5>2. p \in DOMAIN x.active /\ ActiveOf(x, p) = {x.active[p]}
          BY <5>1, ActiveOfOne
        <5> QED BY <5>1, <5>2
      <4>2. CASE p \in Mentioned(e)
        <5>1. Says(e, p) = {y.active[p]} /\ NoMore(ActiveOf(x, p), Says(e, p))
          BY <1>7, <1>8, <3>2, <3>3, <4>2
        <5>2. PICK l \in ActiveOf(x, p) : y.active[p].amount <= l.amount /\ y.active[p].fee <= l.fee
          BY <5>1 DEF NoMore
        <5>3. p \in DOMAIN x.active /\ ActiveOf(x, p) = {x.active[p]}
          BY <5>2, ActiveOfOne
        <5> QED BY <5>2, <5>3
      <4> QED BY <4>1, <4>2
    <3>5. p \notin x.pendingCancellation
      BY <1>7, <3>2, <3>3, <3>1 DEF Ends
    <3>6. SpentAsset(x.active[p]) = SpentAsset(y.active[p])
      BY <1>10, <3>1, <3>4 DEF SpentAsset, IsBuy
    <3> QED BY <3>1, <3>4, <3>5, <3>6 DEF Open
  <2>2. Covered(x, a, spendable[v][a])  BY <1>11, <1>13 DEF x
  <2>3. Covered(y, a, spendable[v][a])
    BY <1>4, <1>11, <2>1, <2>2, CoverKept
  <2> QED BY <1>4, <1>13, <2>3
<1> QED BY <1>12, <1>13

----------------------------------------------------------------------------
(* Other changes of balances *)

LEMMA LossTyped ==
  ASSUME NEW t \in TradeSet, NEW w, NEW a
  PROVE  PessimisticLoss(t, w, a) \in Nat
<1>1. t.executed \in Nat /\ t.submitted.id \in Id /\ t.counter.id \in Id
  BY DEF TradeSet, LimitOrders
<1>2. TradePrice(t) \in Nat  BY TradePriceFacts
<1>3. PartialFee(t.submitted.id, t.executed) \in Nat /\ PartialFee(t.counter.id, t.executed) \in Nat
  BY <1>1, PartialFeeFacts
<1>4. Debit(t, w, a) \in Int /\ Credit(t, w, a) \in Int
  BY <1>1, <1>2, <1>3 DEF Debit, Credit
<1> QED BY <1>4 DEF PessimisticLoss, NotNegative

\* Where no change is to be announced, a trade takes nothing.
LEMMA SettleCover ==
  ASSUME CoverInv, Settle, ~ restarted, actor \in [Owner -> ActorState]
  PROVE  BalanceInv(actor', spendable', changed')
<1> DEFINE t == Head(toSettle)
           Loss(w, a) == IF t \in settled THEN 0 ELSE PessimisticLoss(t, w, a)
<1>1. /\ toSettle # <<>>
      /\ spendable' = [w \in Owner |-> [a \in Asset |-> spendable[w][a] - Loss(w, a)]]
      /\ changed' = [w \in Owner |-> changed[w] \cup {a \in Asset : Loss(w, a) > 0}]
      /\ actor' = actor
  BY DEF Settle
<1>2. BalanceInv(actor, spendable, changed) /\ spendable \in [Owner -> [Asset -> Int]]
  BY DEF CoverInv
<1> SUFFICES ASSUME NEW v \in Owner, NEW a \in Asset, a \notin changed'[v]
             PROVE  Covered(actor[v], a, spendable'[v][a])
  BY <1>1 DEF BalanceInv
<1> DEFINE l == Loss(v, a)
<1>3. spendable'[v][a] = spendable[v][a] - l /\ a \notin changed[v] /\ ~ (l > 0)
  BY <1>1
<1>4. l \in Nat  BY <1>1, LossTyped DEF CoverInv
<1> HIDE DEF l
<1>5. l = 0  BY <1>3, <1>4
<1>6. spendable'[v][a] = spendable[v][a]  BY <1>2, <1>3, <1>5
<1> QED BY <1>2, <1>3, <1>6 DEF BalanceInv

----------------------------------------------------------------------------
(* Comparing the orders with a changed balance *)

\* The part of a balance that is left as the orders ids take theirs, one by one
LeftOf(rest, x, initial, ids) ==
  /\ rest[0] = initial
  /\ \A n \in 1 .. Len(ids) :
       rest[n] = IF Fits(rest[n - 1], x.active[ids[n]])
                 THEN Without(rest[n - 1], x.active[ids[n]]) ELSE rest[n - 1]

\* Those of the first n orders that find their part, and all that do not
Taken(rest, x, ids, n) == {ids[i] : i \in {j \in 1 .. n : Fits(rest[j - 1], x.active[ids[j]])}}
Short(rest, x, ids) == {ids[i] : i \in {j \in DOMAIN ids : ~ Fits(rest[j - 1], x.active[ids[j]])}}

\* These are computed on the way to the orders to cancel.
Compared(x, assets, initial, ids) ==
  \E rest \in [0 .. Len(ids) -> [assets -> Int]] :
    /\ LeftOf(rest, x, initial, ids)
    /\ OrdersToDelete(x, initial, ids) = Where(ids, Short(rest, x, ids) \ x.pendingCancellation)

LEMMA OrdersToDeleteIs ==
  ASSUME NEW x \in ActorState, NEW assets \in SUBSET Asset, NEW initial \in [assets -> Int],
         NEW ids \in Seq(DOMAIN x.active)
  PROVE  Compared(x, assets, initial, ids)
<1> DEFINE N == Len(ids)
           B == [assets -> Int]
           Take(r, n) == IF Fits(r, x.active[ids[n]]) THEN Without(r, x.active[ids[n]]) ELSE r
           Is(f) == f = [n \in 0 .. N |-> IF n = 0 THEN initial
                                          ELSE IF Fits(f[n - 1], x.active[ids[n]])
                                          THEN Without(f[n - 1], x.active[ids[n]]) ELSE f[n - 1]]
           rest == CHOOSE f : Is(f)
           step == [n \in 1 .. N |-> [r \in B |-> Take(r, n)]]
<1>1. N \in Nat /\ \A n \in 1 .. N : ids[n] \in DOMAIN x.active
  OBVIOUS
<1>2. \A o \in DOMAIN x.active : x.active[o] \in LimitOrders
  BY ActivesFacts DEF ActorState
<1>3. \A n \in 1 .. N : \A r \in B : Take(r, n) \in B
  BY <1>1, <1>2, RequiredNat DEF Without
<1>4. step \in [1 .. N -> [B -> B]]  BY <1>3
<1>5. initial \in B  OBVIOUS
<1> HIDE DEF N, step, B
<1>6. PICK f \in [0 .. N -> B] : StepsBy(f, N, initial, step)
  BY <1>1, <1>4, <1>5, Recursion
<1>7. ASSUME NEW n \in 1 .. N PROVE f[n] = Take(f[n - 1], n)
  <2>1. f[n] = step[n][f[n - 1]] /\ f[n - 1] \in B
    BY <1>1, <1>6 DEF StepsBy
  <2> HIDE DEF Take
  <2> QED BY <2>1 DEF step
<1>8. Is(f)
  <2> DEFINE g == [n \in 0 .. N |-> IF n = 0 THEN initial ELSE Take(f[n - 1], n)]
  <2>1. ASSUME NEW n \in 0 .. N PROVE f[n] = g[n]
    BY <1>1, <1>6, <1>7 DEF StepsBy
  <2>2. DOMAIN f = 0 .. N /\ f = [n \in 0 .. N |-> f[n]]
    BY <1>6
  <2>3. f = g  BY <2>1, <2>2 DEF g
  <2> QED BY <2>3
<1>9. Is(rest)  BY <1>8
<1>10. OrdersToDelete(x, initial, ids) = Where(ids, Short(rest, x, ids) \ x.pendingCancellation)
  BY DEF OrdersToDelete, N, Short
<1> HIDE DEF rest
<1>11. LeftOf(f, x, initial, ids)
  BY <1>7, <1>6 DEF StepsBy, LeftOf, N
<1>12. \A n \in 0 .. N : rest[n] = f[n]
  <2> DEFINE T == {n \in 0 .. N : rest[n] = f[n]}
  <2>1. 0 \in T  BY <1>1, <1>8, <1>9
  <2>2. ASSUME NEW k \in 0 .. N, k # N, k \in T PROVE k + 1 \in T
    <3>1. k + 1 \in 0 .. N /\ k + 1 # 0 /\ (k + 1) - 1 = k
      BY <1>1, <2>2
    <3>2. rest[k] = f[k]  BY <2>2
    <3>3. f[k + 1] = Take(f[k], k + 1)  BY <1>7, <3>1
    <3>4. rest[k + 1] = Take(rest[k], k + 1)  BY <1>9, <3>1
    <3> HIDE DEF Take
    <3> QED BY <3>1, <3>2, <3>3, <3>4
  <2> HIDE DEF T
  <2>3. \A k \in 0 .. N : k \in T  BY <1>1, <2>1, <2>2, Climb
  <2> QED BY <2>3 DEF T
<1>13. rest = f  BY <1>9, <1>6, <1>12
<1> HIDE DEF Take, Is
<1> QED BY <1>6, <1>10, <1>11, <1>13 DEF Compared, N, B

\* Together the orders that find their part require no more than the balance, and
\* nothing of one that is negative.
LEMMA TakenFits ==
  ASSUME NEW x \in ActorState, NEW assets \in SUBSET Asset, NEW initial \in [assets -> Int],
         NEW ids \in Seq(DOMAIN x.active), \A i, j \in DOMAIN ids : i # j => ids[i] # ids[j],
         NEW rest \in [0 .. Len(ids) -> [assets -> Int]], LeftOf(rest, x, initial, ids),
         NEW a \in assets
  PROVE  Sum(Required(x, Taken(rest, x, ids, Len(ids)), a)) <= NotNegative(initial[a])
<1> DEFINE N == Len(ids)
           S(n) == Taken(rest, x, ids, n)
           sum(n) == Sum(Required(x, S(n), a))
           T == {n \in 0 .. N : /\ sum(n) \in Nat /\ rest[n][a] = initial[a] - sum(n)
                                /\ sum(n) = 0 \/ rest[n][a] >= 0}
<1>1. /\ N \in Nat /\ DOMAIN ids = 1 .. N
      /\ \A i \in 1 .. N : ids[i] \in DOMAIN x.active
      /\ a \in Asset /\ initial[a] \in Int
      /\ \A n \in 0 .. N : rest[n] \in [assets -> Int]
  OBVIOUS
<1>2. \A n \in 0 .. N : S(n) \subseteq DOMAIN x.active
  BY <1>1 DEF Taken
<1>3. \A n \in 0 .. N : sum(n) \in Nat
  BY <1>1, <1>2, RequiredFewer
<1>4. 0 \in T
  <2>1. S(0) = {}  BY DEF Taken
  <2>2. DOMAIN Required(x, S(0), a) = {}  BY <2>1 DEF Required
  <2>3. sum(0) = 0  BY <2>2, SumNone
  <2>4. rest[0][a] = initial[a] /\ 0 \in 0 .. N
    BY <1>1 DEF LeftOf
  <2> HIDE DEF sum
  <2> QED BY <1>1, <2>3, <2>4
<1>5. ASSUME NEW n \in 0 .. N, n # N, n \in T PROVE n + 1 \in T
  <2> DEFINE m == n + 1
             o == ids[m]
             r == RequiredBalance(x.active[o])[a]
  <2>1. m \in 1 .. N /\ m \in 0 .. N /\ m - 1 = n /\ n \in Nat
    <3> HIDE DEF T, N
    <3> QED BY <1>1, <1>5
  <2>2. o \in DOMAIN x.active /\ x.active[o] \in LimitOrders
    BY <1>1, <2>1, ActivesFacts DEF ActorState
  <2>3. rest[m] = IF Fits(rest[n], x.active[o]) THEN Without(rest[n], x.active[o]) ELSE rest[n]
    BY <2>1 DEF LeftOf
  <2>4. /\ sum(n) \in Nat /\ rest[n][a] = initial[a] - sum(n)
        /\ sum(n) = 0 \/ rest[n][a] >= 0
    BY <1>5
  <2>5. r \in Nat  BY <1>1, <2>2, RequiredNat
  <2>6. CASE Fits(rest[n], x.active[o])
    <3>1. S(m) = S(n) \cup {o}
      <4>1. \A j : j \in 1 .. m <=> j \in 1 .. n \/ j = m
        BY <2>1
      <4>2. Fits(rest[m - 1], x.active[ids[m]])  BY <2>1, <2>6
      <4> QED BY <4>1, <4>2 DEF Taken
    <3>2. o \notin S(n)
      <4> SUFFICES ASSUME o \in S(n) PROVE FALSE  OBVIOUS
      <4>1. PICK i \in 1 .. n : o = ids[i]  BY DEF Taken
      <4>2. i \in DOMAIN ids /\ m \in DOMAIN ids /\ i # m
        BY <1>1, <2>1
      <4> QED BY <4>1, <4>2
    <3> DEFINE f == Required(x, S(m), a)
               g == Required(x, S(n), a)
    <3>3. /\ IsFiniteSet(S(n)) /\ DOMAIN g = S(n) /\ DOMAIN f = S(m)
          /\ \A p \in S(n) : g[p] \in Nat /\ f[p] = g[p]
          /\ f[o] = r
      BY <1>2, <2>1, <1>1, RequiredTyped, <3>1 DEF Required
    <3> HIDE DEF f, g, r, o, m, S
    <3>4. Sum(f) = Sum(g) + f[o]
      BY <3>3, <2>5, <3>1, <3>2, SumOneMore
    <3>5. sum(m) = sum(n) + r  BY <3>3, <3>4 DEF f, g
    <3>6. rest[m][a] = rest[n][a] - r
      BY <2>3, <2>6, <1>1 DEF Without, r
    <3>7. r = 0 \/ rest[n][a] >= r  BY <1>1, <2>6 DEF Fits, r
    <3>8. rest[n][a] \in Int  BY <1>1
    <3> DEFINE before == rest[n][a]
               after == rest[m][a]
               have == initial[a]
               s == sum(n)
               t == sum(m)
    <3> HIDE DEF sum
    <3>9. t \in Nat /\ after = have - t /\ (t = 0 \/ after >= 0)
      BY <1>1, <2>4, <2>5, <3>5, <3>6, <3>7, <3>8
    <3> QED BY <2>1, <3>9 DEF m
  <2>7. CASE ~ Fits(rest[n], x.active[o])
    <3>1. S(m) = S(n)
      <4>1. \A j : j \in 1 .. m <=> j \in 1 .. n \/ j = m
        BY <2>1
      <4>2. ~ Fits(rest[m - 1], x.active[ids[m]])
        BY <2>1, <2>7
      <4> QED BY <4>1, <4>2 DEF Taken
    <3>2. rest[m] = rest[n]  BY <2>3, <2>7
    <3>3. sum(m) = sum(n)  BY <3>1
    <3> HIDE DEF sum
    <3> QED BY <2>1, <2>4, <3>2, <3>3
  <2> QED BY <2>6, <2>7
<1>6. N \in T
  <2>1. N \in 0 .. N  BY <1>1
  <2> HIDE DEF T, N
  <2> QED BY <1>1, <1>4, <1>5, <2>1, Climb
<1> DEFINE s == sum(N)
           left == rest[N][a]
           have == initial[a]
<1>7. s \in Nat /\ left = have - s /\ (s = 0 \/ left >= 0) /\ have \in Int
  BY <1>1, <1>6
<1> HIDE DEF s, left, have
<1>8. s <= NotNegative(have)  BY <1>7 DEF NotNegative
<1> QED BY <1>8 DEF s, have

\* Every active order has its place among all of them.
LEMMA AllByAge ==
  ASSUME NEW x \in ActorState, NEW ids \in SetToSeqs(DOMAIN x.active)
  PROVE  /\ ids \in Seq(DOMAIN x.active) /\ \A i, j \in DOMAIN ids : i # j => ids[i] # ids[j]
         /\ \A o \in DOMAIN x.active : \E i \in DOMAIN ids : ids[i] = o
<1> DEFINE D == DOMAIN x.active
           n == Cardinality(D)
<1>1. IsFiniteSet(D)  BY ActivesFacts DEF ActorState
<1>2. n \in Nat  BY <1>1, FS_CardinalityType
<1>3. ids \in [1 .. n -> D] /\ \A i, j \in 1 .. n : i # j => ids[i] # ids[j]
  BY DEF SetToSeqs
<1> HIDE DEF D
<1>4. IsFiniteSet(1 .. n) /\ Cardinality(1 .. n) = n
  BY <1>2, FS_Interval
<1> HIDE DEF n
<1>5. ids \in Injection(1 .. n, D)
  BY <1>3 DEF Injection, IsInjective
<1>6. ids \in Surjection(1 .. n, D)
  BY <1>1, <1>4, <1>5, FS_Injection DEF n
<1>7. \A o \in D : \E i \in 1 .. n : ids[i] = o
  BY <1>6 DEF Surjection
<1>8. ids \in Seq(D)  BY <1>2, <1>3
<1>9. DOMAIN ids = 1 .. n  BY <1>3
<1> QED BY <1>3, <1>7, <1>8, <1>9 DEF D

\* The orders that stay open after the comparison are covered by the changed balance.
LEMMA BalanceUpdatedCover ==
  ASSUME TradingInv, TradingInvNext, NEW w \in Owner, BalanceUpdated(w),
         spendable \in [Owner -> [Asset -> Int]], changed \in [Owner -> SUBSET Asset],
         BalanceInv(actor, spendable, changed)
  PROVE  BalanceInv(actor', spendable', changed')
<1>1. PICK assets \in (SUBSET changed[w]) \ {{}} : \E byAge \in ByAge(actor[w]) :
        LET ids == OrdersToDelete(actor[w], Restrict(spendable[w], assets), byAge)
        IN  /\ changed' = [changed EXCEPT ![w] = @ \ assets]
            /\ Store(w, actor[w], [i \in DOMAIN ids |-> Canceled(ids[i])])
            /\ UNCHANGED <<spendable, toSettle, settled>>
  BY DEF BalanceUpdated
<1>2. PICK byAge \in ByAge(actor[w]) :
        LET ids == OrdersToDelete(actor[w], Restrict(spendable[w], assets), byAge)
        IN  /\ changed' = [changed EXCEPT ![w] = @ \ assets]
            /\ Store(w, actor[w], [i \in DOMAIN ids |-> Canceled(ids[i])])
            /\ UNCHANGED <<spendable, toSettle, settled>>
  BY <1>1
<1> DEFINE x == actor[w]
           y == actor'[w]
           initial == Restrict(spendable[w], assets)
           ids == OrdersToDelete(x, initial, byAge)
           events == [i \in DOMAIN ids |-> Canceled(ids[i])]
<1>3. /\ changed' = [changed EXCEPT ![w] = @ \ assets] /\ Store(w, x, events)
      /\ spendable' = spendable
  BY <1>2
<1>4. /\ actor \in [Owner -> ActorState] /\ actor' \in [Owner -> ActorState]
      /\ x \in ActorState /\ y \in ActorState
  BY DEF TradingInv, TradingInvNext, ActorsInv
<1>5. /\ assets \in SUBSET Asset /\ initial \in [assets -> Int]
      /\ \A a \in assets : initial[a] = spendable[w][a]
  BY <1>1 DEF Restrict
<1>6. /\ byAge \in Seq(DOMAIN x.active) /\ \A i, j \in DOMAIN byAge : i # j => byAge[i] # byAge[j]
      /\ \A o \in DOMAIN x.active : \E i \in DOMAIN byAge : byAge[i] = o
  BY <1>4, AllByAge DEF ByAge
<1> HIDE DEF initial
<1>7. PICK rest \in [0 .. Len(byAge) -> [assets -> Int]] :
        /\ LeftOf(rest, x, initial, byAge)
        /\ ids = Where(byAge, Short(rest, x, byAge) \ x.pendingCancellation)
  <2> HIDE DEF x, ids, events, y
  <2>1. x \in ActorState /\ byAge \in Seq(DOMAIN x.active)
    BY <1>4, <1>6
  <2>2. assets \in SUBSET Asset /\ initial \in [assets -> Int]
    BY <1>5
  <2>3. Compared(x, assets, initial, byAge)
    BY <2>1, <2>2, OrdersToDeleteIs
  <2> QED BY <2>3 DEF Compared, ids
<1> HIDE DEF ids
<1>8. \A o \in ToSet(byAge) : o \in Short(rest, x, byAge) \ x.pendingCancellation
                                => Canceled(o) \in ToSet(events)
  <2> SUFFICES ASSUME NEW o \in ToSet(byAge), o \in Short(rest, x, byAge) \ x.pendingCancellation
               PROVE  Canceled(o) \in ToSet(events)
    OBVIOUS
  <2>1. o \in ToSet(ids)
    <3> DEFINE K == Short(rest, x, byAge) \ x.pendingCancellation
    <3> HIDE DEF K, x
    <3>1. ToSet(Where(byAge, K)) = ToSet(byAge) \cap K
      BY <1>6, WhereElements
    <3> QED BY <1>7, <3>1 DEF K
  <2>2. PICK i \in DOMAIN ids : ids[i] = o  BY <2>1 DEF ToSet
  <2>3. DOMAIN events = DOMAIN ids /\ events[i] = Canceled(o)
    BY <2>2
  <2> HIDE DEF events
  <2> QED BY <2>2, <2>3 DEF ToSet
<1> HIDE DEF events
<1>9. /\ y.active = x.active /\ x.pendingCancellation \subseteq y.pendingCancellation
      /\ \A p : Canceled(p) \in ToSet(events) => p \in y.pendingCancellation
      /\ \A v \in Owner : v # w => actor'[v] = actor[v]
  BY <1>3, <1>4, StoreKeeps
<1> SUFFICES ASSUME NEW v \in Owner, NEW a \in Asset, a \notin changed'[v]
             PROVE  Covered(actor'[v], a, spendable[v][a])
  BY <1>3 DEF BalanceInv
<1>10. v # w => changed'[v] = changed[v]  BY <1>3
<1>11. a \notin changed[w] \ assets \/ v # w  BY <1>3
<1> HIDE DEF x, y
<1>12. CASE v # w  BY <1>9, <1>10, <1>12 DEF BalanceInv
<1>13. CASE v = w /\ a \notin changed[w]
  <2>1. Covered(x, a, spendable[w][a]) /\ spendable[w][a] \in Int
    BY <1>13 DEF BalanceInv, x
  <2>2. \A o \in Open(y, a) : o \in Open(x, a) /\ y.active[o] = x.active[o]
    BY <1>9 DEF Open
  <2>3. Covered(y, a, spendable[w][a])
    BY <1>4, <2>1, <2>2, CoverKept
  <2> QED BY <1>13, <2>3 DEF y
<1>14. CASE v = w /\ a \in assets
  <2> DEFINE S == Taken(rest, x, byAge, Len(byAge))
             U == Open(y, a)
             n == spendable[w][a]
  <2>1. Sum(Required(x, S, a)) <= NotNegative(n)
    BY <1>4, <1>5, <1>6, <1>7, <1>14, TakenFits DEF S
  <2>2. S \subseteq DOMAIN x.active  BY <1>6 DEF Taken
  <2>3. U \subseteq S /\ U \subseteq DOMAIN y.active
    <3> SUFFICES ASSUME NEW o \in U PROVE o \in S  BY DEF Open
    <3>1. o \in DOMAIN x.active /\ o \notin y.pendingCancellation
      BY <1>9 DEF Open
    <3>2. PICK i \in DOMAIN byAge : byAge[i] = o
      BY <1>6, <3>1
    <3>3. o \in ToSet(byAge)  BY <3>2 DEF ToSet
    <3>4. o \notin Short(rest, x, byAge)
      BY <1>8, <1>9, <3>1, <3>3
    <3>5. Fits(rest[i - 1], x.active[byAge[i]])
      BY <3>2, <3>4 DEF Short
    <3>6. i \in 1 .. Len(byAge)  BY <1>6
    <3> QED BY <3>2, <3>5, <3>6 DEF Taken
  <2>4. \A o \in U : y.active[o] = x.active[o]  BY <1>9
  <2> HIDE DEF S, U
  <2>5. /\ Sum(Required(x, S, a)) \in Nat /\ Sum(Required(y, U, a)) \in Nat
        /\ Sum(Required(y, U, a)) <= Sum(Required(x, S, a))
    BY <1>4, <2>2, <2>3, <2>4, RequiredFewer
  <2>6. NotNegative(n) \in Nat  BY DEF NotNegative
  <2> HIDE DEF n
  <2>7. Sum(Required(y, U, a)) <= NotNegative(n)
    BY <2>1, <2>5, <2>6
  <2> QED BY <1>14, <2>7 DEF Covered, U, n, y
<1> QED BY <1>11, <1>12, <1>13, <1>14

\* Whatever is stored, what is covered stays so if the balances do.
LEMMA StoredCover ==
  ASSUME TradingInv, RestInv, CoverInv, OnlyStored,
         UNCHANGED <<spendable, toSettle, restarted>>, changed' \in [Owner -> SUBSET Asset],
         ~ restarted => BalanceInv(actor', spendable', changed')
  PROVE  CoverInvNext
<1>1. PICK w \in Owner : \E x, events, K : MayStore(w, x, events) /\ Stores(K, w, x, events)
  BY DEF OnlyStored
<1>2. PICK x, events, K : MayStore(w, x, events) /\ Stores(K, w, x, events)
  BY <1>1
<1>3. ~ restarted => ShrinkInv(queue', processed', mail', actor')
  BY <1>2, StoredShrinks DEF CoverInv
<1> QED BY <1>3 DEF CoverInv, CoverInvNext

\* Requests to cancel
LEMMA CancellingCover ==
  ASSUME TradingInv, TradingInvNext, RestInv, CoverInv, OnlyStored,
         NEW w \in Owner, NEW x \in ActorState,
         x.active = actor[w].active, x.pendingCancellation = actor[w].pendingCancellation,
         NEW events, Store(w, x, events), UNCHANGED balanceVars
  PROVE  CoverInvNext
<1>1. UNCHANGED <<spendable, changed, toSettle, restarted>>
  BY DEF balanceVars, Store
<1>2. ~ restarted => BalanceInv(actor', spendable, changed)
  BY CancelCover DEF CoverInv
<1>3. changed' \in [Owner -> SUBSET Asset]
  BY <1>1 DEF CoverInv
<1>4. ~ restarted => BalanceInv(actor', spendable', changed')
  BY <1>1, <1>2
<1> QED BY <1>1, <1>3, <1>4, StoredCover

LEMMA CancelOrderCover ==
  ASSUME TradingInv, TradingInvNext, RestInv, CoverInv, NEW o \in Id, CancelOrder(o)
  PROVE  CoverInvNext
<1>1. Store(Sender(o), actor[Sender(o)], <<Canceled(o)>>) /\ UNCHANGED balanceVars
  BY DEF CancelOrder
<1>2. OnlyStored  BY CancelOrderRest
<1>3. Sender(o) \in Owner /\ actor[Sender(o)] \in ActorState
  BY InvParts
<1> QED BY <1>1, <1>2, <1>3, CancellingCover

LEMMA CancelExpiredOrderCover ==
  ASSUME TradingInv, TradingInvNext, RestInv, CoverInv, NEW o \in Id, CancelExpiredOrder(o)
  PROVE  CoverInvNext
<1> DEFINE w == Sender(o)
           a == actor[w]
           t == a.timers[o] - 1
           x == [a EXCEPT !.expiration = @ \ {o}, !.timers[o] = t]
           events == IF o \in DOMAIN x.active THEN <<Canceled(o)>> ELSE <<>>
<1>1. a.timers[o] > 0 /\ Store(w, x, events) /\ UNCHANGED balanceVars
  BY DEF CancelExpiredOrder
<1>2. w \in Owner /\ a \in ActorState  BY InvParts
<1> HIDE DEF events
<1>3. OnlyStored  BY CancelExpiredOrderRest
<1>4. t \in Nat  BY <1>2, <1>1 DEF ActorState
<1> HIDE DEF t, a
<1>5. x \in ActorState /\ x.active = a.active /\ x.pendingCancellation = a.pendingCancellation
  BY <1>2, <1>4 DEF ActorState
<1> HIDE DEF x, w
<1> QED BY <1>1, <1>2, <1>3, <1>5, CancellingCover DEF a

LEMMA CancelAllOrdersCover ==
  ASSUME TradingInv, TradingInvNext, RestInv, CoverInv, NEW w \in Owner, CancelAllOrders(w)
  PROVE  CoverInvNext
<1>1. PICK ids \in SetToSeqs(DOMAIN actor[w].active) :
        Store(w, actor[w], [i \in DOMAIN ids |-> Canceled(ids[i])])
  BY DEF CancelAllOrders
<1>2. UNCHANGED balanceVars  BY DEF CancelAllOrders
<1>3. OnlyStored  BY CancelAllOrdersRest
<1>4. actor[w] \in ActorState  BY InvParts
<1> QED BY <1>1, <1>2, <1>3, <1>4, CancellingCover

LEMMA PlacingCover ==
  ASSUME TradingInv, TradingInvNext, RestInv, CoverInv, NEW o \in Id, MaySend(o), PlaceOrder(o)
  PROVE  CoverInvNext
<1>1. UNCHANGED <<spendable, changed, toSettle, restarted>>
  BY DEF PlaceOrder, balanceVars, Store
<1>2. OnlyStored  BY PlaceOrderRest
<1>3. ~ restarted => BalanceInv(actor', spendable, changed)
  BY PlaceOrderCover DEF CoverInv
<1>4. changed' \in [Owner -> SUBSET Asset]
  BY <1>1 DEF CoverInv
<1>5. ~ restarted => BalanceInv(actor', spendable', changed')
  BY <1>1, <1>3
<1> QED BY <1>1, <1>2, <1>4, <1>5, StoredCover

LEMMA ComparingCover ==
  ASSUME TradingInv, TradingInvNext, RestInv, CoverInv, NEW w \in Owner, BalanceUpdated(w)
  PROVE  CoverInvNext
<1>1. UNCHANGED <<spendable, toSettle, restarted>>
  BY DEF BalanceUpdated, Store
<1>2. OnlyStored  BY BalanceUpdatedRest
<1>3. ~ restarted => BalanceInv(actor', spendable', changed')
  BY BalanceUpdatedCover DEF CoverInv
<1>4. changed' \in [Owner -> SUBSET Asset]
  BY DEF BalanceUpdated, CoverInv
<1> QED BY <1>1, <1>2, <1>3, <1>4, StoredCover

LEMMA HandlingCover ==
  ASSUME TradingInv, TradingInvNext, RestInv, CoverInv, NEW w \in Owner, HandleEvent(w)
  PROVE  CoverInvNext
<1>1. UNCHANGED <<spendable, changed, toSettle, restarted>>
  BY DEF HandleEvent, balanceVars, budgets
<1>2. ~ restarted => ShrinkInv(queue', processed', mail', actor')
  BY HandleEventShrinks DEF CoverInv
<1>3. ~ restarted => BalanceInv(actor', spendable, changed)
  BY HandleEventCover DEF CoverInv
<1> QED BY <1>1, <1>2, <1>3 DEF CoverInv, CoverInvNext

LEMMA ApplyNextCover ==
  ASSUME TradingInv, RestInv, CoverInv, ApplyNext
  PROVE  CoverInvNext
<1> DEFINE n == processed + 1
           new == TradesOf(n, Apply(book, queue[n]).events)
<1>1. /\ processed < Len(queue) /\ toSettle' = toSettle \o new
      /\ UNCHANGED <<actor, spendable, changed, restarted>>
  BY DEF ApplyNext, budgets
<1>2. /\ queue \in Seq(Entries) /\ OncePlaced(queue) /\ processed \in 0 .. Len(queue)
      /\ Faithful(queue, processed, book, trades)
  BY InvParts
<1>3. n \in 1 .. Len(queue) /\ n - 1 = processed
  BY <1>1, <1>2
<1> HIDE DEF n
<1>4. new \in Seq(TradeSet)  BY <1>2, <1>3, ApplyFaithful
<1> HIDE DEF new
<1>5. toSettle' \in Seq(TradeSet)
  <2>1. toSettle \in Seq(TradeSet)  BY DEF CoverInv
  <2> QED BY ONLY <1>1, <1>4, <2>1, ConcatProperties
<1>6. ~ restarted => ShrinkInv(queue', processed', mail', actor')
  BY ApplyNextShrinks DEF CoverInv
<1> QED BY <1>1, <1>5, <1>6 DEF CoverInv, CoverInvNext

\* Steps that concern neither the queue nor the actors
LEMMA BesideCover ==
  ASSUME CoverInv, UNCHANGED <<queue, processed, mail, actor, restarted>>,
         spendable' \in [Owner -> [Asset -> Int]], changed' \in [Owner -> SUBSET Asset],
         toSettle' \in Seq(TradeSet),
         ~ restarted => BalanceInv(actor', spendable', changed')
  PROVE  CoverInvNext
  BY DEF CoverInv, CoverInvNext

LEMMA SettlingCover ==
  ASSUME TradingInv, CoverInv, Settle
  PROVE  CoverInvNext
<1> DEFINE t == Head(toSettle)
           Loss(w, a) == IF t \in settled THEN 0 ELSE PessimisticLoss(t, w, a)
<1>1. /\ toSettle # <<>> /\ toSettle' = Tail(toSettle)
      /\ spendable' = [w \in Owner |-> [a \in Asset |-> spendable[w][a] - Loss(w, a)]]
      /\ changed' = [w \in Owner |-> changed[w] \cup {a \in Asset : Loss(w, a) > 0}]
      /\ UNCHANGED <<queue, processed, mail, actor, restarted>>
  BY DEF Settle, bookVars, budgets
<1>2. /\ toSettle \in Seq(TradeSet) /\ spendable \in [Owner -> [Asset -> Int]]
      /\ changed \in [Owner -> SUBSET Asset]
  BY DEF CoverInv
<1>3. toSettle' \in Seq(TradeSet) /\ t \in TradeSet
  BY <1>1, <1>2
<1>4. \A w, a : Loss(w, a) \in Int  BY <1>3, LossTyped
<1> HIDE DEF Loss
<1>5. spendable' \in [Owner -> [Asset -> Int]]
  BY <1>1, <1>2, <1>4
<1>6. changed' \in [Owner -> SUBSET Asset]  BY <1>1, <1>2
<1>7. ~ restarted => BalanceInv(actor', spendable', changed')
  BY SettleCover DEF TradingInv, ActorsInv
<1> QED BY <1>1, <1>3, <1>5, <1>6, <1>7, BesideCover

LEMMA SpendCover ==
  ASSUME CoverInv, NEW w \in Owner, NEW a \in Asset, Spend(w, a)
  PROVE  CoverInvNext
<1>1. PICK rest \in Leftover : spendable' = [spendable EXCEPT ![w][a] = rest]
  BY DEF Spend
<1>2. /\ changed' = [changed EXCEPT ![w] = @ \cup {a}]
      /\ UNCHANGED <<queue, processed, mail, actor, toSettle, restarted>>
  BY DEF Spend, bookVars
<1>3. /\ toSettle \in Seq(TradeSet) /\ spendable \in [Owner -> [Asset -> Int]]
      /\ changed \in [Owner -> SUBSET Asset] /\ rest \in Nat
  BY TradingAssumption DEF CoverInv
<1>4. spendable' \in [Owner -> [Asset -> Int]] /\ changed' \in [Owner -> SUBSET Asset]
  BY <1>1, <1>2, <1>3
<1>5. \A v \in Owner, b \in Asset : b \notin changed'[v] =>
        b \notin changed[v] /\ spendable'[v][b] = spendable[v][b]
  BY <1>1, <1>2, <1>3
<1>6. ~ restarted => BalanceInv(actor, spendable', changed')
  BY <1>5 DEF CoverInv, BalanceInv
<1> QED BY <1>2, <1>3, <1>4, <1>6, BesideCover

LEMMA RestartingCover ==
  ASSUME CoverInv, Restart
  PROVE  CoverInvNext
<1>1. restarted' = TRUE /\ toSettle' = <<>> /\ UNCHANGED <<spendable, changed>>
  BY DEF Restart
<1> QED BY <1>1 DEF CoverInv, CoverInvNext

LEMMA OtherCover ==
  ASSUME CoverInv, UNCHANGED <<queue, processed, mail, actor, spendable, changed, toSettle, restarted>>
  PROVE  CoverInvNext
  BY DEF CoverInv, CoverInvNext

LEMMA CoverInit == Init => CoverInv
<1> SUFFICES ASSUME Init PROVE CoverInv  OBVIOUS
<1>1. /\ queue = <<>> /\ processed = 0 /\ mail = [w \in Owner |-> <<>>]
      /\ actor = [w \in Owner |-> StartingActor] /\ spendable = InitialBalance
      /\ changed = [w \in Owner |-> {}] /\ toSettle = <<>>
  BY DEF Init
<1>2. /\ spendable \in [Owner -> [Asset -> Nat]] /\ spendable \in [Owner -> [Asset -> Int]]
      /\ changed \in [Owner -> SUBSET Asset] /\ toSettle \in Seq(TradeSet)
  BY TradingAssumption, <1>1
<1>3. \A o \in Id : Sender(o) \in Owner  BY InvInit, InvParts
<1>4. ShrinkInv(queue, processed, mail, actor)
  BY <1>1, <1>3, ShrinksNothing DEF Waits, ShrinkInv
<1>5. BalanceInv(actor, spendable, changed)
  <2> SUFFICES ASSUME NEW w \in Owner, NEW a \in Asset PROVE Covered(actor[w], a, spendable[w][a])
    BY DEF BalanceInv
  <2>1. Open(actor[w], a) = {}
    BY <1>1 DEF Open, StartingActor
  <2>2. DOMAIN Required(actor[w], Open(actor[w], a), a) = {}
    BY <2>1 DEF Required
  <2>3. Sum(Required(actor[w], Open(actor[w], a), a)) = 0
    BY <2>2, SumNone
  <2>4. spendable[w][a] \in Nat /\ NotNegative(spendable[w][a]) >= 0
    BY <1>2 DEF NotNegative
  <2> QED BY <2>3, <2>4 DEF Covered
<1> QED BY <1>2, <1>4, <1>5 DEF CoverInv

LEMMA CoverStep == TradingInv /\ RestInv /\ CoverInv /\ [Next]_vars => CoverInvNext
<1> SUFFICES ASSUME TradingInv, RestInv, CoverInv, [Next]_vars PROVE CoverInvNext
  OBVIOUS
<1>1. TradingInvNext  BY InvStep
<1>2. ASSUME NEW o \in Id, MaySend(o), PlaceOrder(o) PROVE CoverInvNext
  BY <1>1, <1>2, PlacingCover
<1>3. ASSUME NEW o \in Id, CancelOrder(o) PROVE CoverInvNext
  BY <1>1, <1>3, CancelOrderCover
<1>4. ASSUME NEW o \in Id, CancelExpiredOrder(o) PROVE CoverInvNext
  BY <1>1, <1>4, CancelExpiredOrderCover
<1>5. ASSUME NEW w \in Owner, CancelAllOrders(w) PROVE CoverInvNext
  BY <1>1, <1>5, CancelAllOrdersCover
<1>6. ASSUME NEW w \in Owner, BalanceUpdated(w) PROVE CoverInvNext
  BY <1>1, <1>6, ComparingCover
<1>7. ASSUME NEW w \in Owner, HandleEvent(w) PROVE CoverInvNext
  BY <1>1, <1>7, HandlingCover
<1>8. ASSUME NEW w \in Owner, NEW a \in Asset, Spend(w, a) PROVE CoverInvNext
  BY <1>8, SpendCover
<1>9. CASE ApplyNext  BY <1>9, ApplyNextCover
<1>10. CASE Settle  BY <1>10, SettlingCover
<1>11. CASE Tick
  BY <1>11, OtherCover DEF Tick, bookVars, balanceVars
<1>12. CASE Restart  BY <1>12, RestartingCover
<1>13. CASE UNCHANGED vars
  BY <1>13, OtherCover DEF vars, bookVars, balanceVars, budgets
<1> QED BY <1>2, <1>3, <1>4, <1>5, <1>6, <1>7, <1>8, <1>9, <1>10, <1>11, <1>12, <1>13 DEF Next

\* An order in the book requires something of the asset it spends.
LEMMA SpendsSome ==
  ASSUME NEW lo \in LimitOrders, IsValid(lo)
  PROVE  RequiredBalance(lo)[SpentAsset(lo)] > 0
<1>1. lo.amount > 0 /\ PriceAmount(lo.amount, Price(lo)) > 0 /\ lo.fee \in Nat /\ lo.amount \in Nat
  BY DEF IsValid, IsValidAt, LimitOrders
<1>2. SpendAmount(lo) > 0 /\ SpendAmount(lo) \in Nat
  BY <1>1, SpentRequired DEF SpendAmount
<1>3. RequiredBalance(lo)[SpentAsset(lo)]
        = SpendAmount(lo) + (IF SpentAsset(lo) = FeeAsset THEN lo.fee ELSE 0)
  BY SpentRequired
<1> QED BY <1>1, <1>2, <1>3

----------------------------------------------------------------------------
(* The theorems *)

\* The invariant holds whatever orders are placed, cancelled, matched and expire,
\* wherever storing fails and whenever the matcher restarts, as long as no client
\* sends an order again after a restart: see PlacedOnce.
THEOREM TradingInvariant == Spec /\ NobodyResends => []TradingInv
<1>1. TradingInv /\ NobodyResends /\ [Next]_vars => TradingInv' /\ NobodyResends'
  BY InvStep, InvNext DEF NobodyResends
<1> QED BY InvInit, <1>1, PTL DEF Spec

\* A book that replays the queue from any snapshot is never crossed, is sorted,
\* and holds no order twice and none that can no longer be executed
\* (OrderBook.doMatch).
THEOREM BookSane == Spec /\ NobodyResends => []BookIsSane
<1>1. TradingInv => BookIsSane
  BY GoodBookIsWellFormed DEF TradingInv, Faithful, BookIsSane
<1> QED BY <1>1, TradingInvariant, PTL

\* What an address has reserved is exactly what its active orders require, although
\* every event releases and reserves anew, with events of a restarted book among
\* them (AddressActor.reserve, release).
THEOREM ReservedCorrect == Spec /\ NobodyResends => []ReservedIsActive
<1>1. TradingInv => ReservedIsActive
  BY DEF TradingInv, ActorsInv, Reserved, ReservedIsActive
<1> QED BY <1>1, TradingInvariant, PTL

\* Until the matcher restarts an order is stored at most once, whatever clients send
\* again, although whether it exists is looked up in three places, among which it
\* moves (AddressActor.validator).
THEOREM StoredOnce == Spec => []OncePerStart
<1>1. (restarted \/ TradingInv) /\ [Next]_vars => (restarted \/ TradingInv)'
  <2> SUFFICES ASSUME restarted, [Next]_vars PROVE restarted'
    BY InvStep, InvNext
  <2>1. ASSUME NEW w, NEW x, NEW events, Store(w, x, events) PROVE restarted'
    BY <2>1 DEF Store
  <2>2. CASE \E o \in Id : PlaceOrder(o) \/ CancelOrder(o) \/ CancelExpiredOrder(o)
    BY <2>1, <2>2 DEF PlaceOrder, CancelOrder, CancelExpiredOrder
  <2>3. CASE \E w \in Owner : CancelAllOrders(w) \/ BalanceUpdated(w)
    BY <2>1, <2>3 DEF CancelAllOrders, BalanceUpdated
  <2>4. CASE \E w \in Owner : HandleEvent(w) \/ \E a \in Asset : Spend(w, a)
    BY <2>4 DEF HandleEvent, Spend, budgets
  <2>5. CASE ApplyNext \/ Settle \/ Tick \/ Restart \/ UNCHANGED vars
    BY <2>5 DEF ApplyNext, Settle, Tick, Restart, vars, budgets
  <2> QED BY <2>2, <2>3, <2>4, <2>5 DEF Next
<1>2. restarted \/ TradingInv => OncePerStart
  BY DEF TradingInv, QueueInv, OncePlaced, PlacedOnce, OncePerStart
<1> QED BY <1>1, <1>2, InvInit, PTL DEF Spec

\* More of an order costs more, and all of it what was reserved.
LEMMA CostGrows ==
  ASSUME NEW o \in Id, NEW x \in Nat, x <= Orders[o].amount
  PROVE  /\ CostOf(o, x) <= SpendAmount(LimitOrder(o))
         /\ PartialFee(o, x) <= Orders[o].matcherFee
<1> DEFINE p == Orders[o].price
           f == Orders[o].matcherFee
           a == Orders[o].amount
           c == PriceConstant
<1>1. p \in Nat /\ f \in Nat /\ a \in Nat /\ a > 0 /\ c \in Nat /\ c > 0 /\ x <= a
  BY OrderFacts
<1>2. CostOf(o, x) = IF Orders[o].orderType = "buy" THEN (x * p) \div c ELSE x
  BY DEF CostOf, PriceAmount
<1>3. SpendAmount(LimitOrder(o)) = IF Orders[o].orderType = "buy" THEN (a * p) \div c ELSE a
  BY DEF SpendAmount, LimitOrder, IsBuy, Price, PriceAmount
<1>4. PartialFee(o, x) = (f * x) \div a  BY DEF PartialFee
<1> HIDE DEF p, f, a, c
<1>5. x * p <= a * p /\ x * p \in Nat /\ a * p \in Nat
  BY <1>1, TimesGrows
<1>6. x * f <= a * f /\ x * f \in Nat /\ a * f \in Nat
  BY <1>1, TimesGrows
<1> DEFINE xp == x * p
           ap == a * p
           xf == x * f
           af == a * f
<1>7. f * x = xf  BY <1>1
<1>8. af \div a = f  BY <1>1, <1>6
<1> HIDE DEF xp, ap, xf, af
<1>9. xp \div c <= ap \div c
  BY <1>1, <1>5, DivGrows DEF xp, ap
<1>10. xf \div a <= af \div a
  BY <1>1, <1>6, DivGrows DEF xf, af
<1>11. CostOf(o, x) <= SpendAmount(LimitOrder(o))
  BY <1>1, <1>2, <1>3, <1>9 DEF xp, ap
<1>12. PartialFee(o, x) <= f  BY <1>4, <1>7, <1>8, <1>10
<1> QED BY <1>11, <1>12 DEF f

LEMMA SpendType == ASSUME NEW o \in Id PROVE SpendAmount(LimitOrder(o)) \in Nat
<1>1. Orders[o].amount \in Nat /\ Orders[o].price \in Nat
  BY OrderFacts
<1>2. PriceAmount(Orders[o].amount, Orders[o].price) \in Nat
  BY <1>1, PriceAmountFacts
<1> QED BY <1>1, <1>2 DEF SpendAmount, LimitOrder, IsBuy, Price

LEMMA SumTypes ==
  ASSUME NEW o \in Id, NEW T \in Seq(TradeSet)
  PROVE  SpentIn(o, T) \in Int /\ FeesIn(o, T) \in Int
<1> DEFINE lo == LimitOrder(o)
           t == [at |-> <<0, 0>>, submitted |-> lo, counter |-> lo, executed |-> 0]
<1>1. lo \in LimitOrders  BY LimitOrderFacts
<1> HIDE DEF lo
<1>2. t \in TradeSet  BY <1>1 DEF TradeSet
<1> HIDE DEF t
<1> QED BY <1>2, TotalsAppend

\* However an order is executed, in parts and at better prices than its own, rounding
\* never makes its trades spend more than was reserved or pay more than its fee
\* (MatcherModel.scala).
THEOREM NeverOverspent == Spec /\ NobodyResends => []NeverOverspends
<1>1. TradingInv => NeverOverspends
  <2> SUFFICES ASSUME TradingInv, NEW o \in Id
               PROVE  /\ SpentIn(o, trades) <= SpendAmount(LimitOrder(o))
                      /\ FeesIn(o, trades) <= Orders[o].matcherFee
    BY DEF NeverOverspends, SpentIn, FeesIn
  <2>1. trades \in Seq(TradeSet) /\ Fair(trades)
    BY DEF TradingInv, Faithful
  <2> DEFINE n == Total(o, trades)
             s == SpentIn(o, trades)
             f == FeesIn(o, trades)
  <2>2. n \in Nat /\ n <= Orders[o].amount /\ s <= CostOf(o, n) /\ f <= PartialFee(o, n)
    BY <2>1 DEF Fair
  <2>3. s \in Int /\ f \in Int  BY <2>1, SumTypes
  <2> HIDE DEF n, s, f
  <2>4. CostOf(o, n) <= SpendAmount(LimitOrder(o)) /\ PartialFee(o, n) <= Orders[o].matcherFee
    BY <2>2, CostGrows
  <2>5. CostOf(o, n) \in Nat /\ PartialFee(o, n) \in Nat
    BY <2>2, CostTypes
  <2>6. SpendAmount(LimitOrder(o)) \in Nat /\ Orders[o].matcherFee \in Nat
    BY SpendType, OrderFacts
  <2>7. s <= SpendAmount(LimitOrder(o))
    BY <2>2, <2>3, <2>4, <2>5, <2>6
  <2>8. f <= Orders[o].matcherFee
    BY <2>2, <2>3, <2>4, <2>5, <2>6
  <2> QED BY <2>7, <2>8 DEF s, f
<1> QED BY <1>1, TradingInvariant, PTL

\* What is under way makes up for what the book and the actors differ in.
THEOREM RestInvariant == Spec /\ NobodyResends => []RestInv
<1>1. TradingInv /\ RestInv /\ [Next]_vars => RestInv'
  BY RestStep, RestNext
<1> QED BY RestInit, <1>1, TradingInvariant, PTL DEF Spec

\* In a state at rest nothing waits, and no event is on its way.
LEMMA AtRest ==
  ASSUME TradingInv, RestInv, Quiet, NEW p \in Id
  PROVE  /\ Sender(p) \in Owner /\ IdsIn(book) \subseteq PlacedIn(queue, Len(queue))
         /\ \A e : ~ Waits(queue, processed, e)
         /\ \A j : j \notin processed + 1 .. Len(queue)
         /\ Silent(mail[Sender(p)], p) /\ DOMAIN mail[Sender(p)] = {}
         /\ Placed(p) \in failed \/ ActiveOf(actor[Sender(p)], p) = InBook(book, p)
<1>1. /\ processed = Len(queue) /\ Len(queue) \in Nat /\ Sender(p) \in Owner
      /\ IdsIn(book) \subseteq PlacedIn(queue, processed)
  BY InvParts DEF Faithful, Quiet
<1>2. \A j : j \notin processed + 1 .. Len(queue)  BY <1>1
<1>3. \A e : ~ Waits(queue, processed, e)  BY <1>2 DEF Waits
<1>4. mail[Sender(p)] = <<>>  BY <1>1 DEF Quiet
<1>5. Silent(mail[Sender(p)], p) /\ \A A, B : Tells(mail[Sender(p)], p, A, B) <=> A = B
  BY <1>4, TellsNothing
<1>6. Placed(p) \in failed \/ Tells(mail[Sender(p)], p, ActiveOf(actor[Sender(p)], p), InBook(book, p))
  BY <1>3 DEF RestInv, UnderWay, ViewInv
<1> QED BY <1>1, <1>2, <1>3, <1>4, <1>5, <1>6

\* Whatever was lost, cancelled, filled or replayed on the way: when all is handled,
\* an actor's active orders are its orders in the book, with what is left of each
\* (AddressActor.handleOrderAdded, handleOrderExecuted, handleOrderTerminated).
THEOREM ActorsAgree == Spec /\ NobodyResends => []ActorsFollowBook
<1>1. ASSUME TradingInv, RestInv, Quiet, NEW w \in Owner
      PROVE  {actor[w].active[o] : o \in {p \in DOMAIN actor[w].active : ~ FailedToPlace(p)}}
               = {lo \in AllOrders(book) : Sender(lo.id) = w}
  <2>1. GoodBook(book) /\ actor[w] \in ActorState
    BY <1>1, InvParts DEF Faithful
  <2>2. ASSUME NEW o \in DOMAIN actor[w].active, ~ FailedToPlace(o)
        PROVE  actor[w].active[o] \in {lo \in AllOrders(book) : Sender(lo.id) = w}
    <3>1. Sender(o) = w /\ o \in Id
      <4>1. actor[w].active \in Actives
        BY <2>1 DEF ActorState
      <4> QED BY <1>1, <2>2, <4>1, ActivesFacts DEF RestInv, UnderWay, OwnInv
    <3>2. ActiveOf(actor[w], o) = InBook(book, o)
      BY <1>1, <2>2, <3>1, AtRest DEF FailedToPlace
    <3>3. actor[w].active[o] \in InBook(book, o)
      BY <2>2, <3>2 DEF ActiveOf
    <3> QED BY <3>1, <3>3 DEF InBook
  <2>3. ASSUME NEW lo \in AllOrders(book), Sender(lo.id) = w
        PROVE  \E o \in DOMAIN actor[w].active : ~ FailedToPlace(o) /\ actor[w].active[o] = lo
    <3>1. lo.id \in Id /\ lo.id \in IdsIn(book)
      <4>1. lo \in LimitOrders  BY <2>1, GoodBookOrders
      <4> QED BY <4>1 DEF LimitOrders, IdsIn
    <3>2. ~ FailedToPlace(lo.id)
      <4>1. lo.id \in PlacedIn(queue, Len(queue))
        BY <1>1, <3>1, AtRest
      <4> QED BY <1>1, <3>1, <4>1 DEF RestInv, UnderWay, FailedInv, FailedToPlace
    <3>3. ActiveOf(actor[w], lo.id) = InBook(book, lo.id)
      BY <1>1, <2>3, <3>1, <3>2, AtRest DEF FailedToPlace
    <3>4. lo \in ActiveOf(actor[w], lo.id)  BY <3>3 DEF InBook
    <3> QED BY <3>2, <3>4 DEF ActiveOf
  <2> QED BY <2>2, <2>3
<1>2. TradingInv /\ RestInv => ActorsFollowBook
  BY <1>1 DEF ActorsFollowBook
<1> QED BY <1>2, TradingInvariant, RestInvariant, PTL

\* When all is handled, no promise is left with an actor, although an order may end in
\* the book before its own event comes (AddressActor.store and handlers). A promise
\* that another has replaced is none that is left: see UnansweredIsCanceled.
THEOREM PromisesKept == Spec /\ NobodyResends => []NoPromiseForgotten
<1>1. ASSUME TradingInv, RestInv, Quiet, NEW o \in Id, {Placed(o), Canceled(o)} \cap failed = {}
      PROVE  o \notin actor[Sender(o)].pendingPlacement \cup actor[Sender(o)].pendingCancellation
  BY <1>1, AtRest DEF RestInv, UnderWay, PlaceInv, CancelInv
<1>2. TradingInv /\ RestInv => NoPromiseForgotten
  BY <1>1 DEF NoPromiseForgotten
<1> QED BY <1>2, TradingInvariant, RestInvariant, PTL

\* The final statuses, and the events that set them, are right whatever is replayed.
THEOREM FilledInvariant == Spec /\ NobodyResends => []FilledInv
<1>1. TradingInv /\ RestInv /\ FilledInv /\ [Next]_vars => FilledInv'
  BY FilledStep, FilledNext
<1> QED BY FilledInit, <1>1, TradingInvariant, RestInvariant, PTL DEF Spec

\* What the database says was executed of an order is what its trades have executed,
\* although it is saved once, by the first event to end it that its actor handles,
\* possibly one of a book that has been replayed since (OrderDB.saveOrderInfo).
THEOREM FilledCorrect == Spec /\ NobodyResends => []FilledIsExecuted
<1>1. ASSUME TradingInv, FilledInv, Quiet, NEW o \in Id, orderInfo[o] # NotFound
      PROVE  /\ \A lo \in AllOrders(book) : lo.id # o
             /\ orderInfo[o].filled = Sum([i \in DOMAIN trades |-> Executed(o, trades[i])])
  BY <1>1, InvParts, EndedForGood DEF Quiet, FilledInv, InfoInv, ReplayInv, IdsIn, Total
<1>2. TradingInv /\ FilledInv => FilledIsExecuted
  BY <1>1 DEF FilledIsExecuted
<1> QED BY <1>2, TradingInvariant, FilledInvariant, PTL

\* Until a restart, what is left of an order never grows in the messages to come, and
\* what the open orders require is covered unless a change is still to be announced.
THEOREM CoverInvariant == Spec /\ NobodyResends => []CoverInv
<1>1. TradingInv /\ RestInv /\ CoverInv /\ [Next]_vars => CoverInv'
  BY CoverStep, CoverNext
<1> QED BY CoverInit, <1>1, TradingInvariant, RestInvariant, PTL DEF Spec

\* When all has come to rest, what an owner's orders require of the asset they spend is
\* covered by what the owner can spend, although trades and others take from the
\* balance while orders are placed and cancelled (AddressActor, BalanceUpdated).
THEOREM CoveredCorrect == Spec /\ NobodyResends => []CoveredAtRest
<1>1. ASSUME TradingInv, RestInv, CoverInv, Quiet, ~ restarted, failed = {},
             NEW w \in Owner, NEW a \in Asset, a \notin changed[w],
             NEW S, S = {o \in DOMAIN actor[w].active : SpentAsset(actor[w].active[o]) = a}, S # {}
      PROVE  Sum([o \in S |-> RequiredBalance(actor[w].active[o])[a]]) <= spendable[w][a]
  <2> DEFINE x == actor[w]
             n == spendable[w][a]
             f == Required(x, S, a)
  <2>1. x \in ActorState /\ n \in Int /\ GoodBook(book)
    BY <1>1, InvParts DEF CoverInv, Faithful
  <2>2. \A o \in DOMAIN x.active : o \in Id /\ Sender(o) = w /\ x.active[o] \in LimitOrders
    BY <2>1, <1>1, ActivesFacts DEF ActorState, RestInv, UnderWay, OwnInv
  <2>3. \A o \in DOMAIN x.active : o \notin x.pendingCancellation
    BY <2>2, <1>1, AtRest DEF RestInv, UnderWay, CancelInv
  <2>4. S = Open(x, a)  BY <1>1, <2>3 DEF Open
  <2>5. Sum(f) <= NotNegative(n)
    BY <1>1, <2>4 DEF CoverInv, BalanceInv, Covered
  <2>6. PICK o \in S : TRUE  BY <1>1
  <2>7. x.active[o] \in LimitOrders /\ IsValid(x.active[o]) /\ SpentAsset(x.active[o]) = a
    BY <1>1, <2>6, <2>2, AtRest, ActiveOfOne, <2>1, GoodBookOrders DEF InBook
  <2>8. /\ IsFiniteSet(S) /\ DOMAIN f = S
        /\ \A p \in S : f[p] = RequiredBalance(x.active[p])[a] /\ f[p] \in Nat
    BY <1>1, <2>1, RequiredTyped
  <2>9. f[o] \in Nat /\ f[o] > 0
    BY <2>6, <2>7, <2>8, SpendsSome
  <2>10. Sum(f) > 0 /\ Sum(f) \in Int
    <3> DEFINE g == [p \in S \ {o} |-> f[p]]
    <3>1. DOMAIN g = DOMAIN f \ {o} /\ (\A p \in DOMAIN g : g[p] = f[p])
      BY <2>8
    <3> HIDE DEF g, f
    <3>2. Sum(f) = f[o] + Sum(g) /\ Sum(g) \in Int /\ Sum(f) \in Int
      <4>1. IsFiniteSet(DOMAIN f) /\ o \in DOMAIN f /\ \A p \in DOMAIN f : f[p] \in Int
        BY <2>6, <2>8
      <4> QED BY <3>1, <4>1, SumSplits
    <3>3. Sum(g) \in Nat  BY <2>8, <3>1, SumFewer DEF Below
    <3> QED BY <2>9, <3>2, <3>3
  <2> HIDE DEF n
  <2>11. Sum(f) <= n  BY <2>1, <2>5, <2>10 DEF NotNegative
  <2> QED BY <2>11 DEF Required, n
<1>2. TradingInv /\ RestInv /\ CoverInv => CoveredAtRest
  BY <1>1 DEF CoveredAtRest
<1> QED BY <1>2, TradingInvariant, RestInvariant, CoverInvariant, PTL
=============================================================================
