------------------------------- MODULE ListsProofs -------------------------------
(***************************************************************************)
(* Proofs about Lists: what Filter and Total give for the empty list, for    *)
(* one element more at either end, and which elements they keep.            *)
(*                                                                         *)
(* They are by induction, over the sets of numbers and of sequences that a   *)
(* formula holds for: the library's theorem on the least element of a set    *)
(* (WFMin) takes no operator.                                              *)
(***************************************************************************)
EXTENDS Lists, Integers, SequenceTheorems, WellFoundedInduction, TLAPS

\* A set of numbers has a least one.
LEMMA Least ==
    ASSUME NEW S \in SUBSET Nat, S # {}
    PROVE  \E n \in S : \A m \in S : n <= m
<1> DEFINE R == OpToRel(<, Nat)
<1>1. IsWellFoundedOn(R, Nat)
  BY NatLessThanWellFounded
<1>2. \A m, n \in Nat : <<m, n>> \in R <=> m < n
  BY DEF OpToRel
<1> HIDE DEF R
<1>3. PICK n \in S : \A m \in S : ~ (<<m, n>> \in R)
  BY <1>1, WFMin
<1>4. ASSUME NEW m \in S PROVE n <= m
  <2>1. m \in Nat /\ n \in Nat
    OBVIOUS
  <2>2. ~ (m < n)
    BY <1>2, <1>3, <2>1
  <2>3. QED
    BY <2>1, <2>2
<1>5. QED
  BY <1>4

\* A set that holds 0 and every successor of what it holds is Nat.
LEMMA Induction ==
    ASSUME NEW S \in SUBSET Nat, 0 \in S, \A n \in S : n + 1 \in S
    PROVE  S = Nat
<1>1. SUFFICES ASSUME Nat \ S # {} PROVE FALSE
  OBVIOUS
<1>2. PICK n \in Nat \ S : \A m \in Nat \ S : n <= m
  BY <1>1, Least
<1>3. n # 0 /\ n - 1 \in Nat /\ n - 1 \in S
  BY <1>2
<1>4. QED
  BY <1>2, <1>3

\* Sequences are built by Append.
LEMMA ListInduction ==
    ASSUME NEW T, NEW P \in SUBSET Seq(T), <<>> \in P,
           \A s \in P, e \in T : Append(s, e) \in P
    PROVE  P = Seq(T)
<1> DEFINE S == {n \in Nat : \A s \in Seq(T) : Len(s) = n => s \in P}
<1>1. 0 \in S
  BY DEF S
<1>2. ASSUME NEW n \in S PROVE n + 1 \in S
  <2> SUFFICES ASSUME NEW s \in Seq(T), Len(s) = n + 1 PROVE s \in P
    OBVIOUS
  <2>1. n \in Nat /\ s # <<>>
    OBVIOUS
  <2>2. PICK t \in Seq(T), e \in T : s = Append(t, e)
    BY <2>1, SequenceEmptyOrAppend
  <2>3. Len(t) = n
    BY <2>1, <2>2
  <2>4. QED
    BY <2>2, <2>3
<1> HIDE DEF S
<1>3. S = Nat
  BY <1>1, <1>2, Induction DEF S
<1>4. ASSUME NEW s \in Seq(T) PROVE s \in P
  <2>1. Len(s) \in S
    BY <1>3
  <2>2. QED
    BY <2>1 DEF S
<1>5. QED
  BY <1>4

------------------------------------------------------------------------------
(* Loops                                                                   *)

\* A loop over 1..n, from b on.
Steps(T, n) == [1..n -> [T -> T]]

Runs(f, T, n, b, step) ==
    /\ f \in [0..n -> T]
    /\ f[0] = b
    /\ \A i \in 1..n : f[i] = step[i][f[i - 1]]

\* It ends with a value.
LEMMA Loop ==
    ASSUME NEW T, NEW n \in Nat, NEW b \in T, NEW step \in Steps(T, n)
    PROVE  \E f : Runs(f, T, n, b, step)
<1> DEFINE Until(f, m) == f[0] = b /\ \A i \in 1..m : f[i] = step[i][f[i - 1]]
           S == {m \in Nat : m <= n => \E f \in [0..m -> T] : Until(f, m)}
<1>1. step \in [1..n -> [T -> T]]
  BY DEF Steps
<1>2. 0 \in S
  <2>1. [i \in 0..0 |-> b] \in [0..0 -> T] /\ Until([i \in 0..0 |-> b], 0)
    OBVIOUS
  <2>2. QED
    BY <2>1
<1>3. ASSUME NEW m \in S PROVE m + 1 \in S
  <2> SUFFICES ASSUME m + 1 <= n PROVE \E f \in [0..(m + 1) -> T] : Until(f, m + 1)
    OBVIOUS
  <2>1. m \in Nat /\ m + 1 \in 1..n
    OBVIOUS
  <2>2. PICK f \in [0..m -> T] : Until(f, m)
    BY <2>1
  <2> DEFINE g == [i \in 0..(m + 1) |-> IF i <= m THEN f[i] ELSE step[m + 1][f[m]]]
  <2>3. f[m] \in T /\ step[m + 1][f[m]] \in T
    BY <1>1, <2>1
  <2>4. g \in [0..(m + 1) -> T]
    BY <2>1, <2>3
  <2>5. g[0] = b
    BY <2>1, <2>2
  <2>6. ASSUME NEW i \in 1..(m + 1) PROVE g[i] = step[i][g[i - 1]]
    <3>1. i - 1 \in 0..m /\ g[i - 1] = f[i - 1]
      BY <2>1
    <3>2. CASE i <= m
      BY <2>1, <2>2, <3>1, <3>2
    <3>3. CASE i = m + 1
      <4>1. g[m + 1] = step[m + 1][f[m]] /\ g[m] = f[m]
        BY <2>1
      <4>2. i - 1 = m
        BY <2>1, <3>3
      <4> HIDE DEF g
      <4>3. QED
        BY <3>3, <4>1, <4>2
    <3>4. QED
      BY <2>1, <3>2, <3>3
  <2> HIDE DEF g
  <2>7. QED
    BY <2>4, <2>5, <2>6
<1>4. S = Nat
  <2> HIDE DEF S
  <2>1. S \in SUBSET Nat
    BY DEF S
  <2>2. QED
    BY <1>2, <1>3, <2>1, Induction
<1>5. n \in S
  BY <1>4
<1>6. QED
  BY <1>5 DEF Runs

------------------------------------------------------------------------------
(* Filter                                                                  *)

\* What Filter keeps of the first elements of s.
Keeps(f, T, s, S) ==
    /\ f \in [0..Len(s) -> Seq(T)]
    /\ f[0] = <<>>
    /\ \A i \in 1..Len(s) : f[i] = IF s[i] \in S THEN Append(f[i - 1], s[i]) ELSE f[i - 1]
    /\ Filter(s, S) = f[Len(s)]

\* The loop comes to an end, whatever the list.
LEMMA FilterLoop ==
    ASSUME NEW T, NEW s \in Seq(T), NEW S
    PROVE  \E f : Keeps(f, T, s, S)
<1> DEFINE n == Len(s)
           U == Seq(T)
           b == <<>>
           Next(i, t) == IF s[i] \in S THEN Append(t, s[i]) ELSE t
           step == [i \in 1..n |-> [t \in U |-> Next(i, t)]]
           Body(f) == [i \in 0..n |-> IF i = 0 THEN b ELSE Next(i, f[i - 1])]
           kept == CHOOSE f : f = Body(f)
<1>1. n \in Nat /\ b \in U
  OBVIOUS
<1>2. \A i \in 1..n, t \in U : Next(i, t) \in U
  OBVIOUS
<1>3. Filter(s, S) = kept[n]
  BY DEF Filter
<1> HIDE DEF n, U, b, Next
<1>4. step \in Steps(U, n)
  BY <1>2 DEF Steps
<1>5. \A i \in 1..n, t \in U : step[i][t] = Next(i, t)
  BY <1>2
<1> HIDE DEF step, Body, kept
<1>6. PICK f : Runs(f, U, n, b, step)
  BY <1>1, <1>4, Loop
<1>7. f \in [0..n -> U] /\ f[0] = b /\ \A i \in 1..n : f[i] = step[i][f[i - 1]]
  BY <1>6 DEF Runs
<1>8. ASSUME NEW i \in 1..n PROVE f[i] = Next(i, f[i - 1])
  <2>1. i - 1 \in 0..n
    BY <1>1
  <2>2. f[i - 1] \in U
    BY <1>7, <2>1
  <2>3. QED
    BY <1>5, <1>7, <2>2
<1>9. f = Body(f)
  BY <1>1, <1>7, <1>8 DEF Body
<1>10. kept = Body(kept)
  BY <1>9 DEF kept
<1>11. /\ DOMAIN kept = 0..n
      /\ kept = [i \in 0..n |-> kept[i]]
      /\ kept[0] = b
      /\ \A i \in 1..n : kept[i] = Next(i, kept[i - 1])
  BY <1>1, <1>10 DEF Body
<1>12. \A i \in 0..n : kept[i] \in U
  <2> DEFINE P == {i \in Nat : i <= n => kept[i] \in U}
  <2>1. 0 \in P
    BY <1>1, <1>11
  <2>2. ASSUME NEW i \in P PROVE i + 1 \in P
    <3> SUFFICES ASSUME i + 1 <= n PROVE kept[i + 1] \in U
      OBVIOUS
    <3>1. i + 1 \in 1..n /\ (i + 1) - 1 = i /\ kept[i] \in U
      BY <1>1
    <3>2. QED
      BY <1>2, <1>11, <3>1
  <2> HIDE DEF P
  <2>3. P = Nat
    <3>1. P \in SUBSET Nat
      BY DEF P
    <3>2. QED
      BY <2>1, <2>2, <3>1, Induction
  <2>4. QED
    BY <1>1, <2>3 DEF P
<1>13. kept \in [0..n -> U]
  BY <1>11, <1>12
<1>14. Keeps(kept, T, s, S)
  BY <1>3, <1>11, <1>13 DEF n, U, b, Next, Keeps
<1>15. QED
  BY <1>14

LEMMA FilterEmpty == ASSUME NEW S PROVE Filter(<<>>, S) = <<>>
<1>1. <<>> \in Seq({}) /\ Len(<<>>) = 0
  OBVIOUS
<1>2. PICK f : Keeps(f, {}, <<>>, S)
  BY <1>1, FilterLoop
<1>3. QED
  BY <1>1, <1>2 DEF Keeps

\* One element more.
LEMMA FilterAppend ==
    ASSUME NEW T, NEW s \in Seq(T), NEW e \in T, NEW S
    PROVE  Filter(Append(s, e), S) = IF e \in S THEN Append(Filter(s, S), e) ELSE Filter(s, S)
<1> DEFINE t == Append(s, e)
           n == Len(s)
<1>1. /\ t \in Seq(T) /\ Len(t) = n + 1 /\ n \in Nat
      /\ t[n + 1] = e
      /\ \A i \in 1..n : t[i] = s[i]
  OBVIOUS
<1>2. PICK f : Keeps(f, T, s, S)
  BY FilterLoop
<1>3. /\ f[0] = <<>>
      /\ \A i \in 1..n : f[i] = IF s[i] \in S THEN Append(f[i - 1], s[i]) ELSE f[i - 1]
      /\ Filter(s, S) = f[n]
  BY <1>2 DEF Keeps
<1> HIDE DEF t, n
<1>4. PICK g : Keeps(g, T, t, S)
  BY <1>1, FilterLoop
<1>5. /\ g[0] = <<>>
      /\ \A i \in 1..(n + 1) : g[i] = IF t[i] \in S THEN Append(g[i - 1], t[i]) ELSE g[i - 1]
      /\ Filter(t, S) = g[n + 1]
  BY <1>1, <1>4 DEF Keeps
<1> DEFINE P == {i \in Nat : i <= n => g[i] = f[i]}
<1>6. 0 \in P
  BY <1>3, <1>5
<1>7. ASSUME NEW i \in P PROVE i + 1 \in P
  <2> SUFFICES ASSUME i + 1 <= n PROVE g[i + 1] = f[i + 1]
    OBVIOUS
  <2>1. i + 1 \in 1..n /\ i + 1 \in 1..(n + 1) /\ (i + 1) - 1 = i
    BY <1>1
  <2>2. t[i + 1] = s[i + 1]
    BY <1>1, <2>1
  <2>3. i <= n /\ g[i] = f[i]
    BY <1>1, <2>1
  <2>4. QED
    BY <1>3, <1>5, <2>1, <2>2, <2>3
<1>8. P = Nat
  <2> HIDE DEF P
  <2>1. P \in SUBSET Nat
    BY DEF P
  <2>2. QED
    BY <1>6, <1>7, <2>1, Induction
<1>9. g[n] = f[n]
  BY <1>1, <1>8
<1>10. n + 1 \in 1..(n + 1) /\ (n + 1) - 1 = n
  BY <1>1
<1>11. QED
  BY <1>1, <1>3, <1>5, <1>9, <1>10 DEF t

LEMMA FilterType ==
    ASSUME NEW T, NEW S, NEW s \in Seq(T)
    PROVE  Filter(s, S) \in Seq(T \cap S)
<1> DEFINE P == {t \in Seq(T) : Filter(t, S) \in Seq(T \cap S)}
<1>1. <<>> \in P
  <2>1. Filter(<<>>, S) = <<>>
    BY FilterEmpty
  <2>2. <<>> \in Seq(T) /\ <<>> \in Seq(T \cap S)
    OBVIOUS
  <2>3. Filter(<<>>, S) \in Seq(T \cap S)
    BY <2>1, <2>2, Zenon
  <2>4. QED
    BY <2>2, <2>3
<1>2. ASSUME NEW t \in P, NEW e \in T PROVE Append(t, e) \in P
  <2>1. t \in Seq(T) /\ Append(t, e) \in Seq(T) /\ Filter(t, S) \in Seq(T \cap S)
    OBVIOUS
  <2>2. Filter(Append(t, e), S) = IF e \in S THEN Append(Filter(t, S), e) ELSE Filter(t, S)
    BY <2>1, FilterAppend
  <2>3. CASE e \in S
    <3>1. e \in T \cap S
      BY <2>3
    <3>2. Append(Filter(t, S), e) \in Seq(T \cap S)
      BY <2>1, <3>1
    <3>3. QED
      BY <2>1, <2>2, <2>3, <3>2
  <2>4. CASE e \notin S
    BY <2>1, <2>2, <2>4
  <2>5. QED
    BY <2>3, <2>4
<1> HIDE DEF P
<1>3. P = Seq(T)
  <2>1. P \in SUBSET Seq(T)
    BY DEF P
  <2>2. QED
    BY <1>1, <1>2, <2>1, ListInduction
<1>4. QED
  BY <1>3 DEF P

Elements(s) == {s[i] : i \in DOMAIN s}

\* What is kept is what s holds of S.
LEMMA FilterElements ==
    ASSUME NEW T, NEW S, NEW s \in Seq(T)
    PROVE  Elements(Filter(s, S)) = Elements(s) \cap S
<1> DEFINE P == {t \in Seq(T) : Elements(Filter(t, S)) = Elements(t) \cap S}
<1>1. ASSUME NEW U, NEW t \in Seq(U), NEW e \in U
      PROVE  Elements(Append(t, e)) = Elements(t) \cup {e}
  <2>1. /\ DOMAIN Append(t, e) = 1..(Len(t) + 1) /\ Len(t) \in Nat /\ DOMAIN t = 1..Len(t)
        /\ Append(t, e)[Len(t) + 1] = e /\ Len(t) + 1 \in DOMAIN Append(t, e)
        /\ \A i \in DOMAIN t : i \in DOMAIN Append(t, e) /\ Append(t, e)[i] = t[i]
        /\ \A i \in DOMAIN Append(t, e) : i \in DOMAIN t \/ i = Len(t) + 1
    OBVIOUS
  <2>2. QED
    BY <2>1 DEF Elements
<1>2. <<>> \in P
  <2>1. Filter(<<>>, S) = <<>> /\ <<>> \in Seq(T) /\ Elements(<<>>) = {}
    BY FilterEmpty DEF Elements
  <2>2. QED
    BY <2>1
<1>3. ASSUME NEW t \in P, NEW e \in T PROVE Append(t, e) \in P
  <2>1. /\ t \in Seq(T) /\ Append(t, e) \in Seq(T) /\ Filter(t, S) \in Seq(T \cap S)
        /\ Elements(Filter(t, S)) = Elements(t) \cap S
    BY FilterType
  <2>2. Filter(Append(t, e), S) = IF e \in S THEN Append(Filter(t, S), e) ELSE Filter(t, S)
    BY <2>1, FilterAppend
  <2>3. Elements(Append(t, e)) = Elements(t) \cup {e}
    BY <1>1, <2>1
  <2>4. e \in S => Elements(Append(Filter(t, S), e)) = Elements(Filter(t, S)) \cup {e}
    BY <1>1, <2>1
  <2>5. Elements(Filter(Append(t, e), S)) = Elements(Append(t, e)) \cap S
    BY <2>1, <2>2, <2>3, <2>4
  <2>6. QED
    BY <2>1, <2>5
<1> HIDE DEF P
<1>4. P = Seq(T)
  <2>1. P \in SUBSET Seq(T)
    BY DEF P
  <2>2. QED
    BY <1>2, <1>3, <2>1, ListInduction
<1>5. QED
  BY <1>4 DEF P

\* What is in s once is kept once.
LEMMA FilterDistinct ==
    ASSUME NEW T, NEW S, NEW s \in Seq(T), \A i, j \in DOMAIN s : s[i] = s[j] => i = j
    PROVE  \A i, j \in DOMAIN Filter(s, S) : Filter(s, S)[i] = Filter(s, S)[j] => i = j
<1> DEFINE Distinct(t) == \A i, j \in DOMAIN t : t[i] = t[j] => i = j
           P == {t \in Seq(T) : Distinct(t) => Distinct(Filter(t, S))}
<1>1. ASSUME NEW U, NEW t \in Seq(U), NEW e \in U
      PROVE  Distinct(Append(t, e)) <=> Distinct(t) /\ e \notin Elements(t)
  <2>1. /\ Len(t) \in Nat /\ DOMAIN t = 1..Len(t)
        /\ Append(t, e)[Len(t) + 1] = e /\ Len(t) + 1 \in DOMAIN Append(t, e)
        /\ Len(t) + 1 \notin DOMAIN t
        /\ \A i \in DOMAIN t : i \in DOMAIN Append(t, e) /\ Append(t, e)[i] = t[i]
        /\ \A i \in DOMAIN Append(t, e) : i \in DOMAIN t \/ i = Len(t) + 1
    OBVIOUS
  <2>2. ASSUME Distinct(Append(t, e)) PROVE Distinct(t) /\ e \notin Elements(t)
    BY <2>1, <2>2 DEF Elements
  <2>3. ASSUME Distinct(t), e \notin Elements(t) PROVE Distinct(Append(t, e))
    <3> SUFFICES ASSUME NEW i \in DOMAIN Append(t, e), NEW j \in DOMAIN Append(t, e),
                        Append(t, e)[i] = Append(t, e)[j]
                 PROVE  i = j
      OBVIOUS
    <3>1. CASE i \in DOMAIN t /\ j \in DOMAIN t
      BY <2>1, <2>3, <3>1
    <3>2. CASE i \in DOMAIN t /\ j = Len(t) + 1
      BY <2>1, <2>3, <3>2 DEF Elements
    <3>3. CASE i = Len(t) + 1 /\ j \in DOMAIN t
      BY <2>1, <2>3, <3>3 DEF Elements
    <3>4. QED
      BY <2>1, <3>1, <3>2, <3>3
  <2>4. QED
    BY <2>2, <2>3
<1>2. <<>> \in P
  <2>1. Filter(<<>>, S) = <<>> /\ <<>> \in Seq(T)
    BY FilterEmpty
  <2> HIDE DEF Distinct
  <2>2. QED
    BY <2>1
<1>3. ASSUME NEW t \in P, NEW e \in T PROVE Append(t, e) \in P
  <2>1. /\ t \in Seq(T) /\ Append(t, e) \in Seq(T) /\ Filter(t, S) \in Seq(T \cap S)
        /\ Distinct(t) => Distinct(Filter(t, S))
    <3> HIDE DEF Distinct
    <3>1. QED
      BY FilterType
  <2>2. Filter(Append(t, e), S) = IF e \in S THEN Append(Filter(t, S), e) ELSE Filter(t, S)
    BY <2>1, FilterAppend
  <2>3. Elements(Filter(t, S)) = Elements(t) \cap S
    BY <2>1, FilterElements
  <2> HIDE DEF Distinct
  <2>4. Distinct(Append(t, e)) <=> Distinct(t) /\ e \notin Elements(t)
    BY <1>1, <2>1
  <2>5. e \in S =>
            (Distinct(Append(Filter(t, S), e)) <=>
                Distinct(Filter(t, S)) /\ e \notin Elements(Filter(t, S)))
    BY <1>1, <2>1
  <2>6. Distinct(Append(t, e)) => Distinct(Filter(Append(t, e), S))
    BY <2>1, <2>2, <2>3, <2>4, <2>5
  <2>7. QED
    BY <2>1, <2>6
<1> HIDE DEF P
<1>4. P = Seq(T)
  <2>1. P \in SUBSET Seq(T)
    BY DEF P
  <2>2. QED
    BY <1>2, <1>3, <2>1, ListInduction
<1>5. Distinct(s)
  OBVIOUS
<1>6. QED
  BY <1>4, <1>5 DEF P

\* The first element comes first, if it is kept.
LEMMA FilterTail ==
    ASSUME NEW T, NEW S, NEW s \in Seq(T), s # <<>>
    PROVE  Filter(s, S) = (IF Head(s) \in S THEN <<Head(s)>> ELSE <<>>) \o Filter(Tail(s), S)
<1> DEFINE First(t) == IF Head(t) \in S THEN <<Head(t)>> ELSE <<>>
           P == {t \in Seq(T) : t # <<>> => Filter(t, S) = First(t) \o Filter(Tail(t), S)}
<1>1. <<>> \in P
  OBVIOUS
<1>2. ASSUME NEW t \in P, NEW e \in T PROVE Append(t, e) \in P
  <2>1. t \in Seq(T) /\ Append(t, e) \in Seq(T) /\ Filter(t, S) \in Seq(T \cap S)
    BY FilterType
  <2>2. Filter(Append(t, e), S) = IF e \in S THEN Append(Filter(t, S), e) ELSE Filter(t, S)
    BY <2>1, FilterAppend
  <2>3. CASE t = <<>>
    <3>1. Head(Append(t, e)) = e /\ Tail(Append(t, e)) = <<>>
      BY <2>1, <2>3
    <3>2. Filter(t, S) = <<>> /\ Filter(<<>>, S) = <<>>
      BY <2>3, FilterEmpty
    <3>3. Append(<<>>, e) = <<e>> \o <<>> /\ <<>> = <<>> \o <<>>
      OBVIOUS
    <3>4. Filter(Append(t, e), S) = First(Append(t, e)) \o Filter(Tail(Append(t, e)), S)
      BY <2>2, <3>1, <3>2, <3>3
    <3>5. QED
      BY <2>1, <3>4
  <2>4. CASE t # <<>>
    <3>1. /\ Head(Append(t, e)) = Head(t) /\ Tail(Append(t, e)) = Append(Tail(t), e)
          /\ Tail(t) \in Seq(T) /\ Head(t) \in T
      BY <2>1, <2>4
    <3>2. First(Append(t, e)) = First(t) /\ First(t) \in Seq(T \cap S)
      <4>1. First(Append(t, e)) = First(t)
        BY <3>1
      <4>2. CASE Head(t) \in S
        <5>1. Head(t) \in T \cap S
          BY <3>1, <4>2
        <5>2. <<Head(t)>> \in Seq(T \cap S)
          BY <5>1
        <5>3. QED
          BY <4>1, <4>2, <5>2
      <4>3. CASE Head(t) \notin S
        BY <4>1, <4>3
      <4>4. QED
        BY <4>2, <4>3
    <3>3. Filter(t, S) = First(t) \o Filter(Tail(t), S)
      BY <2>4
    <3> HIDE DEF First
    <3>4. Filter(Tail(t), S) \in Seq(T \cap S)
      BY <3>1, FilterType
    <3>5. Filter(Append(Tail(t), e), S) =
              IF e \in S THEN Append(Filter(Tail(t), S), e) ELSE Filter(Tail(t), S)
      BY <3>1, FilterAppend
    <3>6. CASE e \in S
      <4>1. Append(First(t) \o Filter(Tail(t), S), e) = First(t) \o Append(Filter(Tail(t), S), e)
        <5> DEFINE U == T \cap S
                   r == Filter(Tail(t), S)
                   f == First(t)
        <5>1. e \in U /\ f \in Seq(U) /\ r \in Seq(U)
          BY <3>2, <3>4, <3>6
        <5> HIDE DEF U, r, f, P, First
        <5>2. Append(f \o r, e) = f \o Append(r, e)
          BY <5>1
        <5>3. QED
          BY <5>2 DEF r, f
      <4>2. Filter(Append(t, e), S) = First(Append(t, e)) \o Filter(Tail(Append(t, e)), S)
        BY <2>2, <3>1, <3>2, <3>3, <3>5, <3>6, <4>1
      <4>3. QED
        BY <2>1, <4>2
    <3>7. CASE e \notin S
      <4>1. Filter(Append(t, e), S) = First(Append(t, e)) \o Filter(Tail(Append(t, e)), S)
        BY <2>2, <3>1, <3>2, <3>3, <3>5, <3>7
      <4>2. QED
        BY <2>1, <4>1
    <3>8. QED
      BY <3>6, <3>7
  <2>5. QED
    BY <2>3, <2>4
<1> HIDE DEF P
<1>3. P = Seq(T)
  <2>1. P \in SUBSET Seq(T)
    BY DEF P
  <2>2. QED
    BY <1>1, <1>2, <2>1, ListInduction
<1>4. QED
  BY <1>3 DEF P

------------------------------------------------------------------------------
(* Total                                                                   *)

\* The sums of the first elements of s.
Sums(f, s) ==
    /\ f \in [0..Len(s) -> Nat]
    /\ f[0] = 0
    /\ \A i \in 1..Len(s) : f[i] = f[i - 1] + s[i]
    /\ Total(s) = f[Len(s)]

\* The sum of a list is reached.
LEMMA TotalLoop == ASSUME NEW s \in Seq(Nat) PROVE \E f : Sums(f, s)
<1> DEFINE n == Len(s)
           Next(i, t) == t + s[i]
           step == [i \in 1..n |-> [t \in Nat |-> Next(i, t)]]
           Body(f) == [i \in 0..n |-> IF i = 0 THEN 0 ELSE f[i - 1] + s[i]]
           sum == CHOOSE f : f = Body(f)
<1>1. n \in Nat
  OBVIOUS
<1>2. \A i \in 1..n, t \in Nat : Next(i, t) \in Nat
  OBVIOUS
<1>3. Total(s) = sum[n]
  BY DEF Total
<1> HIDE DEF n, Next
<1>4. step \in Steps(Nat, n)
  BY <1>2 DEF Steps
<1>5. \A i \in 1..n, t \in Nat : step[i][t] = Next(i, t)
  BY <1>2
<1> HIDE DEF step, Body, sum
<1>6. PICK f : Runs(f, Nat, n, 0, step)
  BY <1>1, <1>4, Loop
<1>7. f \in [0..n -> Nat] /\ f[0] = 0 /\ \A i \in 1..n : f[i] = step[i][f[i - 1]]
  BY <1>6 DEF Runs
<1>8. ASSUME NEW i \in 1..n PROVE f[i] = f[i - 1] + s[i]
  <2>1. i - 1 \in 0..n
    BY <1>1
  <2>2. f[i - 1] \in Nat
    BY <1>7, <2>1
  <2>3. QED
    BY <1>5, <1>7, <2>2 DEF Next
<1>9. f = Body(f)
  BY <1>1, <1>7, <1>8 DEF Body
<1>10. sum = Body(sum)
  BY <1>9 DEF sum
<1>11. /\ DOMAIN sum = 0..n
       /\ sum = [i \in 0..n |-> sum[i]]
       /\ sum[0] = 0
       /\ \A i \in 1..n : sum[i] = sum[i - 1] + s[i]
  BY <1>1, <1>10 DEF Body
<1>12. \A i \in 0..n : sum[i] \in Nat
  <2> DEFINE P == {i \in Nat : i <= n => sum[i] \in Nat}
  <2>1. 0 \in P
    BY <1>11
  <2>2. ASSUME NEW i \in P PROVE i + 1 \in P
    <3> SUFFICES ASSUME i + 1 <= n PROVE sum[i + 1] \in Nat
      OBVIOUS
    <3>1. i + 1 \in 1..n /\ (i + 1) - 1 = i /\ sum[i] \in Nat
      BY <1>1
    <3>2. s[i + 1] \in Nat
      BY <3>1 DEF n
    <3>3. sum[i + 1] = sum[(i + 1) - 1] + s[i + 1]
      BY <1>11, <3>1
    <3>4. sum[i + 1] = sum[i] + s[i + 1]
      BY <3>1, <3>3
    <3>5. QED
      BY <3>1, <3>2, <3>4
  <2> HIDE DEF P
  <2>3. P = Nat
    <3>1. P \in SUBSET Nat
      BY DEF P
    <3>2. QED
      BY <2>1, <2>2, <3>1, Induction
  <2>4. QED
    BY <1>1, <2>3 DEF P
<1>13. sum \in [0..n -> Nat]
  BY <1>11, <1>12
<1>14. Sums(sum, s)
  BY <1>3, <1>11, <1>13 DEF n, Sums
<1>15. QED
  BY <1>14

LEMMA TotalEmpty == Total(<<>>) = 0
<1>1. <<>> \in Seq(Nat) /\ Len(<<>>) = 0
  OBVIOUS
<1>2. PICK f : Sums(f, <<>>)
  BY <1>1, TotalLoop
<1>3. QED
  BY <1>1, <1>2 DEF Sums

LEMMA TotalType == ASSUME NEW s \in Seq(Nat) PROVE Total(s) \in Nat
<1>1. PICK f : Sums(f, s)
  BY TotalLoop
<1>2. Len(s) \in 0..Len(s)
  OBVIOUS
<1>3. QED
  BY <1>1, <1>2 DEF Sums

\* One number more.
LEMMA TotalAppend ==
    ASSUME NEW s \in Seq(Nat), NEW e \in Nat
    PROVE  Total(Append(s, e)) = Total(s) + e
<1> DEFINE t == Append(s, e)
           n == Len(s)
<1>1. /\ t \in Seq(Nat) /\ Len(t) = n + 1 /\ n \in Nat
      /\ t[n + 1] = e
      /\ \A i \in 1..n : t[i] = s[i]
  OBVIOUS
<1>2. PICK f : Sums(f, s)
  BY TotalLoop
<1>3. f[0] = 0 /\ (\A i \in 1..n : f[i] = f[i - 1] + s[i]) /\ Total(s) = f[n]
  BY <1>2 DEF Sums
<1> HIDE DEF t, n
<1>4. PICK g : Sums(g, t)
  BY <1>1, TotalLoop
<1>5. g[0] = 0 /\ (\A i \in 1..(n + 1) : g[i] = g[i - 1] + t[i]) /\ Total(t) = g[n + 1]
  BY <1>1, <1>4 DEF Sums
<1> DEFINE P == {i \in Nat : i <= n => g[i] = f[i]}
<1>6. 0 \in P
  BY <1>3, <1>5
<1>7. ASSUME NEW i \in P PROVE i + 1 \in P
  <2> SUFFICES ASSUME i + 1 <= n PROVE g[i + 1] = f[i + 1]
    OBVIOUS
  <2>1. i + 1 \in 1..n /\ i + 1 \in 1..(n + 1) /\ (i + 1) - 1 = i
    BY <1>1
  <2>2. t[i + 1] = s[i + 1]
    BY <1>1, <2>1
  <2>3. i <= n /\ g[i] = f[i]
    BY <1>1, <2>1
  <2>4. QED
    BY <1>3, <1>5, <2>1, <2>2, <2>3
<1>8. P = Nat
  <2> HIDE DEF P
  <2>1. P \in SUBSET Nat
    BY DEF P
  <2>2. QED
    BY <1>6, <1>7, <2>1, Induction
<1>9. g[n] = f[n]
  BY <1>1, <1>8
<1>10. n + 1 \in 1..(n + 1) /\ (n + 1) - 1 = n
  BY <1>1
<1>11. Total(t) = Total(s) + e
  BY <1>1, <1>3, <1>5, <1>9, <1>10
<1>12. QED
  BY <1>11 DEF t

\* The first number counts once.
LEMMA TotalTail ==
    ASSUME NEW s \in Seq(Nat), s # <<>>
    PROVE  Total(s) = Head(s) + Total(Tail(s))
<1> DEFINE P == {t \in Seq(Nat) : t # <<>> => Total(t) = Head(t) + Total(Tail(t))}
<1>1. <<>> \in P
  OBVIOUS
<1>2. ASSUME NEW t \in P, NEW e \in Nat PROVE Append(t, e) \in P
  <2>1. t \in Seq(Nat) /\ Append(t, e) \in Seq(Nat)
    OBVIOUS
  <2>2. Total(Append(t, e)) = Total(t) + e
    BY <2>1, TotalAppend
  <2>3. CASE t = <<>>
    <3>1. Head(Append(t, e)) = e /\ Tail(Append(t, e)) = <<>>
      BY <2>1, <2>3
    <3>2. Total(Append(t, e)) = Head(Append(t, e)) + Total(Tail(Append(t, e)))
      BY <2>2, <2>3, <3>1, TotalEmpty
    <3>3. QED
      BY <2>1, <3>2
  <2>4. CASE t # <<>>
    <3>1. /\ Head(Append(t, e)) = Head(t) /\ Tail(Append(t, e)) = Append(Tail(t), e)
          /\ Tail(t) \in Seq(Nat) /\ Head(t) \in Nat
      BY <2>1, <2>4
    <3>2. Total(t) = Head(t) + Total(Tail(t))
      BY <2>4
    <3>3. Total(Append(Tail(t), e)) = Total(Tail(t)) + e /\ Total(Tail(t)) \in Nat
      BY <3>1, TotalAppend, TotalType
    <3>4. Total(Append(t, e)) = (Head(t) + Total(Tail(t))) + e
      BY <2>2, <3>2
    <3>5. Total(Append(t, e)) = Head(t) + (Total(Tail(t)) + e)
      BY <3>1, <3>3, <3>4
    <3>6. Total(Append(t, e)) = Head(Append(t, e)) + Total(Tail(Append(t, e)))
      BY <3>1, <3>3, <3>5, Zenon
    <3>7. QED
      BY <2>1, <3>6
  <2>5. QED
    BY <2>3, <2>4
<1> HIDE DEF P
<1>3. P = Seq(Nat)
  <2>1. P \in SUBSET Seq(Nat)
    BY DEF P
  <2>2. QED
    BY <1>1, <1>2, <2>1, ListInduction
<1>4. QED
  BY <1>3 DEF P

==================================================================================
