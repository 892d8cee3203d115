--------------------------- MODULE SelectionLemmas ---------------------------
(***************************************************************************)
(* Induction on numbers and lists, with the property given as the set of   *)
(* what has it, and with it the facts about Selected that the router and   *)
(* the server rest on.                                                     *)
(***************************************************************************)
EXTENDS Selection, Integers, SequenceTheorems, WellFoundedInduction, TLAPS

\* A set of naturals that is not empty has a least element.
LEMMA LeastNatural ==
  ASSUME NEW T, T \subseteq Nat, T # {}
  PROVE  \E m \in T : \A k \in T : m <= k
<1> DEFINE Less == OpToRel(<, Nat)
<1>1. IsWellFoundedOn(Less, Nat)
  BY NatLessThanWellFounded
<1>2. PICK m \in T : \A k \in T : ~ (<<k, m>> \in Less)
  <2> HIDE DEF Less
  <2> QED
    BY <1>1, WFMin
<1>3. ASSUME NEW k \in T PROVE m <= k
  <2>1. k \in Nat /\ m \in Nat /\ ~(k < m)
    BY <1>2 DEF OpToRel
  <2> QED
    BY <2>1
<1> QED
  BY <1>3

\* Induction on the naturals.
LEMMA NaturalsByStep ==
  ASSUME NEW P, 0 \in P, \A n \in Nat : n \in P => n + 1 \in P
  PROVE  Nat \subseteq P
<1> DEFINE T == Nat \ P
<1> SUFFICES ASSUME T # {} PROVE FALSE
  OBVIOUS
<1>1. PICK m \in T : \A k \in T : m <= k
  BY LeastNatural
<1>2. m - 1 \in Nat /\ ~(m <= m - 1) /\ (m - 1) + 1 = m
  OBVIOUS
<1>3. m - 1 \in P
  BY <1>1, <1>2
<1>4. m \in P
  BY <1>2, <1>3
<1> QED
  BY <1>4

\* Induction on lists that grow at their end.
LEMMA ListsByAppend ==
  ASSUME NEW S, NEW P, <<>> \in P, \A s \in Seq(S), e \in S : s \in P => Append(s, e) \in P
  PROVE  Seq(S) \subseteq P
<1> DEFINE T == {n \in Nat : \A s \in Seq(S) : Len(s) = n => s \in P}
<1>1. 0 \in T
  <2>1. ASSUME NEW s \in Seq(S), Len(s) = 0 PROVE s = <<>>
    BY <2>1, EmptySeq
  <2> QED
    BY <2>1
<1>2. ASSUME NEW n \in Nat, n \in T PROVE n + 1 \in T
  <2> SUFFICES ASSUME NEW s \in Seq(S), Len(s) = n + 1 PROVE s \in P
    OBVIOUS
  <2>1. s # <<>>
    BY EmptySeq
  <2>2. PICK t \in Seq(S), e \in S : s = Append(t, e)
    BY <2>1, SequenceEmptyOrAppend
  <2>3. Len(t) \in Nat /\ Len(s) = Len(t) + 1
    BY <2>2, AppendProperties, LenProperties
  <2>4. Len(t) = n
    BY <2>3
  <2> QED
    BY <1>2, <2>2, <2>4
<1>3. Nat \subseteq T
  <2> HIDE DEF T
  <2> QED
    BY <1>1, <1>2, NaturalsByStep
<1> QED
  BY <1>3, LenProperties

\* What the recursive function of Selected satisfies.
IsSelection(f, s, keep) ==
  f = [i \in 0..Len(s) |-> IF i = 0 THEN <<>>
                           ELSE IF s[i] \in keep THEN Append(f[i - 1], s[i])
                           ELSE f[i - 1]]

\* There is such a function for every list.
LEMMA SelectionExists ==
  ASSUME NEW S, NEW keep, NEW s \in Seq(S)
  PROVE  \E f \in [0..Len(s) -> Seq(S)] : IsSelection(f, s, keep)
<1> DEFINE P == {t \in Seq(S) : \E f \in [0..Len(t) -> Seq(S)] : IsSelection(f, t, keep)}
<1>1. <<>> \in P
  <2> DEFINE f == [i \in 0..0 |-> <<>>]
  <2>1. Len(<<>>) = 0 /\ <<>> \in Seq(S)
    BY EmptySeq
  <2>2. f \in [0..0 -> Seq(S)] /\ f = [i \in 0..0 |-> IF i = 0 THEN <<>>
                           ELSE IF <<>>[i] \in keep THEN Append(f[i - 1], <<>>[i])
                           ELSE f[i - 1]]
    BY <2>1
  <2> QED
    BY <2>1, <2>2 DEF IsSelection
<1>2. ASSUME NEW t \in Seq(S), NEW e \in S, t \in P PROVE Append(t, e) \in P
  <2> DEFINE n == Len(t)
             u == Append(t, e)
  <2>1. PICK g \in [0..n -> Seq(S)] : IsSelection(g, t, keep)
    BY <1>2
  <2>2. /\ n \in Nat /\ u \in Seq(S) /\ Len(u) = n + 1 /\ u[n + 1] = e
        /\ \A i \in 1..n : u[i] = t[i]
    BY AppendProperties, LenProperties
  <2> DEFINE last == IF e \in keep THEN Append(g[n], e) ELSE g[n]
             f == [i \in 0..n + 1 |-> IF i = n + 1 THEN last ELSE g[i]]
  <2> HIDE DEF n, u
  <2>3. last \in Seq(S)
    BY <2>1, <2>2, AppendProperties
  <2>4. f \in [0..n + 1 -> Seq(S)]
    BY <2>1, <2>2, <2>3
  <2>5. ASSUME NEW i \in 0..n + 1
        PROVE  f[i] = IF i = 0 THEN <<>>
                      ELSE IF u[i] \in keep THEN Append(f[i - 1], u[i])
                      ELSE f[i - 1]
    <3>1. CASE i = n + 1
      <4>1. i - 1 = n /\ n \in 0..n + 1 /\ n # n + 1 /\ i # 0
        BY <2>2, <3>1
      <4>2. f[i - 1] = g[n] /\ f[i] = last /\ u[i] = e
        BY <2>2, <3>1, <4>1
      <4> QED
        BY <4>1, <4>2
    <3>2. CASE i = 0
      <4>1. g[0] = <<>> /\ 0 # n + 1
        BY <2>1, <2>2 DEF IsSelection, n
      <4> QED
        BY <3>2, <4>1
    <3>3. CASE i \in 1..n
      <4>1. i - 1 \in 0..n /\ i \in 0..n /\ i # n + 1 /\ i - 1 # n + 1 /\ i # 0 /\ i - 1 \in 0..n + 1
        BY <2>2, <3>3
      <4>2. f[i] = g[i] /\ f[i - 1] = g[i - 1] /\ u[i] = t[i]
        BY <2>2, <3>3, <4>1
      <4>3. g[i] = IF t[i] \in keep THEN Append(g[i - 1], t[i]) ELSE g[i - 1]
        BY <2>1, <4>1 DEF IsSelection, n
      <4> QED
        BY <4>1, <4>2, <4>3
    <3> QED
      BY <2>2, <3>1, <3>2, <3>3
  <2>6. IsSelection(f, u, keep)
    <3> HIDE DEF last
    <3> QED
      BY <2>2, <2>5 DEF IsSelection
  <2> QED
    BY <2>2, <2>4, <2>6 DEF u
<1>3. Seq(S) \subseteq P
  <2> HIDE DEF P
  <2> QED
    BY <1>1, <1>2, ListsByAppend
<1> QED
  BY <1>3

\* Two lists that agree up to n have selections that agree up to n.
LEMMA SelectionUnique ==
  ASSUME NEW keep, NEW s, NEW t, NEW f, NEW g, NEW n \in Nat,
         Len(s) \in Nat, Len(t) \in Nat, n <= Len(s), n <= Len(t),
         \A i \in 1..n : s[i] = t[i],
         IsSelection(f, s, keep), IsSelection(g, t, keep)
  PROVE  f[n] = g[n]
<1> DEFINE P == {i \in Nat : i <= n => f[i] = g[i]}
<1>1. 0 \in P
  <2>1. 0 \in 0..Len(s) /\ 0 \in 0..Len(t)
    OBVIOUS
  <2> QED
    BY <2>1 DEF IsSelection
<1>2. ASSUME NEW i \in Nat, i \in P PROVE i + 1 \in P
  <2> SUFFICES ASSUME i + 1 <= n PROVE f[i + 1] = g[i + 1]
    OBVIOUS
  <2>1. /\ i + 1 \in 0..Len(s) /\ i + 1 \in 0..Len(t) /\ i + 1 # 0
        /\ i + 1 \in 1..n /\ (i + 1) - 1 = i /\ i <= n
    OBVIOUS
  <2>2. f[i] = g[i] /\ s[i + 1] = t[i + 1]
    BY <1>2, <2>1
  <2>3. f[i + 1] = IF s[i + 1] \in keep THEN Append(f[i], s[i + 1]) ELSE f[i]
    BY <2>1 DEF IsSelection
  <2>4. g[i + 1] = IF t[i + 1] \in keep THEN Append(g[i], t[i + 1]) ELSE g[i]
    BY <2>1 DEF IsSelection
  <2> QED
    BY <2>2, <2>3, <2>4
<1>3. Nat \subseteq P
  <2> HIDE DEF P
  <2> QED
    BY <1>1, <1>2, NaturalsByStep
<1> QED
  BY <1>3

\* Selected is the value of such a function at the end of the list.
LEMMA SelectedBySelection ==
  ASSUME NEW S, NEW keep, NEW s \in Seq(S), NEW g, IsSelection(g, s, keep)
  PROVE  Selected(s, keep) = g[Len(s)]
<1> DEFINE f == CHOOSE f : IsSelection(f, s, keep)
<1>1. IsSelection(f, s, keep)
  OBVIOUS
<1>2. Selected(s, keep) = f[Len(s)]
  BY DEF Selected, IsSelection
<1>3. Len(s) \in Nat
  OBVIOUS
<1> HIDE DEF f
<1> QED
  BY <1>1, <1>2, <1>3, SelectionUnique

\* Nothing is selected from an empty list.
LEMMA SelectedEmpty ==
  ASSUME NEW keep
  PROVE  Selected(<<>>, keep) = <<>>
<1>1. PICK f \in [0..Len(<<>>) -> Seq({})] : IsSelection(f, <<>>, keep)
  BY SelectionExists, EmptySeq
<1>2. f[0] = <<>>
  BY <1>1, EmptySeq DEF IsSelection
<1> QED
  BY <1>1, <1>2, SelectedBySelection, EmptySeq

\* The elements selected are a list of the same kind.
LEMMA SelectedType ==
  ASSUME NEW S, NEW keep, NEW s \in Seq(S)
  PROVE  Selected(s, keep) \in Seq(S)
<1>1. PICK f \in [0..Len(s) -> Seq(S)] : IsSelection(f, s, keep)
  BY SelectionExists
<1>2. Len(s) \in 0..Len(s)
  OBVIOUS
<1> QED
  BY <1>1, <1>2, SelectedBySelection

\* A new last element is selected or not, after what was selected before it.
LEMMA SelectedAppend ==
  ASSUME NEW S, NEW keep, NEW s \in Seq(S), NEW e \in S
  PROVE  Selected(Append(s, e), keep) =
           IF e \in keep THEN Append(Selected(s, keep), e) ELSE Selected(s, keep)
<1>1. PICK n \in Nat : n = Len(s)
  OBVIOUS
<1>2. PICK u \in Seq(S) : u = Append(s, e)
  BY AppendProperties
<1>3. /\ Len(u) = n + 1 /\ u[n + 1] = e
      /\ \A i \in 1..n : s[i] = u[i]
  BY <1>1, <1>2, AppendProperties
<1>4. PICK f : IsSelection(f, s, keep)
  BY SelectionExists
<1>5. PICK g : IsSelection(g, u, keep)
  BY SelectionExists
<1>6. f[n] = g[n]
  <2>1. Len(s) \in Nat /\ Len(u) \in Nat /\ n <= Len(s) /\ n <= Len(u)
    BY <1>1, <1>3
  <2> QED
    BY <1>3, <1>4, <1>5, <2>1, SelectionUnique
<1>7. n + 1 \in 0..Len(u) /\ n + 1 # 0 /\ (n + 1) - 1 = n
  BY <1>3
<1>8. g[n + 1] = IF e \in keep THEN Append(g[n], e) ELSE g[n]
  BY <1>3, <1>5, <1>7 DEF IsSelection
<1>9. Selected(s, keep) = f[n]
  BY <1>1, <1>4, SelectedBySelection
<1>10. Selected(u, keep) = g[n + 1]
  BY <1>3, <1>5, SelectedBySelection
<1> QED
  BY <1>2, <1>6, <1>8, <1>9, <1>10

\* The values in a list, and that each is in it once.
Values(s)  == {s[i] : i \in 1..Len(s)}
Distinct(s) == \A i, j \in 1..Len(s) : s[i] = s[j] => i = j

\* One element more is one value more, and a list stays distinct when it is new.
LEMMA AppendValues ==
  ASSUME NEW S, NEW s \in Seq(S), NEW e \in S
  PROVE  /\ Values(Append(s, e)) = Values(s) \cup {e}
         /\ Distinct(Append(s, e)) <=> Distinct(s) /\ e \notin Values(s)
<1> DEFINE u == Append(s, e)
           n == Len(s)
<1>1. /\ n \in Nat /\ Len(u) = n + 1 /\ u[n + 1] = e
      /\ \A i \in 1..n : u[i] = s[i]
  BY AppendProperties, LenProperties
<1>2. 1..n + 1 = 1..n \cup {n + 1} /\ n + 1 \notin 1..n
  BY <1>1
<1> HIDE DEF u, n
<1>3. Values(u) = Values(s) \cup {e}
  BY <1>1, <1>2 DEF Values, n
<1>4. ASSUME Distinct(u) PROVE Distinct(s) /\ e \notin Values(s)
  BY <1>1, <1>2, <1>4 DEF Distinct, Values, n
<1>5. ASSUME Distinct(s), e \notin Values(s) PROVE Distinct(u)
  BY <1>1, <1>2, <1>5 DEF Distinct, Values, n
<1> QED
  BY <1>3, <1>4, <1>5 DEF u

\* Selecting keeps exactly the values in keep.
LEMMA SelectedValues ==
  ASSUME NEW S, NEW keep, NEW s \in Seq(S)
  PROVE  Values(Selected(s, keep)) = Values(s) \cap keep
<1> DEFINE P == {t \in Seq(S) : Values(Selected(t, keep)) = Values(t) \cap keep}
<1>1. <<>> \in P
  <2>1. <<>> \in Seq(S) /\ Len(<<>>) = 0 /\ Selected(<<>>, keep) = <<>>
    BY SelectedEmpty, EmptySeq
  <2> QED
    BY <2>1 DEF Values
<1>2. ASSUME NEW t \in Seq(S), NEW e \in S, t \in P PROVE Append(t, e) \in P
  <2>1. Append(t, e) \in Seq(S) /\ Selected(t, keep) \in Seq(S)
    BY AppendProperties, SelectedType
  <2>2. Values(Append(t, e)) = Values(t) \cup {e}
    BY AppendValues
  <2>3. CASE e \in keep
    <3>1. Selected(Append(t, e), keep) = Append(Selected(t, keep), e)
      BY <2>3, SelectedAppend
    <3>2. Values(Append(Selected(t, keep), e)) = Values(Selected(t, keep)) \cup {e}
      BY <2>1, AppendValues
    <3> QED
      BY <1>2, <2>1, <2>2, <2>3, <3>1, <3>2
  <2>4. CASE e \notin keep
    <3>1. Selected(Append(t, e), keep) = Selected(t, keep)
      BY <2>4, SelectedAppend
    <3> QED
      BY <1>2, <2>1, <2>2, <2>4, <3>1
  <2> QED
    BY <2>3, <2>4
<1>3. Seq(S) \subseteq P
  <2> HIDE DEF P
  <2> QED
    BY <1>1, <1>2, ListsByAppend
<1> QED
  BY <1>3

\* Selecting from a list that holds each value once leaves such a list.
LEMMA SelectedDistinct ==
  ASSUME NEW S, NEW keep, NEW s \in Seq(S), Distinct(s)
  PROVE  Distinct(Selected(s, keep))
<1> DEFINE P == {t \in Seq(S) : ~Distinct(t) \/ Distinct(Selected(t, keep))}
<1>1. <<>> \in P
  <2>1. <<>> \in Seq(S) /\ Len(<<>>) = 0 /\ Selected(<<>>, keep) = <<>>
    BY SelectedEmpty, EmptySeq
  <2>2. Distinct(Selected(<<>>, keep))
    BY <2>1 DEF Distinct
  <2> QED
    BY <2>1, <2>2
<1>2. ASSUME NEW t \in Seq(S), NEW e \in S, t \in P PROVE Append(t, e) \in P
  <2> SUFFICES ASSUME Distinct(Append(t, e)) PROVE Distinct(Selected(Append(t, e), keep))
    BY AppendProperties
  <2>1. Selected(t, keep) \in Seq(S)
    BY SelectedType
  <2>2. Distinct(t) /\ e \notin Values(t)
    BY AppendValues
  <2>3. Distinct(Selected(t, keep))
    BY <1>2, <2>2
  <2>4. CASE e \in keep
    <3>1. Selected(Append(t, e), keep) = Append(Selected(t, keep), e)
      BY <2>4, SelectedAppend
    <3>2. e \notin Values(Selected(t, keep))
      BY <2>2, SelectedValues
    <3> QED
      BY <2>1, <2>3, <3>1, <3>2, AppendValues
  <2>5. CASE e \notin keep
    <3>1. Selected(Append(t, e), keep) = Selected(t, keep)
      BY <2>5, SelectedAppend
    <3> QED
      BY <2>3, <3>1
  <2> QED
    BY <2>4, <2>5
<1>3. Seq(S) \subseteq P
  <2> HIDE DEF P
  <2> QED
    BY <1>1, <1>2, ListsByAppend
<1>4. s \in P
  BY <1>3
<1> QED
  BY <1>4
===============================================================================
