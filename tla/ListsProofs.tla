---------------------------- MODULE ListsProofs ----------------------------
(***************************************************************************)
(* What Picked and Sorted return, for every list.  Both recur along a list,  *)
(* so their facts need induction.  The library's induction theorems take   *)
(* an operator; here induction is stated of a set instead (Induction,      *)
(* ListInduction), which follows from the well-foundedness of < on Nat.    *)
(***************************************************************************)
EXTENDS Lists, WellFoundedInduction, TLAPS

\* A set of numbers has a least one.
LEMMA Least ==
    ASSUME NEW T, T \subseteq Nat, T # {}
    PROVE  \E x \in T : \A y \in T : x <= y
<1> DEFINE Below == {ss \in Nat \X Nat : ss[1] < ss[2]}
<1>1. IsWellFoundedOn(Below, Nat)
  BY NatLessThanWellFounded DEF OpToRel
<1>2. \A x, y \in Nat : y < x => <<y, x>> \in Below
  OBVIOUS
<1> HIDE DEF Below
<1>3. PICK x \in T : \A y \in T : <<y, x>> \notin Below
  BY <1>1, WFMin
<1>4. ASSUME NEW y \in T PROVE x <= y
  <2>1. x \in Nat /\ y \in Nat /\ ~ (y < x)
    BY <1>2, <1>3
  <2> QED BY <2>1
<1> QED BY <1>4

\* What holds of 0, and of n + 1 if of n, holds of every number.
LEMMA Induction ==
    ASSUME NEW T, 0 \in T, \A n \in Nat : n \in T => n + 1 \in T
    PROVE  Nat \subseteq T
<1> DEFINE U == Nat \ T
<1> SUFFICES ASSUME U # {} PROVE FALSE
  OBVIOUS
<1>1. PICK x \in U : \A y \in U : x <= y
  <2>1. U \subseteq Nat
    OBVIOUS
  <2> HIDE DEF U
  <2> QED BY <2>1, Least
<1>2. x - 1 \in Nat /\ x - 1 \notin U
  BY <1>1
<1> QED BY <1>1, <1>2

\* What holds of the empty list, and of a list with one more element if of the
\* list, holds of every list.
LEMMA ListInduction ==
    ASSUME NEW X, NEW T, <<>> \in T,
           \A s \in Seq(X), e \in X : s \in T => Append(s, e) \in T
    PROVE  Seq(X) \subseteq T
<1> DEFINE N == {n \in Nat : \A s \in Seq(X) : Len(s) = n => s \in T}
<1>1. 0 \in N
  <2>1. \A s \in Seq(X) : Len(s) = 0 => s = <<>>
    OBVIOUS
  <2> QED BY <2>1
<1>2. ASSUME NEW n \in Nat, n \in N PROVE n + 1 \in N
  <2> SUFFICES ASSUME NEW s \in Seq(X), Len(s) = n + 1 PROVE s \in T
    OBVIOUS
  <2> DEFINE front == SubSeq(s, 1, n)
  <2>1. front \in Seq(X) /\ Len(front) = n /\ s[n + 1] \in X /\ s = Append(front, s[n + 1])
    OBVIOUS
  <2>2. front \in T
    BY <1>2, <2>1
  <2> HIDE DEF front
  <2> QED BY <2>1, <2>2
<1>3. Nat \subseteq N
  <2> HIDE DEF N
  <2> QED BY <1>1, <1>2, Induction
<1> QED BY <1>3

\* A function that steps from value to value, up to any number of steps, exists.
Recurs(f, base, G, N) == f[0] = base /\ \A n \in 1 .. N : f[n] = G[<<n, f[n - 1]>>]

LEMMA Recursion ==
    ASSUME NEW V, NEW base \in V, NEW G, NEW N \in Nat,
           \A n \in Nat, v \in V : G[<<n, v>>] \in V
    PROVE  \E f : f \in [0 .. N -> V] /\ Recurs(f, base, G, N)
<1> USE DEF Recurs
<1> DEFINE Steps(f, m) == Recurs(f, base, G, m)
           T == {m \in Nat : \E f \in [0 .. m -> V] : Steps(f, m)}
<1>1. 0 \in T
  <2> DEFINE f == [n \in 0 .. 0 |-> base]
  <2>1. f \in [0 .. 0 -> V] /\ Steps(f, 0)
    OBVIOUS
  <2> HIDE DEF f
  <2> QED BY <2>1
<1>2. ASSUME NEW m \in Nat, m \in T PROVE m + 1 \in T
  <2>1. PICK f \in [0 .. m -> V] : Steps(f, m)
    BY <1>2
  <2> DEFINE last == G[<<m + 1, f[m]>>]
             g == [n \in 0 .. m + 1 |-> IF n = m + 1 THEN last ELSE f[n]]
  <2>2. last \in V
    <3>1. f[m] \in V
      OBVIOUS
    <3> QED BY <3>1
  <2>3. g \in [0 .. m + 1 -> V] /\ g[m + 1] = last /\ \A n \in 0 .. m : g[n] = f[n]
    BY <2>2
  <2> HIDE DEF g
  <2>4. Steps(g, m + 1)
    <3>1. g[0] = base
      BY <2>1, <2>3
    <3>2. ASSUME NEW n \in 1 .. m + 1 PROVE g[n] = G[<<n, g[n - 1]>>]
      <4>1. n - 1 \in 0 .. m /\ g[n - 1] = f[n - 1]
        BY <2>3
      <4>2. CASE n = m + 1
        BY <2>3, <4>1, <4>2
      <4>3. CASE n # m + 1
        <5>1. n \in 1 .. m /\ n \in 0 .. m
          BY <4>3
        <5> QED BY <2>1, <2>3, <4>1, <5>1
      <4> QED BY <4>2, <4>3
    <3> QED BY <3>1, <3>2
  <2> QED BY <2>3, <2>4
<1>3. Nat \subseteq T
  <2> HIDE DEF T
  <2> QED BY <1>1, <1>2, Induction
<1>4. N \in T
  BY <1>3
<1> QED BY <1>4
-----------------------------------------------------------------------------
\* A list and one element more.
LEMMA AppendElements ==
    ASSUME NEW X, NEW s \in Seq(X), NEW e \in X
    PROVE  /\ Append(s, e) \in Seq(X) /\ Len(Append(s, e)) = Len(s) + 1
           /\ Range(Append(s, e)) = Range(s) \cup {e}
<1> DEFINE t == Append(s, e)
<1>1. t \in Seq(X) /\ Len(t) = Len(s) + 1 /\ t[Len(s) + 1] = e /\ \A i \in 1 .. Len(s) : t[i] = s[i]
  OBVIOUS
<1>2. DOMAIN t = 1 .. Len(s) + 1 /\ DOMAIN s = 1 .. Len(s) /\ Len(s) \in Nat
  BY <1>1
<1> HIDE DEF t
<1>3. Range(t) = Range(s) \cup {e}
  BY <1>1, <1>2 DEF Range
<1> QED BY <1>1, <1>3 DEF t
-----------------------------------------------------------------------------
\* The function inside Picked, for every value it is asked for.
PickedAt(f, s, S, n) ==
    IF n = 0 THEN <<>> ELSE IF s[n] \in S THEN Append(f[n - 1], s[n]) ELSE f[n - 1]

IsPicked(f, s, S) == f = [n \in 0 .. Len(s) |-> PickedAt(f, s, S, n)]

LEMMA PickedIsChosen ==
    ASSUME NEW s, NEW S
    PROVE  Picked(s, S) = (CHOOSE f : IsPicked(f, s, S))[Len(s)]
BY DEF Picked, IsPicked, PickedAt

LEMMA PickedExists ==
    ASSUME NEW X, NEW s \in Seq(X), NEW S
    PROVE  \E f : IsPicked(f, s, S)
<1> DEFINE step(n, v) == IF n \in 1 .. Len(s) /\ s[n] \in S THEN Append(v, s[n]) ELSE v
           G == [a \in Nat \X Seq(X) |-> step(a[1], a[2])]
<1>1. \A n \in Nat, v \in Seq(X) : step(n, v) \in Seq(X)
  OBVIOUS
<1>2. G \in [Nat \X Seq(X) -> Seq(X)] /\ \A n \in Nat, v \in Seq(X) : G[<<n, v>>] = step(n, v)
  <2> HIDE DEF step
  <2> QED BY <1>1
<1>3. <<>> \in Seq(X) /\ Len(s) \in Nat
  OBVIOUS
<1> HIDE DEF G
<1>4. PICK f : f \in [0 .. Len(s) -> Seq(X)] /\ Recurs(f, <<>>, G, Len(s))
  <2>1. \A n \in Nat, v \in Seq(X) : G[<<n, v>>] \in Seq(X)
    BY <1>1, <1>2
  <2> QED BY <1>3, <2>1, Recursion
<1>5. ASSUME NEW n \in 0 .. Len(s) PROVE f[n] = PickedAt(f, s, S, n)
  <2>1. CASE n = 0
    BY <1>4, <2>1 DEF PickedAt, Recurs
  <2>2. CASE n # 0
    <3>1. n \in 1 .. Len(s) /\ n - 1 \in 0 .. Len(s) /\ n \in Nat
      BY <1>3, <2>2
    <3>2. f[n] = step(n, f[n - 1])
      BY <1>2, <1>4, <3>1 DEF Recurs
    <3> QED BY <2>2, <3>1, <3>2 DEF PickedAt
  <2> QED BY <2>1, <2>2
<1>6. f = [n \in 0 .. Len(s) |-> PickedAt(f, s, S, n)]
  <2>1. f = [n \in 0 .. Len(s) |-> f[n]]
    BY <1>4
  <2> QED BY <1>5, <2>1
<1> QED BY <1>6, Zenon DEF IsPicked

\* What is picked of nothing, and of a list with one more element.
LEMMA PickedOfNothing == ASSUME NEW S PROVE Picked(<<>>, S) = <<>>
<1>1. <<>> \in Seq({})
  OBVIOUS
<1>2. PICK f : IsPicked(f, <<>>, S) /\ Picked(<<>>, S) = f[Len(<<>>)]
  BY <1>1, PickedExists, PickedIsChosen
<1> QED BY <1>2 DEF IsPicked

LEMMA PickedOfMore ==
    ASSUME NEW X, NEW s \in Seq(X), NEW e \in X, NEW S
    PROVE  Picked(Append(s, e), S) = IF e \in S THEN Append(Picked(s, S), e) ELSE Picked(s, S)
<1> DEFINE t == Append(s, e)
           m == Len(s)
<1>1. /\ t \in Seq(X) /\ Len(t) = m + 1 /\ t[m + 1] = e /\ m \in Nat
      /\ \A n \in 1 .. m : t[n] = s[n]
  OBVIOUS
<1>2. PICK f : IsPicked(f, s, S) /\ Picked(s, S) = f[m]
  BY PickedExists, PickedIsChosen
<1> HIDE DEF t, m
<1>3. PICK g : IsPicked(g, t, S) /\ Picked(t, S) = g[m + 1]
  BY <1>1, PickedExists, PickedIsChosen
<1>4. \A n \in 0 .. m : f[n] = PickedAt(f, s, S, n)
  BY <1>2, Zenon DEF IsPicked, m
<1>5. \A n \in 0 .. m + 1 : g[n] = PickedAt(g, t, S, n)
  <2>1. \A n \in 0 .. Len(t) : g[n] = PickedAt(g, t, S, n)
    BY <1>3, Zenon DEF IsPicked
  <2> QED BY <1>1, <2>1
<1> DEFINE T == {n \in Nat : n <= m => f[n] = g[n]}
<1>6. 0 \in T
  BY <1>1, <1>4, <1>5 DEF PickedAt
<1>7. ASSUME NEW n \in Nat, n \in T PROVE n + 1 \in T
  <2> SUFFICES ASSUME n + 1 <= m PROVE f[n + 1] = g[n + 1]
    OBVIOUS
  <2>1. /\ n + 1 \in 1 .. m /\ n + 1 \in 0 .. m + 1 /\ n + 1 # 0
        /\ (n + 1) - 1 = n /\ f[n] = g[n]
    BY <1>1, <1>7
  <2>2. s[n + 1] = t[n + 1]
    BY <1>1, <2>1
  <2>3. PickedAt(f, s, S, n + 1) = PickedAt(g, t, S, n + 1)
    BY <2>1, <2>2 DEF PickedAt
  <2> QED BY <1>4, <1>5, <2>1, <2>3
<1>8. Nat \subseteq T
  <2> HIDE DEF T
  <2> QED BY <1>6, <1>7, Induction
<1>9. f[m] = g[m]
  BY <1>1, <1>8
<1>10. g[m + 1] = IF e \in S THEN Append(g[m], e) ELSE g[m]
  <2>1. m + 1 \in 0 .. m + 1 /\ m + 1 # 0 /\ (m + 1) - 1 = m
    BY <1>1
  <2> QED BY <1>1, <1>5, <2>1 DEF PickedAt
<1> QED BY <1>2, <1>3, <1>9, <1>10 DEF t

\* Picked is a list, no longer, of exactly the elements that are in the set.
LEMMA PickedElements ==
    ASSUME NEW X, NEW s \in Seq(X), NEW S
    PROVE  /\ Picked(s, S) \in Seq(X)
           /\ Len(Picked(s, S)) <= Len(s)
           /\ Range(Picked(s, S)) = Range(s) \cap S
<1> DEFINE P(u) == /\ Picked(u, S) \in Seq(X)
                   /\ Len(Picked(u, S)) <= Len(u)
                   /\ Range(Picked(u, S)) = Range(u) \cap S
           T == {u \in Seq(X) : P(u)}
<1>1. <<>> \in T
  <2>1. <<>> \in Seq(X) /\ Range(<<>>) = {} /\ Len(<<>>) = 0
    BY DEF Range
  <2>2. Picked(<<>>, S) = <<>>
    BY PickedOfNothing
  <2>3. /\ Picked(<<>>, S) \in Seq(X)
        /\ Len(Picked(<<>>, S)) <= Len(<<>>)
        /\ Range(Picked(<<>>, S)) = Range(<<>>) \cap S
    <3>1. Range(<<>>) = Range(<<>>) \cap S
      BY <2>1
    <3>2. Len(<<>>) <= Len(<<>>)
      BY <2>1
    <3> QED BY <2>1, <2>2, <3>1, <3>2, Zenon
  <2> QED BY <2>1, <2>3
<1>2. ASSUME NEW u \in Seq(X), NEW e \in X, u \in T PROVE Append(u, e) \in T
  <2> DEFINE v == Append(u, e)
             k == Picked(u, S)
  <2>1. Picked(v, S) = IF e \in S THEN Append(k, e) ELSE k
    BY PickedOfMore
  <2>2. k \in Seq(X) /\ Len(k) <= Len(u) /\ Range(k) = Range(u) \cap S
    BY <1>2
  <2>3. v \in Seq(X) /\ Len(v) = Len(u) + 1 /\ Range(v) = Range(u) \cup {e}
    BY AppendElements
  <2> HIDE DEF k, v
  <2>4. Picked(v, S) \in Seq(X) /\ Len(Picked(v, S)) <= Len(v) /\ Range(Picked(v, S)) = Range(v) \cap S
    <3>1. CASE e \in S
      <4> DEFINE w == Append(k, e)
      <4>1. w \in Seq(X) /\ Len(w) = Len(k) + 1 /\ Range(w) = Range(k) \cup {e}
        BY <2>2, AppendElements
      <4>2. Picked(v, S) = w
        BY <2>1, <3>1
      <4> HIDE DEF w
      <4>3. Len(w) <= Len(v) /\ Range(w) = Range(v) \cap S
        BY <2>2, <2>3, <3>1, <4>1
      <4> QED BY <4>1, <4>2, <4>3
    <3>2. CASE e \notin S
      <4>1. Len(k) <= Len(v) /\ Range(k) = Range(v) \cap S
        BY <2>2, <2>3, <3>2
      <4> QED BY <2>1, <2>2, <3>2, <4>1
    <3> QED BY <3>1, <3>2
  <2> QED BY <2>3, <2>4 DEF v
<1>3. Seq(X) \subseteq T
  <2> HIDE DEF T
  <2> QED BY <1>1, <1>2, ListInduction
<1> QED BY <1>3

\* What is picked of a list begins with what is picked of its beginning.
LEMMA PickedOfPrefix ==
    ASSUME NEW X, NEW s \in Seq(X), NEW t \in Seq(X), NEW S
    PROVE  IsPrefix(Picked(s, S), Picked(s \o t, S))
<1> DEFINE k == Picked(s, S)
           T == {u \in Seq(X) : IsPrefix(k, Picked(s \o u, S))}
<1>1. k \in Seq(X)
  BY PickedElements
<1>2. <<>> \in T
  <2>1. s \o <<>> = s /\ <<>> \in Seq(X)
    OBVIOUS
  <2>2. IsPrefix(k, k)
    <3> HIDE DEF k
    <3> QED BY <1>1 DEF IsPrefix
  <2> QED BY <2>1, <2>2
<1>3. ASSUME NEW u \in Seq(X), NEW e \in X, u \in T PROVE Append(u, e) \in T
  <2> DEFINE v == s \o u
             m == Picked(v, S)
  <2>1. v \in Seq(X) /\ s \o Append(u, e) = Append(v, e) /\ Append(u, e) \in Seq(X)
    OBVIOUS
  <2>2. IsPrefix(k, m)
    BY <1>3
  <2> HIDE DEF v
  <2>3. m \in Seq(X)
    BY <2>1, PickedElements
  <2>4. Picked(Append(v, e), S) = IF e \in S THEN Append(m, e) ELSE m
    BY <2>1, PickedOfMore
  <2> HIDE DEF k, m
  <2>5. IsPrefix(k, Append(m, e))
    BY <1>1, <2>2, <2>3 DEF IsPrefix
  <2>6. IsPrefix(k, Picked(Append(v, e), S))
    BY <2>2, <2>4, <2>5
  <2> QED BY <2>1, <2>6 DEF k, v
<1>4. Seq(X) \subseteq T
  <2> HIDE DEF T
  <2> QED BY <1>2, <1>3, ListInduction
<1> QED BY <1>4

\* Picking brings no two elements together that A pairs, if they are not in the
\* list already.
Parted(s, A) == \A i, j \in DOMAIN s : <<s[i], s[j]>> \in A => i = j

LEMMA PickedParted ==
    ASSUME NEW X, NEW S, NEW A, NEW s \in Seq(X), Parted(s, A)
    PROVE  Parted(Picked(s, S), A)
<1> DEFINE T == {u \in Seq(X) : Parted(u, A) => Parted(Picked(u, S), A)}
<1>1. <<>> \in T
  BY PickedOfNothing DEF Parted
<1>2. ASSUME NEW u \in Seq(X), NEW e \in X, u \in T PROVE Append(u, e) \in T
  <2> DEFINE v == Append(u, e)
             k == Picked(u, S)
             m == Len(u) + 1
             w == Append(k, e)
             n == Len(k) + 1
  <2>1. /\ v \in Seq(X) /\ DOMAIN v = 1 .. m /\ DOMAIN u = 1 .. Len(u) /\ v[m] = e /\ Len(u) \in Nat
        /\ \A i \in 1 .. Len(u) : v[i] = u[i] /\ i \in 1 .. m /\ i # m
        /\ m \in 1 .. m
    OBVIOUS
  <2>2. k \in Seq(X) /\ Range(k) = Range(u) \cap S /\ Picked(v, S) = IF e \in S THEN w ELSE k
    BY PickedElements, PickedOfMore
  <2> SUFFICES ASSUME Parted(v, A) PROVE Parted(Picked(v, S), A)
    BY <2>1
  <2>3. Parted(u, A) /\ \A i \in 1 .. Len(u) : <<u[i], e>> \notin A /\ <<e, u[i]>> \notin A
    <3> HIDE DEF v, m
    <3> QED BY <2>1 DEF Parted
  <2>4. Parted(k, A)
    BY <1>2, <2>3
  <2>5. \A x \in Range(k) : <<x, e>> \notin A /\ <<e, x>> \notin A
    BY <2>1, <2>2, <2>3 DEF Range
  <2> HIDE DEF k, v
  <2>6. /\ DOMAIN w = 1 .. n /\ DOMAIN k = 1 .. Len(k) /\ w[n] = e
        /\ \A i \in 1 .. Len(k) : w[i] = k[i] /\ k[i] \in Range(k)
        /\ \A i \in 1 .. n : i \in 1 .. Len(k) \/ i = n
    BY <2>2 DEF Range
  <2> HIDE DEF w, n
  <2>7. Parted(w, A)
    BY <2>4, <2>5, <2>6 DEF Parted
  <2> QED BY <2>2, <2>4, <2>7
<1>3. Seq(X) \subseteq T
  <2> HIDE DEF T
  <2> QED BY <1>1, <1>2, ListInduction
<1> QED BY <1>3

\* Only what the set says of the list's own elements matters.
LEMMA PickedBySame ==
    ASSUME NEW X, NEW S, NEW U, NEW s \in Seq(X), Range(s) \cap S = Range(s) \cap U
    PROVE  Picked(s, S) = Picked(s, U)
<1> DEFINE P(u) == Range(u) \cap S = Range(u) \cap U => Picked(u, S) = Picked(u, U)
           T == {u \in Seq(X) : P(u)}
<1>1. <<>> \in T
  <2>1. Picked(<<>>, S) = <<>> /\ Picked(<<>>, U) = <<>>
    BY PickedOfNothing
  <2> QED BY <2>1
<1>2. ASSUME NEW u \in Seq(X), NEW e \in X, u \in T PROVE Append(u, e) \in T
  <2> SUFFICES ASSUME Range(Append(u, e)) \cap S = Range(Append(u, e)) \cap U
               PROVE  Picked(Append(u, e), S) = Picked(Append(u, e), U)
    BY AppendElements
  <2>1. Range(Append(u, e)) = Range(u) \cup {e}
    BY AppendElements
  <2>2. Range(u) \cap S = Range(u) \cap U /\ (e \in S <=> e \in U)
    BY <2>1
  <2>3. Picked(u, S) = Picked(u, U)
    BY <1>2, <2>2
  <2>4. /\ Picked(Append(u, e), S) = IF e \in S THEN Append(Picked(u, S), e) ELSE Picked(u, S)
        /\ Picked(Append(u, e), U) = IF e \in U THEN Append(Picked(u, U), e) ELSE Picked(u, U)
    BY PickedOfMore
  <2> QED BY <2>2, <2>3, <2>4
<1>3. Seq(X) \subseteq T
  <2> HIDE DEF T
  <2> QED BY <1>1, <1>2, ListInduction
<1> QED BY <1>3
-----------------------------------------------------------------------------
\* There is a place for an element in every list.
LEMMA PlaceIsFound ==
    ASSUME NEW X, NEW t \in Seq(X), NEW e, NEW B
    PROVE  /\ Place(t, e, B) \in 0 .. Len(t)
           /\ \A i \in 1 .. Place(t, e, B) : <<e, t[i]>> \notin B
           /\ Place(t, e, B) < Len(t) => <<e, t[Place(t, e, B) + 1]>> \in B
<1> DEFINE Is(k) == /\ \A i \in 1 .. k : <<e, t[i]>> \notin B
                    /\ k < Len(t) => <<e, t[k + 1]>> \in B
<1>1. \E k \in 0 .. Len(t) : Is(k)
  <2> DEFINE After == {k \in 0 .. Len(t) : k < Len(t) => <<e, t[k + 1]>> \in B}
  <2>1. After \subseteq Nat /\ Len(t) \in After
    OBVIOUS
  <2>2. PICK k \in After : \A l \in After : k <= l
    <3> HIDE DEF After
    <3> QED BY <2>1, Least
  <2>3. ASSUME NEW i \in 1 .. k PROVE <<e, t[i]>> \notin B
    <3>1. k \in 0 .. Len(t) /\ Len(t) \in Nat
      BY <2>2
    <3>2. i - 1 \in 0 .. Len(t) /\ i - 1 < Len(t) /\ (i - 1) + 1 = i /\ ~ (k <= i - 1)
      BY <3>1
    <3> QED BY <2>2, <3>2
  <2> QED BY <2>2, <2>3
<1>2. Place(t, e, B) = CHOOSE k \in 0 .. Len(t) : Is(k)
  BY DEF Place
<1> HIDE DEF Is
<1>3. Place(t, e, B) \in 0 .. Len(t) /\ Is(Place(t, e, B))
  BY <1>1, <1>2
<1> QED BY <1>3 DEF Is

\* Two lists one after the other.
LEMMA JoinedLists ==
    ASSUME NEW X, NEW b \in Seq(X), NEW c \in Seq(X), NEW u, u = b \o c
    PROVE  /\ u \in Seq(X) /\ Len(u) = Len(b) + Len(c)
           /\ \A i \in 1 .. Len(b) : u[i] = b[i]
           /\ \A i \in 1 .. Len(c) : u[Len(b) + i] = c[i]
OBVIOUS

\* An element inserted anywhere.
IsInserted(u, t, k, e) ==
    /\ Len(u) = Len(t) + 1
    /\ \A i \in 1 .. k : u[i] = t[i]
    /\ u[k + 1] = e
    /\ \A i \in k + 2 .. Len(t) + 1 : u[i] = t[i - 1]

LEMMA InsertElements ==
    ASSUME NEW X, NEW t \in Seq(X), NEW e \in X, NEW k \in 0 .. Len(t)
    PROVE  /\ InsertAt(t, k + 1, e) \in Seq(X)
           /\ Range(InsertAt(t, k + 1, e)) = Range(t) \cup {e}
           /\ IsInserted(InsertAt(t, k + 1, e), t, k, e)
<1> DEFINE u == InsertAt(t, k + 1, e)
           a == SubSeq(t, 1, k)
           c == SubSeq(t, k + 1, Len(t))
<1>1. u = a \o <<e>> \o c
  <2>1. (k + 1) - 1 = k
    OBVIOUS
  <2> QED BY <2>1 DEF InsertAt
<1>2. /\ u \in Seq(X) /\ Len(u) = Len(t) + 1
      /\ \A i \in 1 .. k : u[i] = t[i]
      /\ u[k + 1] = e
      /\ \A i \in k + 2 .. Len(t) + 1 : u[i] = t[i - 1]
  <2>1. a \in Seq(X) /\ Len(a) = k /\ \A i \in 1 .. k : a[i] = t[i]
    OBVIOUS
  <2>2. c \in Seq(X) /\ Len(c) = Len(t) - k /\ \A i \in 1 .. Len(t) - k : c[i] = t[k + i]
    OBVIOUS
  <2> HIDE DEF a, c
  <2> DEFINE b == a \o <<e>>
  <2>3. b \in Seq(X) /\ Len(b) = k + 1 /\ b[k + 1] = e /\ \A i \in 1 .. k : b[i] = a[i]
    BY <2>1
  <2> HIDE DEF b
  <2>4. u = b \o c
    BY <1>1 DEF b
  <2> HIDE DEF u
  <2>5. /\ u \in Seq(X) /\ Len(u) = Len(b) + Len(c)
        /\ \A i \in 1 .. Len(b) : u[i] = b[i]
        /\ \A i \in 1 .. Len(c) : u[Len(b) + i] = c[i]
    <3>1. b \in Seq(X) /\ c \in Seq(X)
      BY <2>2, <2>3
    <3> QED BY <2>4, <3>1, JoinedLists
  <2>6. ASSUME NEW i \in k + 2 .. Len(t) + 1 PROVE u[i] = t[i - 1]
    <3>1. /\ i - (k + 1) \in 1 .. Len(t) - k
          /\ k + (i - (k + 1)) = i - 1
          /\ (k + 1) + (i - (k + 1)) = i
      OBVIOUS
    <3>2. u[(k + 1) + (i - (k + 1))] = c[i - (k + 1)]
      BY <2>2, <2>3, <2>5, <3>1
    <3>3. c[i - (k + 1)] = t[k + (i - (k + 1))]
      BY <2>2, <3>1
    <3> QED BY <3>1, <3>2, <3>3
  <2> QED BY <2>1, <2>2, <2>3, <2>5, <2>6
<1>3. DOMAIN u = 1 .. Len(t) + 1 /\ DOMAIN t = 1 .. Len(t) /\ Len(t) \in Nat
  BY <1>2
<1> HIDE DEF u
<1>4. ASSUME NEW x \in Range(u) PROVE x \in Range(t) \cup {e}
  <2>1. PICK i \in 1 .. Len(t) + 1 : x = u[i]
    BY <1>3 DEF Range
  <2>2. i \in 1 .. k \/ i = k + 1 \/ i \in k + 2 .. Len(t) + 1
    BY <1>3
  <2>3. i \in 1 .. k => i \in DOMAIN t /\ x = t[i]
    BY <1>2, <1>3, <2>1
  <2>4. i \in k + 2 .. Len(t) + 1 => i - 1 \in DOMAIN t /\ x = t[i - 1]
    BY <1>2, <1>3, <2>1
  <2> QED BY <1>2, <2>1, <2>2, <2>3, <2>4 DEF Range
<1>5. ASSUME NEW x \in Range(t) \cup {e} PROVE x \in Range(u)
  <2>1. CASE x = e
    <3>1. k + 1 \in DOMAIN u
      BY <1>3
    <3> QED BY <1>2, <2>1, <3>1 DEF Range
  <2>2. CASE x \in Range(t)
    <3>1. PICK i \in 1 .. Len(t) : x = t[i]
      BY <1>3, <2>2 DEF Range
    <3>2. CASE i <= k
      <4>1. i \in 1 .. k /\ i \in DOMAIN u
        BY <1>3, <3>2
      <4> QED BY <1>2, <3>1, <4>1 DEF Range
    <3>3. CASE ~ (i <= k)
      <4>1. i + 1 \in k + 2 .. Len(t) + 1 /\ i + 1 \in DOMAIN u /\ (i + 1) - 1 = i
        BY <1>3, <3>3
      <4> QED BY <1>2, <3>1, <4>1 DEF Range
    <3> QED BY <3>2, <3>3
  <2> QED BY <2>1, <2>2
<1>6. Range(u) = Range(t) \cup {e}
  BY <1>4, <1>5
<1>7. IsInserted(u, t, k, e)
  BY <1>2 DEF IsInserted
<1> QED BY <1>2, <1>6, <1>7 DEF u

\* The function inside Sorted, for every value it is asked for.
Put(t, e, B) == InsertAt(t, Place(t, e, B) + 1, e)

SortedAt(f, s, B, n) == IF n = 0 THEN <<>> ELSE Put(f[n - 1], s[n], B)

IsSorting(f, s, B) == f = [n \in 0 .. Len(s) |-> SortedAt(f, s, B, n)]

LEMMA SortedIsChosen ==
    ASSUME NEW s, NEW B
    PROVE  Sorted(s, B) = (CHOOSE f : IsSorting(f, s, B))[Len(s)]
BY DEF Sorted, IsSorting, SortedAt, Put

LEMMA PutElements ==
    ASSUME NEW X, NEW t \in Seq(X), NEW e \in X, NEW B
    PROVE  /\ Put(t, e, B) \in Seq(X) /\ Len(Put(t, e, B)) = Len(t) + 1
           /\ Range(Put(t, e, B)) = Range(t) \cup {e}
<1>1. Place(t, e, B) \in 0 .. Len(t)
  BY PlaceIsFound
<1> QED BY <1>1, InsertElements DEF Put, IsInserted

LEMMA SortedExists ==
    ASSUME NEW X, NEW s \in Seq(X), NEW B
    PROVE  \E f : IsSorting(f, s, B)
<1> DEFINE step(n, v) == IF n \in 1 .. Len(s) THEN Put(v, s[n], B) ELSE v
           G == [a \in Nat \X Seq(X) |-> step(a[1], a[2])]
<1>1. \A n \in Nat, v \in Seq(X) : step(n, v) \in Seq(X)
  <2> SUFFICES ASSUME NEW n \in 1 .. Len(s), NEW v \in Seq(X) PROVE Put(v, s[n], B) \in Seq(X)
    OBVIOUS
  <2>1. s[n] \in X
    OBVIOUS
  <2> QED BY <2>1, PutElements
<1>2. G \in [Nat \X Seq(X) -> Seq(X)] /\ \A n \in Nat, v \in Seq(X) : G[<<n, v>>] = step(n, v)
  <2> HIDE DEF step
  <2> QED BY <1>1
<1>3. <<>> \in Seq(X) /\ Len(s) \in Nat
  OBVIOUS
<1> HIDE DEF G
<1>4. PICK f : f \in [0 .. Len(s) -> Seq(X)] /\ Recurs(f, <<>>, G, Len(s))
  <2>1. \A n \in Nat, v \in Seq(X) : G[<<n, v>>] \in Seq(X)
    BY <1>1, <1>2
  <2> QED BY <1>3, <2>1, Recursion
<1>5. ASSUME NEW n \in 0 .. Len(s) PROVE f[n] = SortedAt(f, s, B, n)
  <2>1. CASE n = 0
    BY <1>4, <2>1 DEF SortedAt, Recurs
  <2>2. CASE n # 0
    <3>1. n \in 1 .. Len(s) /\ n - 1 \in 0 .. Len(s) /\ n \in Nat
      BY <1>3, <2>2
    <3>2. f[n] = step(n, f[n - 1])
      BY <1>2, <1>4, <3>1 DEF Recurs
    <3> QED BY <2>2, <3>1, <3>2 DEF SortedAt
  <2> QED BY <2>1, <2>2
<1>6. f = [n \in 0 .. Len(s) |-> SortedAt(f, s, B, n)]
  <2>1. f = [n \in 0 .. Len(s) |-> f[n]]
    BY <1>4
  <2> QED BY <1>5, <2>1
<1> QED BY <1>6, Zenon DEF IsSorting

\* Nothing is sorted already, and a list with one more element is sorted by
\* putting it where it belongs in the sorted list.
LEMMA SortedOfNothing == ASSUME NEW B PROVE Sorted(<<>>, B) = <<>>
<1>1. <<>> \in Seq({})
  OBVIOUS
<1>2. PICK f : IsSorting(f, <<>>, B) /\ Sorted(<<>>, B) = f[Len(<<>>)]
  BY <1>1, SortedExists, SortedIsChosen
<1> QED BY <1>2 DEF IsSorting, SortedAt

LEMMA SortedOfMore ==
    ASSUME NEW X, NEW s \in Seq(X), NEW e \in X, NEW B
    PROVE  Sorted(Append(s, e), B) = Put(Sorted(s, B), e, B)
<1> DEFINE t == Append(s, e)
           m == Len(s)
<1>1. /\ t \in Seq(X) /\ Len(t) = m + 1 /\ t[m + 1] = e /\ m \in Nat
      /\ \A n \in 1 .. m : t[n] = s[n]
  OBVIOUS
<1>2. PICK f : IsSorting(f, s, B) /\ Sorted(s, B) = f[m]
  BY SortedExists, SortedIsChosen
<1> HIDE DEF t, m
<1>3. PICK g : IsSorting(g, t, B) /\ Sorted(t, B) = g[m + 1]
  BY <1>1, SortedExists, SortedIsChosen
<1>4. \A n \in 0 .. m : f[n] = SortedAt(f, s, B, n)
  BY <1>2, Zenon DEF IsSorting, m
<1>5. \A n \in 0 .. m + 1 : g[n] = SortedAt(g, t, B, n)
  <2>1. \A n \in 0 .. Len(t) : g[n] = SortedAt(g, t, B, n)
    BY <1>3, Zenon DEF IsSorting
  <2> QED BY <1>1, <2>1
<1> DEFINE T == {n \in Nat : n <= m => f[n] = g[n]}
<1>6. 0 \in T
  BY <1>1, <1>4, <1>5 DEF SortedAt
<1>7. ASSUME NEW n \in Nat, n \in T PROVE n + 1 \in T
  <2> SUFFICES ASSUME n + 1 <= m PROVE f[n + 1] = g[n + 1]
    OBVIOUS
  <2>1. /\ n + 1 \in 1 .. m /\ n + 1 \in 0 .. m + 1 /\ n + 1 # 0
        /\ (n + 1) - 1 = n /\ f[n] = g[n]
    BY <1>1, <1>7
  <2>2. s[n + 1] = t[n + 1]
    BY <1>1, <2>1
  <2>3. SortedAt(f, s, B, n + 1) = SortedAt(g, t, B, n + 1)
    BY <2>1, <2>2 DEF SortedAt
  <2> QED BY <1>4, <1>5, <2>1, <2>3
<1>8. Nat \subseteq T
  <2> HIDE DEF T
  <2> QED BY <1>6, <1>7, Induction
<1>9. f[m] = g[m]
  BY <1>1, <1>8
<1>10. g[m + 1] = Put(g[m], e, B)
  <2>1. m + 1 \in 0 .. m + 1 /\ m + 1 # 0 /\ (m + 1) - 1 = m
    BY <1>1
  <2> QED BY <1>1, <1>5, <2>1 DEF SortedAt
<1> QED BY <1>2, <1>3, <1>9, <1>10 DEF t

\* Sorted loses nothing, adds nothing, ...
LEMMA SortedElements ==
    ASSUME NEW X, NEW s \in Seq(X), NEW B
    PROVE  /\ Sorted(s, B) \in Seq(X)
           /\ Len(Sorted(s, B)) = Len(s)
           /\ Range(Sorted(s, B)) = Range(s)
<1> DEFINE P(u) == /\ Sorted(u, B) \in Seq(X)
                   /\ Len(Sorted(u, B)) = Len(u)
                   /\ Range(Sorted(u, B)) = Range(u)
           T == {u \in Seq(X) : P(u)}
<1>1. <<>> \in T
  <2>1. <<>> \in Seq(X)
    OBVIOUS
  <2>2. Sorted(<<>>, B) = <<>>
    BY SortedOfNothing
  <2> QED BY <2>1, <2>2, Zenon
<1>2. ASSUME NEW u \in Seq(X), NEW e \in X, u \in T PROVE Append(u, e) \in T
  <2> DEFINE v == Append(u, e)
             k == Sorted(u, B)
  <2>1. Sorted(v, B) = Put(k, e, B)
    BY SortedOfMore
  <2>2. k \in Seq(X) /\ Len(k) = Len(u) /\ Range(k) = Range(u)
    BY <1>2
  <2>3. v \in Seq(X) /\ Len(v) = Len(u) + 1 /\ Range(v) = Range(u) \cup {e}
    BY AppendElements
  <2> HIDE DEF k, v
  <2>4. Put(k, e, B) \in Seq(X) /\ Len(Put(k, e, B)) = Len(k) + 1 /\ Range(Put(k, e, B)) = Range(k) \cup {e}
    BY <2>2, PutElements
  <2>5. P(v)
    BY <2>1, <2>2, <2>3, <2>4
  <2> QED BY <2>3, <2>5 DEF v
<1>3. Seq(X) \subseteq T
  <2> HIDE DEF T
  <2> QED BY <1>1, <1>2, ListInduction
<1> QED BY <1>3

\* ... and puts no element before one that should come before it.
IsOrder(B, X) ==
    /\ \A x \in X : <<x, x>> \notin B
    /\ \A x, y, z \in X : <<x, y>> \in B /\ <<y, z>> \in B => <<x, z>> \in B

InOrder(t, B) == \A i, j \in 1 .. Len(t) : i < j => <<t[j], t[i]>> \notin B

LEMMA PutKeepsOrder ==
    ASSUME NEW X, NEW t \in Seq(X), NEW e \in X, NEW B, IsOrder(B, X), InOrder(t, B)
    PROVE  InOrder(Put(t, e, B), B)
<1> DEFINE k == Place(t, e, B)
           u == Put(t, e, B)
<1>1. /\ k \in 0 .. Len(t)
      /\ \A i \in 1 .. k : <<e, t[i]>> \notin B
      /\ k < Len(t) => <<e, t[k + 1]>> \in B
  BY PlaceIsFound
<1>2. IsInserted(u, t, k, e)
  <2>1. k \in 0 .. Len(t)
    BY <1>1
  <2> HIDE DEF k
  <2>2. IsInserted(InsertAt(t, k + 1, e), t, k, e)
    BY <2>1, InsertElements
  <2> QED BY <2>2 DEF Put, k
<1> HIDE DEF k, u
<1>3. /\ Len(u) = Len(t) + 1
      /\ \A i \in 1 .. k : u[i] = t[i]
      /\ u[k + 1] = e
      /\ \A i \in k + 2 .. Len(t) + 1 : u[i] = t[i - 1]
  BY <1>2 DEF IsInserted
<1>4. Len(t) \in Nat /\ \A i \in 1 .. Len(t) : t[i] \in X
  OBVIOUS
<1>5. ASSUME NEW l \in k + 1 .. Len(t) PROVE <<t[l], e>> \notin B
  <2>1. k + 1 \in 1 .. Len(t) /\ l \in 1 .. Len(t) /\ k < Len(t)
    BY <1>1, <1>4
  <2>2. <<e, t[k + 1]>> \in B
    BY <1>1, <2>1
  <2>3. <<t[l], t[k + 1]>> \notin B
    <3>1. CASE l = k + 1
      BY <1>4, <2>1, <3>1 DEF IsOrder
    <3>2. CASE l # k + 1
      BY <2>1, <3>2, <1>1 DEF InOrder
    <3> QED BY <3>1, <3>2
  <2> QED BY <1>4, <2>1, <2>2, <2>3 DEF IsOrder
<1>6. ASSUME NEW i \in 1 .. Len(u), NEW j \in 1 .. Len(u), i < j PROVE <<u[j], u[i]>> \notin B
  <2>1. CASE j <= k
    <3>1. u[i] = t[i] /\ u[j] = t[j] /\ i \in 1 .. Len(t) /\ j \in 1 .. Len(t)
      BY <1>1, <1>3, <1>4, <1>6, <2>1
    <3> QED BY <1>6, <3>1 DEF InOrder
  <2>2. CASE j = k + 1
    <3>1. u[i] = t[i] /\ u[j] = e /\ i \in 1 .. k
      BY <1>1, <1>3, <1>4, <1>6, <2>2
    <3> QED BY <1>1, <3>1
  <2>3. CASE j > k + 1
    <3>1. u[j] = t[j - 1] /\ j - 1 \in k + 1 .. Len(t) /\ j - 1 \in 1 .. Len(t)
      BY <1>1, <1>3, <1>4, <2>3
    <3>2. CASE i <= k
      <4>1. u[i] = t[i] /\ i \in 1 .. Len(t) /\ i < j - 1
        BY <1>1, <1>3, <1>4, <2>3, <3>2
      <4> QED BY <3>1, <4>1 DEF InOrder
    <3>3. CASE i = k + 1
      BY <1>3, <1>5, <3>1, <3>3
    <3>4. CASE i > k + 1
      <4>1. u[i] = t[i - 1] /\ i - 1 \in 1 .. Len(t) /\ i - 1 < j - 1
        BY <1>1, <1>3, <1>4, <1>6, <3>4
      <4> QED BY <3>1, <4>1 DEF InOrder
    <3> QED BY <1>1, <3>2, <3>3, <3>4
  <2> QED BY <1>1, <2>1, <2>2, <2>3
<1> QED BY <1>6 DEF InOrder, u

LEMMA SortedOrder ==
    ASSUME NEW X, NEW s \in Seq(X), NEW B, IsOrder(B, X)
    PROVE  InOrder(Sorted(s, B), B)
<1> DEFINE T == {u \in Seq(X) : InOrder(Sorted(u, B), B)}
<1>1. <<>> \in T
  <2>1. <<>> \in Seq(X) /\ InOrder(<<>>, B)
    BY DEF InOrder
  <2> QED BY <2>1, SortedOfNothing
<1>2. ASSUME NEW u \in Seq(X), NEW e \in X, u \in T PROVE Append(u, e) \in T
  <2>1. Sorted(u, B) \in Seq(X) /\ InOrder(Sorted(u, B), B)
    BY <1>2, SortedElements
  <2>2. InOrder(Put(Sorted(u, B), e, B), B)
    BY <2>1, PutKeepsOrder
  <2> QED BY <2>2, SortedOfMore, AppendElements
<1>3. Seq(X) \subseteq T
  <2> HIDE DEF T
  <2> QED BY <1>1, <1>2, ListInduction
<1> QED BY <1>3
-----------------------------------------------------------------------------
\* The lists of a list of lists, one after the other.
FlattenAt(f, ss, n) == IF n = 1 THEN ss[n] ELSE f[n - 1] \o ss[n]

IsFlattening(f, ss) == f = [n \in 1 .. Len(ss) |-> FlattenAt(f, ss, n)]

LEMMA FlattenIsChosen ==
    ASSUME NEW ss
    PROVE  FlattenSeq(ss) = IF Len(ss) = 0 THEN ss ELSE (CHOOSE f : IsFlattening(f, ss))[Len(ss)]
BY DEF FlattenSeq, IsFlattening, FlattenAt

LEMMA FlattenExists ==
    ASSUME NEW X, NEW ss \in Seq(Seq(X))
    PROVE  \E f : IsFlattening(f, ss)
<1> DEFINE N == Len(ss)
           step(n, v) == IF n \in 1 .. N THEN v \o ss[n] ELSE v
           G == [a \in Nat \X Seq(X) |-> step(a[1], a[2])]
<1>1. N \in Nat /\ <<>> \in Seq(X) /\ \A n \in 1 .. N : ss[n] \in Seq(X)
  OBVIOUS
<1>2. \A n \in Nat, v \in Seq(X) : step(n, v) \in Seq(X)
  <2> SUFFICES ASSUME NEW n \in 1 .. N, NEW v \in Seq(X) PROVE v \o ss[n] \in Seq(X)
    OBVIOUS
  <2>1. ss[n] \in Seq(X)
    BY <1>1
  <2> QED BY <2>1
<1>3. G \in [Nat \X Seq(X) -> Seq(X)] /\ \A n \in Nat, v \in Seq(X) : G[<<n, v>>] = step(n, v)
  <2> HIDE DEF step
  <2> QED BY <1>2
<1> HIDE DEF G, N
<1>4. PICK g : g \in [0 .. N -> Seq(X)] /\ Recurs(g, <<>>, G, N)
  <2>1. \A n \in Nat, v \in Seq(X) : G[<<n, v>>] \in Seq(X)
    BY <1>2, <1>3
  <2> QED BY <1>1, <2>1, Recursion
<1> DEFINE f == [n \in 1 .. N |-> g[n]]
<1>5. ASSUME NEW n \in 1 .. N PROVE g[n] = FlattenAt(f, ss, n)
  <2>1. n \in Nat /\ n - 1 \in 0 .. N /\ g[n - 1] \in Seq(X)
    BY <1>1, <1>4
  <2>2. g[n] = g[n - 1] \o ss[n]
    BY <1>3, <1>4, <2>1 DEF Recurs
  <2>3. CASE n = 1
    <3>1. g[n - 1] = <<>> /\ ss[n] \in Seq(X)
      BY <1>1, <1>4, <2>3 DEF Recurs
    <3> QED BY <2>2, <2>3, <3>1 DEF FlattenAt
  <2>4. CASE n # 1
    <3>1. n - 1 \in 1 .. N
      BY <1>1, <2>4
    <3> QED BY <2>2, <2>4, <3>1 DEF FlattenAt
  <2> QED BY <2>3, <2>4
<1>6. f = [n \in 1 .. N |-> FlattenAt(f, ss, n)]
  <2>1. \A n \in 1 .. N : f[n] = FlattenAt(f, ss, n)
    BY <1>5
  <2>2. f = [n \in 1 .. N |-> f[n]]
    OBVIOUS
  <2> HIDE DEF f
  <2> QED BY <2>1, <2>2
<1> HIDE DEF f
<1> QED BY <1>6, Zenon DEF IsFlattening, N

LEMMA JoinedElements ==
    ASSUME NEW X, NEW b \in Seq(X), NEW c \in Seq(X), NEW u, u = b \o c
    PROVE  u \in Seq(X) /\ Range(u) = Range(b) \cup Range(c)
<1>1. /\ u \in Seq(X) /\ Len(u) = Len(b) + Len(c)
      /\ \A i \in 1 .. Len(b) : u[i] = b[i]
      /\ \A i \in 1 .. Len(c) : u[Len(b) + i] = c[i]
  BY JoinedLists
<1>2. /\ DOMAIN u = 1 .. Len(b) + Len(c)
      /\ DOMAIN b = 1 .. Len(b) /\ DOMAIN c = 1 .. Len(c) /\ Len(b) \in Nat /\ Len(c) \in Nat
  BY <1>1
<1>3. ASSUME NEW x \in Range(u) PROVE x \in Range(b) \cup Range(c)
  <2>1. PICK i \in 1 .. Len(b) + Len(c) : x = u[i]
    BY <1>2 DEF Range
  <2>2. CASE i <= Len(b)
    <3>1. i \in DOMAIN b /\ x = b[i]
      BY <1>1, <1>2, <2>1, <2>2
    <3> QED BY <3>1 DEF Range
  <2>3. CASE ~ (i <= Len(b))
    <3>1. i - Len(b) \in 1 .. Len(c) /\ Len(b) + (i - Len(b)) = i
      BY <1>2, <2>3
    <3>2. i - Len(b) \in DOMAIN c /\ x = c[i - Len(b)]
      BY <1>1, <1>2, <2>1, <3>1
    <3> QED BY <3>2 DEF Range
  <2> QED BY <2>2, <2>3
<1>4. ASSUME NEW x \in Range(b) PROVE x \in Range(u)
  <2>1. PICK i \in 1 .. Len(b) : x = b[i]
    BY <1>2 DEF Range
  <2>2. i \in DOMAIN u /\ x = u[i]
    BY <1>1, <1>2, <2>1
  <2> QED BY <2>2 DEF Range
<1>5. ASSUME NEW x \in Range(c) PROVE x \in Range(u)
  <2>1. PICK i \in 1 .. Len(c) : x = c[i]
    BY <1>2 DEF Range
  <2>2. Len(b) + i \in DOMAIN u /\ x = u[Len(b) + i]
    BY <1>1, <1>2, <2>1
  <2> QED BY <2>2 DEF Range
<1> QED BY <1>1, <1>3, <1>4, <1>5

LEMMA FlattenElements ==
    ASSUME NEW X, NEW ss \in Seq(Seq(X))
    PROVE  /\ FlattenSeq(ss) \in Seq(X)
           /\ Range(FlattenSeq(ss)) = UNION {Range(ss[i]) : i \in DOMAIN ss}
<1> DEFINE N == Len(ss)
           All(n) == UNION {Range(ss[i]) : i \in 1 .. n}
<1>1. N \in Nat /\ DOMAIN ss = 1 .. N /\ \A n \in 1 .. N : ss[n] \in Seq(X)
  OBVIOUS
<1>2. CASE N = 0
  <2>1. FlattenSeq(ss) = ss /\ ss = <<>>
    BY <1>2, FlattenIsChosen
  <2>2. <<>> \in Seq(X) /\ Range(<<>>) = {} /\ DOMAIN ss = {}
    BY <1>1, <1>2 DEF Range
  <2> QED BY <2>1, <2>2
<1>3. CASE N # 0
  <2>1. PICK f : IsFlattening(f, ss) /\ FlattenSeq(ss) = f[N]
    BY <1>3, FlattenExists, FlattenIsChosen
  <2>2. \A n \in 1 .. N : f[n] = FlattenAt(f, ss, n)
    BY <2>1, Zenon DEF IsFlattening
  <2> DEFINE Good(n) == f[n] \in Seq(X) /\ Range(f[n]) = All(n)
             T == {n \in Nat : n \in 1 .. N => Good(n)}
  <2>3. 0 \in T
    OBVIOUS
  <2>4. ASSUME NEW n \in Nat, n \in T PROVE n + 1 \in T
    <3> SUFFICES ASSUME n + 1 \in 1 .. N PROVE Good(n + 1)
      OBVIOUS
    <3> DEFINE c == ss[n + 1]
    <3>1. c \in Seq(X) /\ f[n + 1] = FlattenAt(f, ss, n + 1)
      BY <1>1, <2>2
    <3>2. CASE n = 0
      <4>1. f[n + 1] = c
        BY <3>1, <3>2 DEF FlattenAt
      <4>2. All(n + 1) = Range(c)
        <5>1. 1 .. n + 1 = {n + 1}
          BY <3>2
        <5> QED BY <5>1, Zenon
      <4> QED BY <3>1, <4>1, <4>2
    <3>3. CASE n # 0
      <4> DEFINE b == f[n]
      <4>1. n \in 1 .. N /\ n + 1 # 1 /\ (n + 1) - 1 = n
        BY <1>1, <3>3
      <4>2. f[n + 1] = b \o c /\ b \in Seq(X) /\ Range(b) = All(n)
        <5>1. f[n + 1] = f[(n + 1) - 1] \o c
          BY <3>1, <4>1 DEF FlattenAt
        <5>2. Good(n)
          BY <2>4, <4>1
        <5> QED BY <4>1, <5>1, <5>2
      <4>3. All(n + 1) = All(n) \cup Range(c)
        <5>1. 1 .. n + 1 = (1 .. n) \cup {n + 1}
          OBVIOUS
        <5> QED BY <5>1, Zenon
      <4> DEFINE u == f[n + 1]
      <4> HIDE DEF b, c, u, All
      <4>4. u = b \o c
        BY <4>2 DEF u
      <4>5. u \in Seq(X) /\ Range(u) = Range(b) \cup Range(c)
        <5>1. b \in Seq(X) /\ c \in Seq(X)
          BY <3>1, <4>2
        <5>2. \A d, e \in Seq(X) : \A v : v = d \o e => v \in Seq(X) /\ Range(v) = Range(d) \cup Range(e)
          BY JoinedElements
        <5> QED BY <4>4, <5>1, <5>2
      <4> QED BY <4>2, <4>3, <4>5 DEF u
    <3> QED BY <3>2, <3>3
  <2>5. Nat \subseteq T
    <3> HIDE DEF T
    <3> QED BY <2>3, <2>4, Induction
  <2>6. Good(N)
    <3>1. N \in Nat /\ N \in 1 .. N
      BY <1>1, <1>3
    <3> HIDE DEF N, Good
    <3> QED BY <2>5, <3>1
  <2> QED BY <1>1, <2>1, <2>6
<1> QED BY <1>2, <1>3
-----------------------------------------------------------------------------
\* The sum of numbers is a number.
TotalAt(f, s, n) == IF n = 0 THEN 0 ELSE f[n - 1] + s[n]

IsTotalling(f, s) == f = [n \in 0 .. Len(s) |-> TotalAt(f, s, n)]

LEMMA TotalIsChosen ==
    ASSUME NEW s
    PROVE  Total(s) = (CHOOSE f : IsTotalling(f, s))[Len(s)]
BY DEF Total, IsTotalling, TotalAt

LEMMA TotalIsNumber ==
    ASSUME NEW s \in Seq(Nat)
    PROVE  Total(s) \in Nat
<1> DEFINE N == Len(s)
           step(n, v) == IF n \in 1 .. N THEN v + s[n] ELSE v
           G == [a \in Nat \X Nat |-> step(a[1], a[2])]
<1>1. N \in Nat /\ \A n \in 1 .. N : s[n] \in Nat
  OBVIOUS
<1>2. \A n \in Nat, v \in Nat : step(n, v) \in Nat
  BY <1>1
<1>3. G \in [Nat \X Nat -> Nat] /\ \A n \in Nat, v \in Nat : G[<<n, v>>] = step(n, v)
  <2> HIDE DEF step
  <2> QED BY <1>2
<1> HIDE DEF G, N
<1>4. PICK g : g \in [0 .. N -> Nat] /\ Recurs(g, 0, G, N)
  <2>1. \A n \in Nat, v \in Nat : G[<<n, v>>] \in Nat
    BY <1>2, <1>3
  <2> QED BY <1>1, <2>1, Recursion
<1>5. ASSUME NEW n \in 0 .. N PROVE g[n] = TotalAt(g, s, n)
  <2>1. CASE n = 0
    BY <1>4, <2>1 DEF TotalAt, Recurs
  <2>2. CASE n # 0
    <3>1. n \in 1 .. N /\ n \in Nat /\ n - 1 \in 0 .. N
      BY <1>1, <2>2
    <3>2. g[n] = G[<<n, g[n - 1]>>] /\ g[n - 1] \in Nat
      BY <1>4, <3>1 DEF Recurs
    <3> QED BY <1>3, <2>2, <3>1, <3>2 DEF TotalAt
  <2> QED BY <2>1, <2>2
<1>6. g = [n \in 0 .. N |-> TotalAt(g, s, n)]
  <2>1. g = [n \in 0 .. N |-> g[n]]
    BY <1>4
  <2> QED BY <1>5, <2>1
<1>7. PICK f : IsTotalling(f, s) /\ Total(s) = f[N]
  <2>1. IsTotalling(g, s)
    BY <1>6, Zenon DEF IsTotalling, N
  <2> QED BY <2>1, TotalIsChosen DEF N
<1>8. \A n \in 0 .. N : f[n] = TotalAt(f, s, n)
  BY <1>7, Zenon DEF IsTotalling, N
<1> DEFINE T == {n \in Nat : n <= N => f[n] \in Nat}
<1>9. 0 \in T
  BY <1>1, <1>8 DEF TotalAt
<1>10. ASSUME NEW n \in Nat, n \in T PROVE n + 1 \in T
  <2> SUFFICES ASSUME n + 1 <= N PROVE f[n + 1] \in Nat
    OBVIOUS
  <2>1. n + 1 \in 0 .. N /\ n + 1 \in 1 .. N /\ n + 1 # 0 /\ (n + 1) - 1 = n /\ f[n] \in Nat
    BY <1>1, <1>10
  <2>2. f[n + 1] = f[n] + s[n + 1]
    BY <1>8, <2>1 DEF TotalAt
  <2> QED BY <1>1, <2>1, <2>2
<1>11. Nat \subseteq T
  <2> HIDE DEF T
  <2> QED BY <1>9, <1>10, Induction
<1> QED BY <1>1, <1>7, <1>11
=============================================================================
