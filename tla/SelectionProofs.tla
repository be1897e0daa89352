--------------------------- MODULE SelectionProofs ---------------------------
(* Induction over an initial segment of the naturals, and from it what       *)
(* module Selection's operator returns for sequences of any length.          *)
EXTENDS Selection, FiniteSetTheorems, TLAPS

LEMMA Least ==
  ASSUME NEW n \in Nat, NEW T \in SUBSET (0..n), T # {}
  PROVE  \E k \in T : \A j \in T : k <= j
<1> DEFINE U == {0..k : k \in T}
<1>1. IsFiniteSet(0..n)
  BY FS_Interval
<1>2. FiniteSubsetsOf(0..n) = SUBSET (0..n)
  BY <1>1, FS_FiniteSubsetsOfFinite
<1>3. IsWellFoundedOn(StrictSubsetOrdering(0..n), SUBSET (0..n))
  BY <1>2, FS_StrictSubsetOrderingWellFounded
<1>4. U \subseteq SUBSET (0..n) /\ U # {}
  <2>1. \A k \in T : k \in Nat /\ k <= n /\ 0..k \subseteq 0..n
    OBVIOUS
  <2> QED
    BY <2>1
<1>5. PICK u \in U : \A v \in U : <<v, u>> \notin StrictSubsetOrdering(0..n)
  BY <1>3, <1>4, WFMin
<1>6. PICK k \in T : u = 0..k
  BY <1>5
<1>7. ASSUME NEW j \in T, j < k PROVE FALSE
  <2>1. 0..j \subseteq 0..k /\ 0..j # 0..k /\ 0..j \in U
    BY <1>7
  <2> QED
    BY <1>4, <1>5, <1>6, <2>1 DEF StrictSubsetOrdering
<1> QED
  BY <1>7

\* Induction: a set that has 0, and of each number below n the next, has all up
\* to n.
LEMMA UpTo ==
  ASSUME NEW n \in Nat, NEW T, 0 \in T, \A i \in 0..n : i < n /\ i \in T => i + 1 \in T
  PROVE  0..n \subseteq T
<1> SUFFICES ASSUME ~(0..n \subseteq T) PROVE FALSE
  OBVIOUS
<1>1. PICK k \in 0..n \ T : \A j \in 0..n \ T : k <= j
  <2> DEFINE M == (0..n) \ T
  <2> M \in SUBSET (0..n) /\ M # {}
    OBVIOUS
  <2> QED BY Least
<1>2. k - 1 \in 0..n /\ k - 1 \in T
  BY <1>1
<1> QED
  BY <1>1, <1>2

------------------------------------------------------------------------------
\* One round of the recursion, and a function of which all are rounds.
Round(f, s, T, n) ==
  IF n = 0 THEN <<>> ELSE IF s[n] \in T THEN Append(f[n - 1], s[n]) ELSE f[n - 1]
Keeps(f, s, T, n) == f = [i \in 0..n |-> Round(f, s, T, i)]

LEMMA KeepsExists ==
  ASSUME NEW S, NEW s \in Seq(S), NEW T
  PROVE  \E f : Keeps(f, s, T, Len(s))
<1> DEFINE K == {n \in 0..Len(s) : \E f : Keeps(f, s, T, n)}
<1>1. 0 \in K
  <2>1. Keeps([i \in 0..0 |-> <<>>], s, T, 0)
    BY DEF Keeps, Round
  <2> QED
    BY <2>1
<1>2. ASSUME NEW n \in 0..Len(s), n < Len(s), n \in K PROVE n + 1 \in K
  <2>1. PICK f : Keeps(f, s, T, n)
    BY <1>2
  <2> DEFINE g == [i \in 0..n + 1 |-> IF i = n + 1 THEN Round(f, s, T, n + 1) ELSE f[i]]
  <2>2. \A i \in 0..n : g[i] = f[i]
    OBVIOUS
  <2>3. \A i \in 0..n + 1 : Round(g, s, T, i) = Round(f, s, T, i)
    BY <2>2 DEF Round
  <2>4. \A i \in 0..n : f[i] = Round(f, s, T, i)
    BY <2>1 DEF Keeps
  <2>5. \A i \in 0..n + 1 : g[i] = Round(g, s, T, i)
    BY <2>2, <2>3, <2>4
  <2>6. Keeps(g, s, T, n + 1)
    <3> HIDE DEF g
    <3> QED
      <4>1. g = [i \in 0..n + 1 |-> g[i]]
        BY DEF g
      <4> QED
        BY <2>5, <4>1 DEF Keeps
  <2> QED
    BY <1>2, <2>6
<1>3. 0..Len(s) \subseteq K
  <2> HIDE DEF K
  <2> QED
    BY <1>1, <1>2, UpTo
<1>4. Len(s) \in 0..Len(s)
  OBVIOUS
<1> QED
  BY <1>3, <1>4

LEMMA SelectedKeeps ==
  ASSUME NEW S, NEW s \in Seq(S), NEW T
  PROVE  \E f : Keeps(f, s, T, Len(s)) /\ Selected(s, T) = f[Len(s)]
<1> DEFINE f == CHOOSE g : Keeps(g, s, T, Len(s))
<1>1. Keeps(f, s, T, Len(s))
  BY KeepsExists
<1>2. Selected(s, T) = f[Len(s)]
  BY DEF Selected, Keeps, Round
<1> QED
  BY <1>1, <1>2

\* Two sequences that begin alike, and two sets that tell no element of the
\* beginning apart, keep the same of it.
Alike(f, s, T, n, g, t, U, l) ==
  /\ n \in Nat /\ l \in 0..n /\ Keeps(f, s, T, n) /\ Keeps(g, t, U, l)
  /\ \A i \in 1..l : s[i] = t[i] /\ (s[i] \in T <=> t[i] \in U)
LEMMA KeepsUnique ==
  ASSUME NEW f, NEW s, NEW T, NEW n, NEW g, NEW t, NEW U, NEW l, Alike(f, s, T, n, g, t, U, l)
  PROVE  f[l] = g[l]
<1> DEFINE K == {i \in 0..l : f[i] = g[i]}
<1>0. n \in Nat /\ l \in Nat /\ l <= n /\ \A i \in 1..l : s[i] = t[i] /\ (s[i] \in T <=> t[i] \in U)
  BY DEF Alike
<1>1. (\A i \in 0..l : f[i] = Round(f, s, T, i)) /\ (\A i \in 0..l : g[i] = Round(g, t, U, i))
  BY <1>0 DEF Keeps, Alike
<1>2. 0 \in K
  BY <1>0, <1>1 DEF Round
<1>3. ASSUME NEW i \in 0..l, i < l, i \in K PROVE i + 1 \in K
  <2>1. i + 1 \in 1..l /\ (i + 1) - 1 = i
    BY <1>0, <1>3
  <2>2. Round(f, s, T, i + 1) = Round(g, t, U, i + 1)
    BY <1>0, <1>3, <2>1 DEF Round
  <2> QED
    BY <1>0, <1>1, <2>1, <2>2
<1>4. 0..l \subseteq K
  <2> HIDE DEF K
  <2> QED
    BY <1>0, <1>2, <1>3, UpTo
<1>5. l \in 0..l
  BY <1>0
<1> QED
  BY <1>4, <1>5

------------------------------------------------------------------------------
LEMMA SelectedEmpty == \A T : Selected(<<>>, T) = <<>>
<1> SUFFICES ASSUME NEW T PROVE Selected(<<>>, T) = <<>>
  OBVIOUS
<1>1. PICK f : Keeps(f, <<>>, T, 0) /\ Selected(<<>>, T) = f[0]
  <2>1. <<>> \in Seq({}) /\ Len(<<>>) = 0
    OBVIOUS
  <2> QED
    BY <2>1, SelectedKeeps
<1> QED
  BY <1>1 DEF Keeps, Round

\* Only which elements of the sequence are in the set matters.
LEMMA SelectedSame ==
  ASSUME NEW S, NEW s \in Seq(S), NEW T, NEW U, \A i \in DOMAIN s : s[i] \in T <=> s[i] \in U
  PROVE  Selected(s, T) = Selected(s, U)
<1>1. PICK f : Keeps(f, s, T, Len(s)) /\ Selected(s, T) = f[Len(s)]
  BY SelectedKeeps
<1>2. PICK g : Keeps(g, s, U, Len(s)) /\ Selected(s, U) = g[Len(s)]
  BY SelectedKeeps
<1>3. Len(s) \in Nat /\ Len(s) \in 0..Len(s) /\ DOMAIN s = 1..Len(s)
  OBVIOUS
<1>4. Alike(f, s, T, Len(s), g, s, U, Len(s))
  BY <1>1, <1>2, <1>3 DEF Alike
<1>5. f[Len(s)] = g[Len(s)]
  BY <1>4, KeepsUnique
<1> QED
  BY <1>1, <1>2, <1>5

\* One more element is selected if it is in the set.
LEMMA SelectedAppend ==
  ASSUME NEW S, NEW s \in Seq(S), NEW x \in S, NEW T
  PROVE  Selected(Append(s, x), T) =
           IF x \in T THEN Append(Selected(s, T), x) ELSE Selected(s, T)
<1> DEFINE t == Append(s, x)
           n == Len(s)
<1>1. /\ t \in Seq(S) /\ Len(t) = n + 1 /\ n \in Nat /\ n \in 0..n + 1
      /\ t[n + 1] = x /\ \A i \in 1..n : t[i] = s[i]
  OBVIOUS
<1> HIDE DEF t
<1>2. PICK f : Keeps(f, t, T, n + 1) /\ Selected(t, T) = f[n + 1]
  BY <1>1, SelectedKeeps
<1>3. PICK g : Keeps(g, s, T, n) /\ Selected(s, T) = g[n]
  BY SelectedKeeps
<1>4. f[n] = g[n]
  <2>1. \A i \in 1..n : t[i] = s[i] /\ (t[i] \in T <=> s[i] \in T)
    BY <1>1
  <2>2. n + 1 \in Nat
    BY <1>1
  <2>3. Alike(f, t, T, n + 1, g, s, T, n)
    BY <1>1, <1>2, <1>3, <2>1, <2>2 DEF Alike
  <2> QED
    BY <2>3, KeepsUnique
<1>5. f[n + 1] = Round(f, t, T, n + 1)
  BY <1>1, <1>2 DEF Keeps
<1> QED
  BY <1>1, <1>2, <1>3, <1>4, <1>5 DEF Round, t

\* What is selected is a sequence of elements of the set.
LEMMA SelectedType ==
  ASSUME NEW S, NEW s \in Seq(S), NEW T
  PROVE  Selected(s, T) \in Seq(S \cap T)
<1>1. PICK f : Keeps(f, s, T, Len(s)) /\ Selected(s, T) = f[Len(s)]
  BY SelectedKeeps
<1> DEFINE K == {n \in 0..Len(s) : f[n] \in Seq(S \cap T)}
<1>2. \A i \in 0..Len(s) : f[i] = Round(f, s, T, i)
  BY <1>1 DEF Keeps
<1>3. 0 \in K
  <2>1. Len(s) \in Nat /\ 0 \in 0..Len(s)
    OBVIOUS
  <2>2. f[0] = <<>>
    BY <1>2, <2>1 DEF Round
  <2>3. \A R : <<>> \in Seq(R)
    OBVIOUS
  <2>4. f[0] \in Seq(S \cap T)
    BY <2>2, <2>3
  <2> QED
    BY <2>1, <2>4
<1>4. ASSUME NEW n \in 0..Len(s), n < Len(s), n \in K PROVE n + 1 \in K
  <2>1. n + 1 \in 0..Len(s) /\ (n + 1) - 1 = n /\ n + 1 # 0 /\ s[n + 1] \in S
    BY <1>4
  <2>2. f[n + 1] = IF s[n + 1] \in T THEN Append(f[n], s[n + 1]) ELSE f[n]
    BY <1>2, <2>1 DEF Round
  <2>3. ASSUME s[n + 1] \in T PROVE Append(f[n], s[n + 1]) \in Seq(S \cap T)
    <3>1. s[n + 1] \in S \cap T
      BY <2>1, <2>3
    <3> HIDE <2>3
    <3> QED
      BY <1>4, <3>1
  <2> QED
    BY <1>4, <2>1, <2>2, <2>3
<1>5. 0..Len(s) \subseteq K
  <2> HIDE DEF K
  <2> QED
    BY <1>3, <1>4, UpTo
<1>6. Len(s) \in 0..Len(s)
  OBVIOUS
<1> QED
  BY <1>1, <1>5, <1>6
\* The first n elements of a sequence.
Beginning(s, n) == [i \in 1..n |-> s[i]]

LEMMA BeginningGrows ==
  \A S : \A s \in Seq(S) :
    /\ Beginning(s, 0) = <<>> /\ Beginning(s, Len(s)) = s
    /\ \A n \in 0..Len(s) : Beginning(s, n) \in Seq(S)
    /\ \A n \in 0..Len(s) : n < Len(s) =>
         s[n + 1] \in S /\ Beginning(s, n + 1) = Append(Beginning(s, n), s[n + 1])
<1> SUFFICES ASSUME NEW S, NEW s \in Seq(S)
             PROVE  /\ Beginning(s, 0) = <<>> /\ Beginning(s, Len(s)) = s
                    /\ \A n \in 0..Len(s) : Beginning(s, n) \in Seq(S)
                    /\ \A n \in 0..Len(s) : n < Len(s) =>
                         s[n + 1] \in S /\ Beginning(s, n + 1) = Append(Beginning(s, n), s[n + 1])
  OBVIOUS
<1> DEFINE m == Len(s)
           b(n) == Beginning(s, n)
<1>1. m \in Nat /\ 0 \in 0..m /\ m \in 0..m /\ \A i \in 1..m : s[i] \in S
  OBVIOUS
<1>2. \A n \in 0..m : b(n) = [i \in 1..n |-> s[i]]
  BY DEF Beginning
<1>3. ASSUME NEW n \in 0..m PROVE b(n) \in Seq(S) /\ Len(b(n)) = n
  <2>1. \A i \in 1..n : s[i] \in S
    BY <1>1
  <2> QED
    BY <1>2, <2>1
<1>4. b(0) = <<>>
  <2>1. Len(b(0)) = 0 /\ b(0) \in Seq(S)
    BY <1>1, <1>3
  <2> QED
    BY <2>1
<1>5. b(m) = s
  <2>1. Len(b(m)) = Len(s) /\ b(m) \in Seq(S) /\ \A i \in 1..m : b(m)[i] = s[i]
    BY <1>1, <1>2, <1>3
  <2> HIDE DEF b
  <2> QED
    BY <2>1
<1>6. ASSUME NEW n \in 0..m, n < m PROVE s[n + 1] \in S /\ b(n + 1) = Append(b(n), s[n + 1])
  <2>1. n + 1 \in 0..m /\ n + 1 \in 1..m /\ s[n + 1] \in S
    BY <1>1, <1>6
  <2>2. b(n) \in Seq(S) /\ Len(b(n)) = n /\ b(n + 1) \in Seq(S) /\ Len(b(n + 1)) = n + 1
    BY <1>3, <2>1
  <2>3. /\ \A i \in 1..n : b(n)[i] = s[i]
        /\ \A i \in 1..n + 1 : b(n + 1)[i] = s[i]
    BY <1>2, <2>1
  <2> HIDE DEF b, m
  <2>4. /\ Append(b(n), s[n + 1]) \in Seq(S) /\ Len(Append(b(n), s[n + 1])) = n + 1
        /\ \A i \in 1..n + 1 : Append(b(n), s[n + 1])[i] = s[i]
    <3>1. ASSUME NEW v \in Seq(S), NEW y \in S
          PROVE  /\ Append(v, y) \in Seq(S) /\ Len(Append(v, y)) = Len(v) + 1
                 /\ Append(v, y)[Len(v) + 1] = y
                 /\ \A i \in 1..Len(v) : Append(v, y)[i] = v[i]
      OBVIOUS
    <3>2. \A i \in 1..n + 1 : i \in 1..n \/ i = n + 1
      OBVIOUS
    <3> QED
      BY <2>1, <2>2, <2>3, <3>1, <3>2
  <2> QED
    BY <2>1, <2>2, <2>3, <2>4
<1> QED
  BY <1>3, <1>4, <1>5, <1>6

Splits(s, w, T) == Selected(s \o w, T) = Selected(s, T) \o Selected(w, T)

LEMMA SelectedGrows ==
  \A S, T : \A s, w \in Seq(S), x \in S : Splits(s, w, T) => Splits(s, Append(w, x), T)
<1> SUFFICES ASSUME NEW S, NEW s \in Seq(S), NEW w \in Seq(S), NEW x \in S, NEW T,
                    Selected(s \o w, T) = Selected(s, T) \o Selected(w, T)
             PROVE  Selected(s \o Append(w, x), T) = Selected(s, T) \o Selected(Append(w, x), T)
  BY DEF Splits
<1>1. \A a, b \in Seq(S), y \in S : a \o Append(b, y) = Append(a \o b, y)
  OBVIOUS
<1>2. Selected(s, T) \in Seq(S \cap T) /\ Selected(w, T) \in Seq(S \cap T)
  BY SelectedType
<1>3. Selected(s, T) \in Seq(S) /\ Selected(w, T) \in Seq(S)
  BY <1>2
<1>4. s \o w \in Seq(S)
  OBVIOUS
<1>5. /\ Selected(Append(s \o w, x), T) =
           (IF x \in T THEN Append(Selected(s \o w, T), x) ELSE Selected(s \o w, T))
      /\ Selected(Append(w, x), T) =
           (IF x \in T THEN Append(Selected(w, T), x) ELSE Selected(w, T))
  <2>1. \A v \in Seq(S) : Selected(Append(v, x), T) =
                             IF x \in T THEN Append(Selected(v, T), x) ELSE Selected(v, T)
    BY SelectedAppend
  <2> QED
    BY <1>4, <2>1
<1>6. s \o Append(w, x) = Append(s \o w, x)
  BY <1>1
<1>7. CASE x \in T
  <2>1. Selected(s, T) \o Append(Selected(w, T), x) = Append(Selected(s, T) \o Selected(w, T), x)
    BY <1>1, <1>3
  <2> QED
    BY <1>5, <1>6, <1>7, <2>1
<1>8. CASE x \notin T
  BY <1>5, <1>6, <1>8
<1> QED
  BY <1>7, <1>8

\* What is selected of two sequences, one after the other.
LEMMA SelectedConcat ==
  \A S : \A s, t \in Seq(S) : \A T : Selected(s \o t, T) = Selected(s, T) \o Selected(t, T)
<1> SUFFICES ASSUME NEW S, NEW s \in Seq(S), NEW t \in Seq(S), NEW T
             PROVE  Selected(s \o t, T) = Selected(s, T) \o Selected(t, T)
  OBVIOUS
<1> DEFINE u == [n \in 0..Len(t) |-> Beginning(t, n)]
<1>1. /\ \A n \in 0..Len(t) : u[n] \in Seq(S)
      /\ u[0] = <<>> /\ u[Len(t)] = t
      /\ \A n \in 0..Len(t) : n < Len(t) => t[n + 1] \in S /\ u[n + 1] = Append(u[n], t[n + 1])
  BY BeginningGrows
<1> HIDE DEF u
<1> DEFINE K == {n \in 0..Len(t) : Splits(s, u[n], T)}
<1>2. Len(t) \in Nat
  OBVIOUS
<1>3. 0 \in K
  <2>0. \A v \in Seq(S) : v \o <<>> = v
    OBVIOUS
  <2>1. u[0] = <<>> /\ Selected(<<>>, T) = <<>> /\ s \o <<>> = s
    BY <2>0, <1>1, SelectedEmpty
  <2>2. Selected(s, T) \in Seq(S \cap T)
    BY SelectedType
  <2>3. Selected(s, T) \o <<>> = Selected(s, T)
    <3> DEFINE R == S \cap T
    <3>1. \A v \in Seq(R) : v \o <<>> = v
      OBVIOUS
    <3> QED
      BY <2>2, <3>1
  <2>4. Splits(s, <<>>, T)
    BY <2>1, <2>3 DEF Splits
  <2> QED
    BY <1>2, <2>1, <2>4
<1>4. ASSUME NEW n \in 0..Len(t), n < Len(t), n \in K PROVE n + 1 \in K
  <2>1. /\ n + 1 \in 0..Len(t) /\ t[n + 1] \in S /\ u[n] \in Seq(S)
        /\ u[n + 1] = Append(u[n], t[n + 1])
    BY <1>1, <1>2, <1>4
  <2>2. Splits(s, Append(u[n], t[n + 1]), T)
    BY <1>4, <2>1, SelectedGrows
  <2> QED
    BY <2>1, <2>2
<1>5. 0..Len(t) \subseteq K
  <2>1. \A i \in 0..Len(t) : i < Len(t) /\ i \in K => i + 1 \in K
    BY <1>4
  <2> HIDE DEF K
  <2> QED
    BY <1>2, <1>3, <2>1, UpTo
<1>6. Len(t) \in K
  BY <1>2, <1>5
<1> QED
  BY <1>1, <1>6 DEF Splits

\* All of a sequence that lies in the set, nothing of one that lies outside.
LEMMA SelectedAll == \A T : \A s \in Seq(T) : Selected(s, T) = s
<1> SUFFICES ASSUME NEW T, NEW s \in Seq(T) PROVE Selected(s, T) = s
  OBVIOUS
<1> DEFINE u == [n \in 0..Len(s) |-> Beginning(s, n)]
<1>1. /\ \A n \in 0..Len(s) : u[n] \in Seq(T)
      /\ u[0] = <<>> /\ u[Len(s)] = s
      /\ \A n \in 0..Len(s) : n < Len(s) => s[n + 1] \in T /\ u[n + 1] = Append(u[n], s[n + 1])
  BY BeginningGrows
<1> HIDE DEF u
<1> DEFINE K == {n \in 0..Len(s) : Selected(u[n], T) = u[n]}
<1>2. Len(s) \in Nat
  OBVIOUS
<1>3. 0 \in K
  BY <1>1, <1>2, SelectedEmpty
<1>4. ASSUME NEW n \in 0..Len(s), n < Len(s), n \in K PROVE n + 1 \in K
  <2>1. /\ n + 1 \in 0..Len(s) /\ s[n + 1] \in T /\ u[n] \in Seq(T)
        /\ u[n + 1] = Append(u[n], s[n + 1])
    BY <1>1, <1>2, <1>4
  <2>2. \A w \in Seq(T), x \in T : Selected(Append(w, x), T) = Append(Selected(w, T), x)
    BY SelectedAppend
  <2> QED
    BY <1>4, <2>1, <2>2
<1>5. 0..Len(s) \subseteq K
  <2> HIDE DEF K
  <2> QED
    BY <1>2, <1>3, <1>4, UpTo
<1>6. Len(s) \in K
  BY <1>2, <1>5
<1> QED
  BY <1>1, <1>6

LEMMA SelectedNone == \A S, T : \A s \in Seq(S) : S \cap T = {} => Selected(s, T) = <<>>
<1> SUFFICES ASSUME NEW S, NEW T, NEW s \in Seq(S), S \cap T = {} PROVE Selected(s, T) = <<>>
  OBVIOUS
<1>1. Selected(s, T) \in Seq({})
  BY SelectedType
<1> QED
  BY <1>1

\* Where in a sequence the selected elements are: in the order they are
\* selected in, and everywhere an element of the set is.
Places(at, s, T) ==
  LET sel == Selected(s, T)
  IN  /\ at \in [1..Len(sel) -> 1..Len(s)]
      /\ \A i, j \in 1..Len(sel) : i < j => at[i] < at[j]
      /\ \A i \in 1..Len(sel) : sel[i] = s[at[i]]
      /\ \A k \in 1..Len(s) : s[k] \in T => \E i \in 1..Len(sel) : at[i] = k

LEMMA PlacesGrow ==
  \A S, T : \A s \in Seq(S), x \in S :
    (\E at : Places(at, s, T)) => \E at : Places(at, Append(s, x), T)
<1> SUFFICES ASSUME NEW S, NEW T, NEW s \in Seq(S), NEW x \in S, NEW at, Places(at, s, T)
             PROVE  \E b : Places(b, Append(s, x), T)
  OBVIOUS
<1> DEFINE t == Append(s, x)
           sel == Selected(s, T)
           l == Len(sel)
           n == Len(s)
<1>1. /\ n \in Nat /\ Len(t) = n + 1 /\ t[n + 1] = x /\ \A i \in 1..n : t[i] = s[i]
  OBVIOUS
<1>2. sel \in Seq(S) /\ l \in Nat
  <2>1. sel \in Seq(S \cap T)
    BY SelectedType
  <2> HIDE DEF sel
  <2> QED
    BY <2>1
<1>3. Selected(t, T) = IF x \in T THEN Append(sel, x) ELSE sel
  BY SelectedAppend
<1>4. /\ at \in [1..l -> 1..n]
      /\ \A i, j \in 1..l : i < j => at[i] < at[j]
      /\ \A i \in 1..l : sel[i] = s[at[i]]
      /\ \A k \in 1..n : s[k] \in T => \E i \in 1..l : at[i] = k
  BY DEF Places
<1> HIDE DEF t, sel
<1>5. CASE x \in T
  <2> DEFINE b == [i \in 1..l + 1 |-> IF i = l + 1 THEN n + 1 ELSE at[i]]
             w == Append(sel, x)
  <2>1. w = Selected(t, T) /\ Len(w) = l + 1 /\ w[l + 1] = x /\ \A i \in 1..l : w[i] = sel[i]
    BY <1>2, <1>3, <1>5
  <2>2. b[l + 1] = n + 1 /\ \A i \in 1..l : b[i] = at[i] /\ at[i] \in 1..n /\ at[i] < n + 1
    BY <1>1, <1>2, <1>4
  <2>3. b \in [1..l + 1 -> 1..n + 1]
    BY <1>1, <1>2, <1>4
  <2>4. \A i \in 1..l + 1 : i \in 1..l \/ i = l + 1
    BY <1>2
  <2> HIDE DEF b, w
  <2>5. \A i, j \in 1..l + 1 : i < j => b[i] < b[j]
    <3>1. \A i, j \in 1..l + 1 : i < j => i \in 1..l /\ (j \in 1..l \/ j = l + 1)
      BY <1>2
    <3> QED
      BY <1>4, <2>2, <3>1
  <2>6. \A i \in 1..l + 1 : w[i] = t[b[i]]
    BY <1>1, <1>4, <2>1, <2>2, <2>4
  <2>7. ASSUME NEW k \in 1..n + 1, t[k] \in T PROVE \E i \in 1..l + 1 : b[i] = k
    <3>1. CASE k = n + 1
      BY <1>2, <2>2, <3>1
    <3>2. CASE k \in 1..n
      <4>1. PICK i \in 1..l : at[i] = k
        BY <1>1, <1>4, <2>7, <3>2
      <4>2. i \in 1..l + 1 /\ b[i] = k
        BY <1>2, <2>2, <4>1
      <4> QED
        BY <4>2
    <3> QED
      BY <1>1, <3>1, <3>2
  <2>8. Places(b, t, T)
    BY <1>1, <2>1, <2>3, <2>5, <2>6, <2>7 DEF Places
  <2> QED
    BY <2>8 DEF t
<1>6. CASE x \notin T
  <2>1. Selected(t, T) = sel
    BY <1>3, <1>6
  <2>2. at \in [1..l -> 1..n + 1]
    BY <1>1, <1>4
  <2>3. \A i \in 1..l : sel[i] = t[at[i]]
    BY <1>1, <1>4
  <2>4. \A k \in 1..n + 1 : t[k] \in T => k \in 1..n /\ s[k] \in T
    BY <1>1, <1>6
  <2>5. \A k \in 1..n + 1 : t[k] \in T => \E i \in 1..l : at[i] = k
    BY <1>4, <2>4
  <2>6. Places(at, t, T)
    BY <1>1, <1>4, <2>1, <2>2, <2>3, <2>5 DEF Places
  <2> QED
    BY <2>6 DEF t
<1> QED
  BY <1>5, <1>6

LEMMA SelectedPlaces ==
  \A S : \A s \in Seq(S) : \A T : \E at : Places(at, s, T)
<1> SUFFICES ASSUME NEW S, NEW s \in Seq(S), NEW T PROVE \E at : Places(at, s, T)
  OBVIOUS
<1> DEFINE u == [n \in 0..Len(s) |-> Beginning(s, n)]
<1>1. /\ \A n \in 0..Len(s) : u[n] \in Seq(S)
      /\ u[0] = <<>> /\ u[Len(s)] = s
      /\ \A n \in 0..Len(s) : n < Len(s) => s[n + 1] \in S /\ u[n + 1] = Append(u[n], s[n + 1])
  BY BeginningGrows
<1> HIDE DEF u
<1> DEFINE K == {n \in 0..Len(s) : \E at : Places(at, u[n], T)}
<1>2. Len(s) \in Nat
  OBVIOUS
<1>3. 0 \in K
  <2>1. Selected(u[0], T) = <<>> /\ Len(<<>>) = 0 /\ u[0] = <<>>
    BY <1>1, SelectedEmpty
  <2>2. Places([i \in 1..0 |-> 0], u[0], T)
    BY <2>1 DEF Places
  <2> QED
    BY <1>2, <2>2
<1>4. ASSUME NEW n \in 0..Len(s), n < Len(s), n \in K PROVE n + 1 \in K
  <2>1. /\ n + 1 \in 0..Len(s) /\ s[n + 1] \in S /\ u[n] \in Seq(S)
        /\ u[n + 1] = Append(u[n], s[n + 1])
    BY <1>1, <1>2, <1>4
  <2>2. \E at : Places(at, Append(u[n], s[n + 1]), T)
    BY <1>4, <2>1, PlacesGrow
  <2> QED
    BY <2>1, <2>2
<1>5. 0..Len(s) \subseteq K
  <2> HIDE DEF K
  <2> QED
    BY <1>2, <1>3, <1>4, UpTo
<1>6. Len(s) \in K
  BY <1>2, <1>5
<1> QED
  BY <1>1, <1>6
==============================================================================
