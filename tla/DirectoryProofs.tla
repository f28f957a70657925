--------------------------- MODULE DirectoryProofs ---------------------------
(***************************************************************************)
(* Proofs about the directory and any number of clients, whatever they     *)
(* share and whatever the network and the host of the directory do.        *)
(*                                                                         *)
(* The last part is about the order of requests, replies and lists.        *)
(* Nothing in a datagram says which request it answers, so all that keeps  *)
(* the two in step is that a client waits for one reply at a time.  It     *)
(* does, as long as no datagram comes late, twice or out of turn, whatever *)
(* is lost and however often the directory is started again.               *)
(***************************************************************************)
EXTENDS Directory, SequenceTheorems, WellFoundedInduction, NaturalsInduction, TLAPS

-----------------------------------------------------------------------------
(* What the operators on sequences do to the elements.                     *)

LEMMA ElementsOf ==
  ASSUME NEW S, NEW s \in Seq(S)
  PROVE  /\ ToSet(s) = {s[i] : i \in 1..Len(s)}
         /\ ToSet(s) \subseteq S
         /\ s = <<>> <=> ToSet(s) = {}
         /\ s # <<>> => Len(s) \in Nat \ {0}
<1>1. DOMAIN s = 1..Len(s) /\ Len(s) \in Nat /\ \A i \in 1..Len(s) : s[i] \in S
  BY LenProperties, ElementOfSeq
<1>2. /\ s # <<>> => Len(s) \in Nat \ {0}
      /\ s = <<>> => Len(s) = 0
  BY EmptySeq
<1>3. ToSet(s) = {s[i] : i \in 1..Len(s)}
  BY <1>1 DEF ToSet
<1>4. s = <<>> => ToSet(s) = {}
  BY <1>2, <1>3
<1>5. s # <<>> => 1 \in 1..Len(s)
  BY <1>2
<1> QED BY <1>1, <1>2, <1>3, <1>4, <1>5

LEMMA ElementsOfNone == ToSet(<<>>) = {} /\ \A S : <<>> \in Seq(S)
<1>1. \A S : <<>> \in Seq(S)
  BY EmptySeq
<1> QED BY <1>1, ElementsOf

LEMMA AppendElements ==
  ASSUME NEW S, NEW s \in Seq(S), NEW e \in S
  PROVE  /\ Append(s, e) \in Seq(S)
         /\ ToSet(Append(s, e)) = ToSet(s) \cup {e}
<1> DEFINE t == Append(s, e)  n == Len(s)  m == Len(t)
<1>1. t \in Seq(S) /\ m = n + 1 /\ n \in Nat
      /\ (\A i \in 1..n : t[i] = s[i]) /\ t[n + 1] = e
  BY AppendProperties, LenProperties
<1>2. ToSet(t) = {t[i] : i \in 1..m} /\ ToSet(s) = {s[i] : i \in 1..n}
  BY <1>1, ElementsOf
<1> HIDE DEF t, n, m
<1>3. 1..m = 1..n \cup {n + 1}
  BY <1>1
<1>4. {t[i] : i \in 1..m} = {s[i] : i \in 1..n} \cup {e}
  BY <1>1, <1>3
<1>5. t \in Seq(S) /\ ToSet(t) = ToSet(s) \cup {e}
  BY <1>1, <1>2, <1>4
<1> QED BY <1>5 DEF t

LEMMA HeadTailElements ==
  ASSUME NEW S, NEW s \in Seq(S), s # <<>>
  PROVE  /\ Head(s) \in S /\ Tail(s) \in Seq(S)
         /\ ToSet(s) = {Head(s)} \cup ToSet(Tail(s))
<1> DEFINE t == Tail(s)  n == Len(s)  m == Len(t)
<1>1. /\ Head(s) \in S /\ t \in Seq(S) /\ m = n - 1
      /\ \A i \in 1..m : t[i] = s[i + 1]
  BY HeadTailProperties
<1>2. n \in Nat \ {0} /\ Head(s) = s[1]
  BY ElementsOf
<1>3. ToSet(t) = {t[i] : i \in 1..m} /\ ToSet(s) = {s[i] : i \in 1..n}
  BY <1>1, ElementsOf
<1> HIDE DEF t, n, m
<1>4. {s[i] : i \in 1..n} = {s[1]} \cup {t[i] : i \in 1..m}
  <2>1. ASSUME NEW i \in 1..n PROVE i = 1 \/ (i - 1 \in 1..m /\ t[i - 1] = s[i])
    BY <1>1, <1>2
  <2>2. ASSUME NEW i \in 1..m PROVE i + 1 \in 1..n /\ t[i] = s[i + 1]
    BY <1>1, <1>2
  <2>3. 1 \in 1..n
    BY <1>2
  <2> QED BY <2>1, <2>2, <2>3
<1>5. ToSet(s) = {Head(s)} \cup ToSet(t)
  BY <1>2, <1>3, <1>4
<1> QED BY <1>1, <1>5 DEF t

LEMMA ConcatElements ==
  ASSUME NEW S, NEW s \in Seq(S), NEW t \in Seq(S)
  PROVE  /\ s \o t \in Seq(S)
         /\ ToSet(s \o t) = ToSet(s) \cup ToSet(t)
<1>1. s \o t \in Seq(S)
  BY ConcatProperties
<1>2. Range(s \o t) = Range(s) \cup Range(t)
  BY RangeConcatenation
<1>3. ToSet(s \o t) = Range(s \o t) /\ ToSet(s) = Range(s) /\ ToSet(t) = Range(t)
  BY DEF ToSet, Range
<1> QED BY <1>1, <1>2, <1>3

LEMMA SubSeqElements ==
  ASSUME NEW S, NEW s \in Seq(S), NEW m \in Nat \ {0}, NEW n \in Int, n <= Len(s)
  PROVE  /\ SubSeq(s, m, n) \in Seq(S)
         /\ ToSet(SubSeq(s, m, n)) \subseteq ToSet(s)
<1>1. Len(s) \in Nat /\ ToSet(s) = {s[i] : i \in 1..Len(s)}
  BY ElementsOf, LenProperties
<1>2. \A i \in m..n : i \in 1..Len(s)
  BY <1>1
<1>3. \A i \in m..n : s[i] \in ToSet(s)
  BY <1>1, <1>2
<1>4. SubSeq(s, m, n) \in Seq(ToSet(s))
  BY <1>3, SubSeqProperties
<1>5. \A i \in m..n : s[i] \in S
  BY <1>2, ElementOfSeq
<1>6. SubSeq(s, m, n) \in Seq(S)
  BY <1>5, SubSeqProperties
<1>7. ToSet(SubSeq(s, m, n)) \subseteq ToSet(s)
  BY <1>4, ElementsOf
<1> QED BY <1>6, <1>7

LEMMA SingleElement ==
  ASSUME NEW S, NEW e \in S
  PROVE  <<e>> \in Seq(S) /\ ToSet(<<e>>) = {e}
<1>1. <<e>> \in Seq(S) /\ Len(<<e>>) = 1 /\ <<e>>[1] = e
  OBVIOUS
<1>2. ToSet(<<e>>) = {<<e>>[i] : i \in 1..1}
  BY <1>1, ElementsOf
<1>3. 1..1 = {1}
  OBVIOUS
<1> QED BY <1>1, <1>2, <1>3

\* What the network does to a path adds nothing to it that is not on it.
LEMMA RemoveElements ==
  ASSUME NEW S, NEW s \in Seq(S), NEW k \in DOMAIN s
  PROVE  RemoveAt(s, k) \in Seq(S) /\ ToSet(RemoveAt(s, k)) \subseteq ToSet(s)
<1>1. Len(s) \in Nat /\ k \in 1..Len(s)
  BY LenProperties
<1> DEFINE a == SubSeq(s, 1, k - 1)  b == SubSeq(s, k + 1, Len(s))
<1>2. a \in Seq(S) /\ ToSet(a) \subseteq ToSet(s)
  <2>1. k - 1 \in Int /\ k - 1 <= Len(s)
    BY <1>1
  <2> QED BY <2>1, SubSeqElements
<1>3. b \in Seq(S) /\ ToSet(b) \subseteq ToSet(s)
  <2>1. k + 1 \in Nat \ {0} /\ Len(s) \in Int /\ Len(s) <= Len(s)
    BY <1>1
  <2> QED BY <2>1, SubSeqElements
<1>4. RemoveAt(s, k) = a \o b
  BY DEF RemoveAt
<1> HIDE DEF a, b
<1> QED BY <1>2, <1>3, <1>4, ConcatElements

LEMMA InsertElements ==
  ASSUME NEW S, NEW s \in Seq(S), NEW k \in DOMAIN s
  PROVE  InsertAt(s, k, s[k]) \in Seq(S) /\ ToSet(InsertAt(s, k, s[k])) \subseteq ToSet(s)
<1>1. Len(s) \in Nat /\ k \in 1..Len(s) /\ s[k] \in S /\ s[k] \in ToSet(s)
  BY LenProperties, ElementsOf
<1> DEFINE a == SubSeq(s, 1, k - 1)  b == SubSeq(s, k, Len(s))  e == <<s[k]>>
<1>2. a \in Seq(S) /\ ToSet(a) \subseteq ToSet(s)
  <2>1. k - 1 \in Int /\ k - 1 <= Len(s)
    BY <1>1
  <2> QED BY <2>1, SubSeqElements
<1>3. b \in Seq(S) /\ ToSet(b) \subseteq ToSet(s)
  <2>1. k \in Nat \ {0} /\ Len(s) \in Int /\ Len(s) <= Len(s)
    BY <1>1
  <2> QED BY <2>1, SubSeqElements
<1>4. e \in Seq(S) /\ ToSet(e) = {s[k]}
  BY <1>1, SingleElement
<1>5. InsertAt(s, k, s[k]) = (a \o e) \o b
  BY DEF InsertAt
<1> HIDE DEF a, b, e
<1>6. a \o e \in Seq(S) /\ ToSet(a \o e) \subseteq ToSet(s)
  BY <1>1, <1>2, <1>4, ConcatElements
<1> DEFINE u == a \o e
<1>7. u \in Seq(S) /\ ToSet(u) \subseteq ToSet(s) /\ InsertAt(s, k, s[k]) = u \o b
  BY <1>5, <1>6
<1> HIDE DEF u
<1>8. u \o b \in Seq(S) /\ ToSet(u \o b) = ToSet(u) \cup ToSet(b)
  BY <1>3, <1>7, ConcatElements
<1> QED BY <1>3, <1>7, <1>8

LEMMA SwapElements ==
  ASSUME NEW S, NEW s \in Seq(S), NEW k \in DOMAIN s, k # 1
  PROVE  LET t == [s EXCEPT ![k] = s[k - 1], ![k - 1] = s[k]]
         IN  t \in Seq(S) /\ ToSet(t) \subseteq ToSet(s)
<1>1. Len(s) \in Nat /\ k \in 1..Len(s) /\ k - 1 \in 1..Len(s)
  BY LenProperties
<1>2. s[k] \in S /\ s[k - 1] \in S /\ s[k] \in ToSet(s) /\ s[k - 1] \in ToSet(s)
  BY <1>1, ElementsOf
<1> DEFINE u == [s EXCEPT ![k] = s[k - 1]]  t == [u EXCEPT ![k - 1] = s[k]]
<1>3. s \in Seq(ToSet(s))
  BY SeqOfRange DEF Range, ToSet
<1>4. u \in Seq(S) /\ u \in Seq(ToSet(s)) /\ Len(u) = Len(s)
  BY <1>1, <1>2, <1>3, ExceptSeq
<1>5. t \in Seq(S) /\ t \in Seq(ToSet(s))
  BY <1>1, <1>2, <1>4, ExceptSeq
<1>6. ToSet(t) \subseteq ToSet(s)
  <2> HIDE DEF t
  <2> QED BY <1>5, ElementsOf
<1>7. t = [s EXCEPT ![k] = s[k - 1], ![k - 1] = s[k]]
  OBVIOUS
<1> QED BY <1>5, <1>6, <1>7

-----------------------------------------------------------------------------
(* The width of a text, and what a shorter text leaves of a longer one.    *)

\* Induction over the naturals by the least counterexample.
LEMMA LeastElement ==
  ASSUME NEW T, T \subseteq Nat, T # {}
  PROVE  \E n \in T : \A m \in T : n <= m
<1> DEFINE R == OpToRel(<, Nat)
<1>1. IsWellFoundedOn(R, Nat)
  BY NatLessThanWellFounded
<1>2. \A x, y \in Nat : <<y, x>> \in R <=> y < x
  BY DEF OpToRel
<1> HIDE DEF R
<1>3. PICK x \in T : \A y \in T : ~ (<<y, x>> \in R)
  BY <1>1, WFMin
<1>4. ASSUME NEW y \in T PROVE x <= y
  <2>1. x \in Nat /\ y \in Nat /\ ~ (y < x)
    BY <1>2, <1>3
  <2> QED BY <2>1
<1> QED BY <1>4

\* The sums of the first numbers of a sequence, as a function.
IsSum(w, f, n) == w \in [0..n -> Nat] /\ w[0] = 0 /\ \A i \in 1..n : w[i] = w[i - 1] + f[i]

LEMMA SumExists ==
  ASSUME NEW n \in Nat, NEW f \in [1..n -> Nat]
  PROVE  \E w : IsSum(w, f, n)
<1> DEFINE T == {m \in Nat : m <= n /\ ~ \E w : IsSum(w, f, m)}
<1>1. CASE T = {}
  <2>1. n \notin T
    <3> HIDE DEF T
    <3> QED BY <1>1
  <2>2. n <= n
    OBVIOUS
  <2> QED BY <2>1, <2>2
<1>2. CASE T # {}
  <2>1. PICK m \in T : \A k \in T : m <= k
    <3> HIDE DEF T
    <3>1. T \subseteq Nat
      BY DEF T
    <3> QED BY <1>2, <3>1, LeastElement
  <2>2. m \in Nat /\ m <= n /\ ~ \E w : IsSum(w, f, m)
    BY <2>1
  <2>3. m # 0
    <3>1. IsSum([i \in 0..0 |-> 0], f, 0)
      BY DEF IsSum
    <3> QED BY <2>2, <3>1
  <2>4. m - 1 \in Nat /\ m - 1 <= n /\ ~ (m <= m - 1)
    BY <2>2, <2>3
  <2>5. PICK w : IsSum(w, f, m - 1)
    BY <2>1, <2>4
  <2> DEFINE v == [i \in 0..m |-> IF i = m THEN w[m - 1] + f[m] ELSE w[i]]
  <2>6. /\ w \in [0..(m - 1) -> Nat] /\ w[0] = 0
        /\ \A i \in 1..(m - 1) : w[i] = w[i - 1] + f[i]
        /\ f[m] \in Nat /\ m - 1 \in 0..(m - 1)
    <3>1. m \in 1..n
      BY <2>2, <2>3
    <3> QED BY <2>4, <2>5, <3>1 DEF IsSum
  <2>7. v \in [0..m -> Nat]
    <3>1. ASSUME NEW i \in 0..m PROVE v[i] \in Nat
      <4>1. i # m => i \in 0..(m - 1)
        BY <2>2
      <4> QED BY <2>6, <4>1
    <3> QED BY <3>1
  <2>8. ASSUME NEW i \in 1..m PROVE v[i] = v[i - 1] + f[i]
    <3>1. i - 1 \in 0..(m - 1) /\ i \in 0..m /\ i - 1 \in 0..m /\ i - 1 # m
      BY <2>2
    <3>2. v[i - 1] = w[i - 1]
      BY <3>1
    <3>3. CASE i = m
      BY <3>1, <3>2, <3>3
    <3>4. CASE i # m
      <4>1. i \in 1..(m - 1)
        BY <2>2, <3>4
      <4> QED BY <2>6, <3>1, <3>2, <3>4, <4>1
    <3> QED BY <3>3, <3>4
  <2>9. v[0] = 0
    BY <2>2, <2>3, <2>6
  <2>10. IsSum(v, f, m)
    <3> HIDE DEF v
    <3> QED BY <2>7, <2>8, <2>9 DEF IsSum
  <2> QED BY <2>2, <2>10
<1> QED BY <1>1, <1>2

\* The sums of a longer sequence of numbers that are no smaller are no smaller.
LEMMA SumMonotone ==
  ASSUME NEW m \in Nat, NEW n \in Nat, m <= n,
         NEW f \in [1..m -> Nat], NEW g \in [1..n -> Nat],
         \A i \in 1..m : f[i] <= g[i],
         NEW v, IsSum(v, f, m), NEW w, IsSum(w, g, n)
  PROVE  v[m] <= w[n]
<1> DEFINE lower(i) == IF i <= m THEN v[i] ELSE v[m]
           T == {i \in 0..n : ~ (lower(i) <= w[i])}
<1>1. /\ v \in [0..m -> Nat] /\ v[0] = 0 /\ (\A i \in 1..m : v[i] = v[i - 1] + f[i])
      /\ w \in [0..n -> Nat] /\ w[0] = 0 /\ (\A i \in 1..n : w[i] = w[i - 1] + g[i])
  BY DEF IsSum
<1>2. CASE T # {}
  <2>1. PICK i \in T : \A k \in T : i <= k
    <3>1. T \subseteq Nat
      OBVIOUS
    <3> HIDE DEF T
    <3> QED BY <1>2, <3>1, LeastElement
  <2>2. i \in 0..n /\ ~ (lower(i) <= w[i])
    BY <2>1
  <2>3. i # 0
    BY <1>1, <2>2
  <2>4. i - 1 \in 0..n /\ ~ (i <= i - 1) /\ i \in 1..n
    BY <2>2, <2>3
  <2>5. lower(i - 1) <= w[i - 1]
    BY <2>1, <2>4
  <2>6. w[i] = w[i - 1] + g[i] /\ g[i] \in Nat /\ w[i - 1] \in Nat /\ w[i] \in Nat
    BY <1>1, <2>4
  <2>7. CASE i <= m
    <3>1. i \in 1..m /\ i - 1 \in 0..m /\ i - 1 <= m
      BY <2>4, <2>7
    <3>2. v[i] = v[i - 1] + f[i] /\ f[i] <= g[i] /\ f[i] \in Nat /\ v[i - 1] \in Nat
      BY <1>1, <3>1
    <3>3. v[i - 1] <= w[i - 1]
      BY <2>5, <3>1
    <3>4. \A a, b, c, d \in Nat : a <= c /\ b <= d => a + b <= c + d
      OBVIOUS
    <3>5. v[i - 1] + f[i] <= w[i - 1] + g[i]
      BY <2>6, <3>2, <3>3, <3>4
    <3>6. v[i] <= w[i]
      BY <2>6, <3>2, <3>5
    <3> QED BY <2>2, <2>7, <3>6
  <2>8. CASE ~ (i <= m)
    <3>1. lower(i - 1) = v[m]
      BY <2>4, <2>8
    <3>2. v[m] \in Nat /\ v[m] <= w[i - 1]
      BY <1>1, <2>5, <3>1
    <3>3. v[m] <= w[i]
      BY <2>6, <3>2
    <3> QED BY <2>2, <2>8, <3>3
  <2> QED BY <2>7, <2>8
<1>3. CASE T = {}
  <2>1. n \in 0..n /\ lower(n) <= w[n]
    BY <1>3
  <2>2. lower(n) = v[m]
    OBVIOUS
  <2> QED BY <2>1, <2>2
<1> QED BY <1>2, <1>3

\* Width is the sum, over the lines, of one and the number of peers.
Units(list) == [i \in 1..Len(list) |-> 1 + Len(list[i].peers)]

LEMMA UnitsType ==
  ASSUME NEW list \in Seq(Line)
  PROVE  /\ Len(list) \in Nat
         /\ Units(list) \in [1..Len(list) -> Nat]
         /\ \A i \in 1..Len(list) : Len(list[i].peers) \in Nat
<1>1. Len(list) \in Nat
  BY LenProperties
<1>2. ASSUME NEW i \in 1..Len(list) PROVE Len(list[i].peers) \in Nat
  <2>1. list[i] \in Line
    BY ElementOfSeq
  <2>2. list[i].peers \in Seq(Hosts)
    BY <2>1 DEF Line
  <2> QED BY <2>2, LenProperties
<1>3. \A i \in 1..Len(list) : 1 + Len(list[i].peers) \in Nat
  BY <1>2
<1> QED BY <1>1, <1>2, <1>3 DEF Units

LEMMA WidthIsSum ==
  ASSUME NEW list \in Seq(Line)
  PROVE  \E w : IsSum(w, Units(list), Len(list)) /\ Width(list) = w[Len(list)]
<1> DEFINE n == Len(list)
           Is(g) == g = [i \in 0..n |-> IF i = 0 THEN 0 ELSE g[i - 1] + 1 + Len(list[i].peers)]
           width == CHOOSE g : Is(g)
<1>1. n \in Nat /\ Units(list) \in [1..n -> Nat]
      /\ \A i \in 1..n : Len(list[i].peers) \in Nat /\ Units(list)[i] = 1 + Len(list[i].peers)
  BY UnitsType DEF Units
<1>2. PICK v : IsSum(v, Units(list), n)
  BY <1>1, SumExists
<1>3. v \in [0..n -> Nat] /\ v[0] = 0 /\ \A i \in 1..n : v[i] = v[i - 1] + Units(list)[i]
  BY <1>2 DEF IsSum
<1>4. Is(v)
  <2>1. ASSUME NEW i \in 0..n
        PROVE  v[i] = IF i = 0 THEN 0 ELSE v[i - 1] + 1 + Len(list[i].peers)
    <3>1. CASE i = 0
      BY <1>3, <3>1
    <3>2. CASE i # 0
      <4>1. i \in 1..n /\ i - 1 \in 0..n
        BY <1>1, <3>2
      <4>2. v[i - 1] \in Nat /\ Len(list[i].peers) \in Nat
            /\ v[i] = v[i - 1] + (1 + Len(list[i].peers))
        BY <1>1, <1>3, <4>1
      <4>3. \A a, b \in Nat : a + (1 + b) = a + 1 + b
        OBVIOUS
      <4> QED BY <3>2, <4>2, <4>3
    <3> QED BY <3>1, <3>2
  <2> QED BY <1>3, <2>1
<1>5. Is(width)
  <2> HIDE DEF Is
  <2> QED BY <1>4
<1>6. /\ DOMAIN width = 0..n
      /\ \A i \in 0..n : width[i] = IF i = 0 THEN 0 ELSE width[i - 1] + 1 + Len(list[i].peers)
  <2>1. \A g : Is(g) => /\ DOMAIN g = 0..n
                        /\ \A i \in 0..n : g[i] = IF i = 0 THEN 0
                                                 ELSE g[i - 1] + 1 + Len(list[i].peers)
    OBVIOUS
  <2> HIDE DEF Is, width
  <2> QED BY <1>5, <2>1
<1> HIDE DEF width, Is
<1>7. \A i \in 0..n : width[i] = v[i]
  <2> DEFINE T == {i \in 0..n : width[i] # v[i]}
  <2>1. CASE T # {}
    <3>1. T \subseteq Nat
      BY <1>1
    <3>2. PICK i \in T : \A k \in T : i <= k
      <4> HIDE DEF T
      <4> QED BY <2>1, <3>1, LeastElement
    <3>3. i \in 0..n /\ width[i] # v[i]
      BY <3>2
    <3>4. i # 0
      BY <1>3, <1>6, <3>3
    <3>5. i \in 1..n /\ i - 1 \in 0..n /\ ~ (i <= i - 1)
      BY <1>1, <3>3, <3>4
    <3>6. width[i - 1] = v[i - 1]
      BY <3>2, <3>5
    <3>7. width[i] = v[i - 1] + 1 + Len(list[i].peers)
      BY <1>6, <3>4, <3>5, <3>6
    <3>8. v[i] = v[i - 1] + (1 + Len(list[i].peers)) /\ v[i - 1] \in Nat
          /\ Len(list[i].peers) \in Nat
      BY <1>1, <1>3, <3>5
    <3>9. \A a, b \in Nat : a + (1 + b) = a + 1 + b
      OBVIOUS
    <3>10. width[i] = v[i]
      BY <3>7, <3>8, <3>9
    <3> QED BY <3>3, <3>10
  <2> QED BY <2>1
<1>8. Width(list) = width[n]
  BY DEF Width, width, Is
<1>9. n \in 0..n
  BY <1>1
<1> QED BY <1>2, <1>7, <1>8, <1>9

LEMMA WidthType ==
  ASSUME NEW list \in Seq(Line)
  PROVE  Width(list) \in Nat
<1>1. PICK w : IsSum(w, Units(list), Len(list)) /\ Width(list) = w[Len(list)]
  BY WidthIsSum
<1>2. Len(list) \in 0..Len(list)
  BY UnitsType
<1> QED BY <1>1, <1>2 DEF IsSum

LEMMA WidthMonotone ==
  ASSUME NEW old \in Seq(Line), NEW list \in Seq(Line), Len(old) <= Len(list),
         \A i \in 1..Len(old) : Len(old[i].peers) <= Len(list[i].peers)
  PROVE  Width(old) <= Width(list)
<1> DEFINE m == Len(old)  n == Len(list)
<1>1. /\ m \in Nat /\ Units(old) \in [1..m -> Nat]
      /\ n \in Nat /\ Units(list) \in [1..n -> Nat]
  BY UnitsType
<1>2. PICK v : IsSum(v, Units(old), m) /\ Width(old) = v[m]
  BY WidthIsSum
<1>3. PICK w : IsSum(w, Units(list), n) /\ Width(list) = w[n]
  BY WidthIsSum
<1>4. ASSUME NEW i \in 1..m PROVE Units(old)[i] <= Units(list)[i]
  <2>1. i \in 1..n
    BY <1>1
  <2>2. Units(old)[i] = 1 + Len(old[i].peers) /\ Units(list)[i] = 1 + Len(list[i].peers)
    BY <2>1 DEF Units
  <2>3. Len(old[i].peers) \in Nat /\ Len(list[i].peers) \in Nat
    BY <2>1, UnitsType
  <2>4. \A a, b \in Nat : a <= b => 1 + a <= 1 + b
    OBVIOUS
  <2> QED BY <2>2, <2>3, <2>4
<1> HIDE DEF m, n
<1>5. v[m] <= w[n]
  <2>1. m <= n
    BY DEF m, n
  <2> QED BY <1>1, <1>2, <1>3, <1>4, <2>1, SumMonotone
<1> QED BY <1>2, <1>3, <1>5

LEMMA WidthEmpty == Width(<<>>) = 0
<1>1. <<>> \in Seq(Line) /\ Len(<<>>) = 0
  BY EmptySeq
<1>2. PICK w : IsSum(w, Units(<<>>), Len(<<>>)) /\ Width(<<>>) = w[Len(<<>>)]
  BY <1>1, WidthIsSum
<1> QED BY <1>1, <1>2 DEF IsSum

LEMMA GarbledLine == Garbled \in Line
<1>1. <<>> \in Seq(Hosts)
  BY EmptySeq
<1> QED BY <1>1 DEF Garbled, Line

\* Uncovered is made of lines of the old text, and of nothing when the new one is
\* at least as long, line by line.
LEMMA UncoveredLines ==
  ASSUME NEW list \in Seq(Line), NEW old \in Seq(Line)
  PROVE  /\ Uncovered(list, old) \in Seq(Line)
         /\ ToSet(Uncovered(list, old)) \subseteq ToSet(old) \cup {Garbled}
<1> DEFINE whole == {k \in 0..Len(old) : Width(SubSeq(old, 1, k)) <= Width(list)}
           k == CHOOSE n \in whole : \A m \in whole : m <= n
<1>1. Len(old) \in Nat
  BY LenProperties
<1>2. whole # {}
  <2>1. SubSeq(old, 1, 0) = <<>>
    BY SubSeqEmpty
  <2>2. Width(list) \in Nat /\ Width(SubSeq(old, 1, 0)) = 0
    BY <2>1, WidthType, WidthEmpty
  <2>3. 0 \in 0..Len(old) /\ Width(SubSeq(old, 1, 0)) <= Width(list)
    BY <1>1, <2>2
  <2> QED BY <2>3
<1>3. \E n \in whole : \A m \in whole : m <= n
  <2> DEFINE T == {Len(old) - m : m \in whole}
  <2>1. whole \subseteq 0..Len(old)
    OBVIOUS
  <2> HIDE DEF whole
  <2>2. T \subseteq Nat /\ T # {}
    <3>1. \A m \in whole : Len(old) - m \in Nat
      BY <1>1, <2>1
    <3> QED BY <1>2, <3>1
  <2>3. PICK t \in T : \A u \in T : t <= u
    <3> HIDE DEF T
    <3> QED BY <2>2, LeastElement
  <2>4. PICK n \in whole : t = Len(old) - n
    BY <2>3
  <2>5. ASSUME NEW m \in whole PROVE m <= n
    <3>1. Len(old) - n <= Len(old) - m
      BY <2>3, <2>4
    <3> QED BY <1>1, <2>1, <3>1
  <2> QED BY <2>4, <2>5
<1>4. k \in whole
  <2> HIDE DEF whole
  <2> QED BY <1>3
<1>5. k \in 0..Len(old)
  BY <1>4
<1>6. Uncovered(list, old) =
        CASE Width(SubSeq(old, 1, k)) = Width(list) -> SubSeq(old, k + 1, Len(old))
          [] k + 2 <= Len(old) -> <<Garbled>> \o SubSeq(old, k + 3, Len(old))
          [] OTHER -> <<>>
  BY DEF Uncovered
<1> HIDE DEF k, whole
<1>7. /\ SubSeq(old, k + 1, Len(old)) \in Seq(Line)
      /\ ToSet(SubSeq(old, k + 1, Len(old))) \subseteq ToSet(old)
  <2>1. k + 1 \in Nat \ {0} /\ Len(old) \in Int /\ Len(old) <= Len(old)
    BY <1>1, <1>5
  <2> QED BY <2>1, SubSeqElements
<1>8. /\ <<Garbled>> \o SubSeq(old, k + 3, Len(old)) \in Seq(Line)
      /\ ToSet(<<Garbled>> \o SubSeq(old, k + 3, Len(old))) \subseteq ToSet(old) \cup {Garbled}
  <2>1. k + 3 \in Nat \ {0} /\ Len(old) \in Int /\ Len(old) <= Len(old)
    BY <1>1, <1>5
  <2>2. /\ SubSeq(old, k + 3, Len(old)) \in Seq(Line)
        /\ ToSet(SubSeq(old, k + 3, Len(old))) \subseteq ToSet(old)
    BY <2>1, SubSeqElements
  <2>3. <<Garbled>> \in Seq(Line) /\ ToSet(<<Garbled>>) = {Garbled}
    BY GarbledLine, SingleElement
  <2> DEFINE a == <<Garbled>>  b == SubSeq(old, k + 3, Len(old))
  <2> HIDE DEF a, b
  <2>4. /\ a \in Seq(Line) /\ ToSet(a) = {Garbled}
        /\ b \in Seq(Line) /\ ToSet(b) \subseteq ToSet(old)
    BY <2>2, <2>3 DEF a, b
  <2>5. a \o b \in Seq(Line) /\ ToSet(a \o b) = ToSet(a) \cup ToSet(b)
    BY <2>4, ConcatElements
  <2> QED BY <2>4, <2>5 DEF a, b
<1>9. <<>> \in Seq(Line) /\ ToSet(<<>>) = {}
  BY ElementsOfNone
<1> QED BY <1>6, <1>7, <1>8, <1>9

LEMMA UncoveredNothing ==
  ASSUME NEW list \in Seq(Line), NEW old \in Seq(Line), Len(old) <= Len(list),
         \A i \in 1..Len(old) : Len(old[i].peers) <= Len(list[i].peers)
  PROVE  Uncovered(list, old) = <<>>
<1> DEFINE whole == {k \in 0..Len(old) : Width(SubSeq(old, 1, k)) <= Width(list)}
           k == CHOOSE n \in whole : \A m \in whole : m <= n
<1>1. Len(old) \in Nat
  BY LenProperties
<1>2. Len(old) \in whole
  <2>1. SubSeq(old, 1, Len(old)) = old
    BY SubSeqFull
  <2>2. Width(old) <= Width(list)
    BY WidthMonotone
  <2>3. Len(old) \in 0..Len(old)
    BY <1>1
  <2> QED BY <2>1, <2>2, <2>3
<1>3. k = Len(old)
  <2>1. \A m \in whole : m \in Nat /\ m <= Len(old)
    BY <1>1
  <2> HIDE DEF whole
  <2>2. \E n \in whole : \A m \in whole : m <= n
    BY <1>2, <2>1
  <2>3. k \in whole /\ \A m \in whole : m <= k
    BY <2>2
  <2> HIDE DEF k
  <2> QED BY <1>1, <1>2, <2>1, <2>3
<1>4. Uncovered(list, old) =
        CASE Width(SubSeq(old, 1, k)) = Width(list) -> SubSeq(old, k + 1, Len(old))
          [] k + 2 <= Len(old) -> <<Garbled>> \o SubSeq(old, k + 3, Len(old))
          [] OTHER -> <<>>
  BY DEF Uncovered
<1> HIDE DEF k, whole
<1>5. SubSeq(old, k + 1, Len(old)) = <<>>
  <2>1. k + 1 \in Int /\ Len(old) \in Int /\ Len(old) < k + 1
    BY <1>1, <1>3
  <2> QED BY <2>1, SubSeqEmpty
<1>6. ~ (k + 2 <= Len(old))
  BY <1>1, <1>3
<1> QED BY <1>4, <1>5, <1>6

-----------------------------------------------------------------------------
(* Lines, replies, and the pairs of a file and a client that lines state.  *)

Names(list, f, p) ==
  p \in Clients /\ \E l \in ToSet(list) : l.hash = f /\ p \in ToSet(l.peers)

LEMMA PairsNames ==
  ASSUME NEW list \in Seq(Line)
  PROVE  /\ \A f, p : <<f, p>> \in Pairs(list) <=> Names(list, f, p)
         /\ \A x \in Pairs(list) : x = <<x[1], x[2]>> /\ Names(list, x[1], x[2])
<1>1. ASSUME NEW f, NEW p, Names(list, f, p) PROVE <<f, p>> \in Pairs(list)
  <2>1. PICK l \in ToSet(list) : l.hash = f /\ p \in ToSet(l.peers)
    BY <1>1 DEF Names
  <2>2. <<f, p>> \in {l.hash} \X ToSet(l.peers)
    BY <2>1
  <2>3. <<f, p>> \in {<<m.hash, q>> : m \in ToSet(list), q \in Clients}
    BY <1>1, <2>1 DEF Names
  <2> QED BY <2>1, <2>2, <2>3 DEF Pairs
<1>2. ASSUME NEW x \in Pairs(list) PROVE x = <<x[1], x[2]>> /\ Names(list, x[1], x[2])
  <2>1. PICK m \in ToSet(list), q \in Clients : x = <<m.hash, q>>
    BY <1>2 DEF Pairs
  <2>2. PICK l \in ToSet(list) : x \in {l.hash} \X ToSet(l.peers)
    BY <1>2 DEF Pairs
  <2>3. x[1] = l.hash /\ x[2] \in ToSet(l.peers) /\ x[2] = q /\ x = <<x[1], x[2]>>
    BY <2>1, <2>2
  <2> QED BY <2>2, <2>3 DEF Names
<1>3. ASSUME NEW f, NEW p, <<f, p>> \in Pairs(list) PROVE Names(list, f, p)
  <2>1. Names(list, <<f, p>>[1], <<f, p>>[2])
    BY <1>2, <1>3
  <2> QED BY <2>1
<1> QED BY <1>1, <1>2, <1>3

LEMMA PairsNone == Pairs(<<>>) = {}
<1>1. ToSet(<<>>) = {}
  BY ElementsOfNone
<1> QED BY <1>1 DEF Pairs

\* A list that is made of the lines of others states no pairs but theirs.
LEMMA PairsOfLines ==
  ASSUME NEW list \in Seq(Line), NEW one \in Seq(Line), NEW two \in Seq(Line),
         ToSet(list) \subseteq ToSet(one) \cup ToSet(two) \cup {Garbled}
  PROVE  Pairs(list) \subseteq Pairs(one) \cup Pairs(two)
<1>1. ToSet(Garbled.peers) = {}
  BY ElementsOfNone DEF Garbled
<1>2. ASSUME NEW x \in Pairs(list) PROVE x \in Pairs(one) \cup Pairs(two)
  <2>1. x = <<x[1], x[2]>> /\ Names(list, x[1], x[2])
    BY PairsNames
  <2>2. PICK l \in ToSet(list) : l.hash = x[1] /\ x[2] \in ToSet(l.peers)
    BY <2>1 DEF Names
  <2>3. l \in ToSet(one) \/ l \in ToSet(two)
    BY <1>1, <2>2
  <2>4. Names(one, x[1], x[2]) \/ Names(two, x[1], x[2])
    BY <2>1, <2>2, <2>3 DEF Names
  <2>5. <<x[1], x[2]>> \in Pairs(one) \cup Pairs(two)
    BY <2>4, PairsNames
  <2> QED BY <2>1, <2>5
<1> QED BY <1>2

LEMMA ReplyFields ==
  ASSUME NEW r \in Reply
  PROVE  /\ r.op \in {"pingok", "pingbad", "publishack", "filelistres", "testok"}
         /\ r.list \in Seq(Line) /\ r.epoch \in Nat
  BY DEF Reply

LEMMA TextAfterLines ==
  ASSUME NEW r \in Reply, NEW old \in Seq(Line)
  PROVE  /\ TextAfter(r, old) \in Seq(Line)
         /\ ToSet(TextAfter(r, old)) \subseteq ToSet(r.list) \cup ToSet(old) \cup {Garbled}
<1>1. r.list \in Seq(Line)
  BY ReplyFields
<1> DEFINE u == Uncovered(r.list, old)
<1>2. u \in Seq(Line) /\ ToSet(u) \subseteq ToSet(old) \cup {Garbled}
  BY <1>1, UncoveredLines
<1> HIDE DEF u
<1>3. r.list \o u \in Seq(Line) /\ ToSet(r.list \o u) = ToSet(r.list) \cup ToSet(u)
  BY <1>1, <1>2, ConcatElements
<1>4. TextAfter(r, old) = IF r.op = "filelistres" THEN r.list \o u ELSE old
  BY DEF TextAfter, u
<1> QED BY <1>2, <1>3, <1>4

LEMMA FetchedLines ==
  ASSUME NEW r \in Reply, NEW old \in Seq(Line)
  PROVE  /\ Fetched(r, old) \in Seq(Line)
         /\ ToSet(Fetched(r, old)) \subseteq ToSet(r.list) \cup ToSet(old) \cup {Garbled}
         /\ r.op = "filelistres" => Fetched(r, old) = TextAfter(r, old)
<1>1. CASE r.op = "filelistres"
  <2>1. Fetched(r, old) = TextAfter(r, old)
    BY <1>1 DEF Fetched
  <2> QED BY <2>1, TextAfterLines
<1>2. CASE r.op # "filelistres" /\ old # <<>>
  <2> DEFINE g == <<Garbled>>  h == Tail(old)
  <2>1. Fetched(r, old) = g \o h
    BY <1>2 DEF Fetched
  <2>2. g \in Seq(Line) /\ ToSet(g) = {Garbled}
    BY GarbledLine, SingleElement
  <2>3. h \in Seq(Line) /\ ToSet(h) \subseteq ToSet(old)
    BY <1>2, HeadTailElements
  <2> HIDE DEF g, h
  <2>4. g \o h \in Seq(Line) /\ ToSet(g \o h) = ToSet(g) \cup ToSet(h)
    BY <2>2, <2>3, ConcatElements
  <2> QED BY <1>2, <2>1, <2>2, <2>3, <2>4
<1>3. CASE r.op # "filelistres" /\ old = <<>>
  <2>1. Fetched(r, old) = <<>>
    BY <1>3 DEF Fetched
  <2> QED BY <1>3, <2>1, ElementsOfNone
<1> QED BY <1>1, <1>2, <1>3

LEMMA GreaterOfTwo ==
  ASSUME NEW m \in Nat, NEW n \in Nat
  PROVE  /\ Max({m, n}) \in {m, n}
         /\ m <= Max({m, n}) /\ n <= Max({m, n})
<1>1. \E x \in {m, n} : \A y \in {m, n} : x >= y
  <2>1. CASE m >= n
    BY <2>1
  <2>2. CASE ~ (m >= n)
    <3>1. n >= m /\ n >= n
      BY <2>2
    <3> QED BY <3>1
  <2> QED BY <2>1, <2>2
<1> DEFINE k == Max({m, n})
<1>2. k \in {m, n} /\ \A y \in {m, n} : k >= y
  BY <1>1 DEF Max
<1> HIDE DEF k
<1>3. k \in Nat /\ k >= m /\ k >= n
  BY <1>2
<1>4. k \in {m, n} /\ m <= k /\ n <= k
  BY <1>2, <1>3
<1> QED BY <1>4 DEF k

-----------------------------------------------------------------------------
(* What the groups of actions do to the registry and the paths.            *)

LEMMA TypeFacts ==
  ASSUME TypeOK, NEW c \in Clients
  PROVE  /\ sent[c] \in Seq(Request) /\ sock[c] \in Seq(Reply)
         /\ text[c] \in Seq(Line) /\ listing[c] \in Seq(Line)
         /\ Shares[c] \in Seq(Files) /\ acked[c] \in Nat
  BY SharesAssumption DEF TypeOK

LEMMA TransmitEffect ==
  ASSUME TypeOK, NEW c \in Clients, NEW wait \in Waits, Transmit(c, wait)
  PROVE  /\ sent' \in [Clients -> Seq(Request)]
         /\ sent'[c] = Append(sent[c], RequestOf(wait))
         /\ \A d \in Clients \ {c} : sent'[d] = sent[d]
<1>1. RequestOf(wait) \in Request
  BY DEF RequestOf, Request, Waits
<1>2. Append(sent[c], RequestOf(wait)) \in Seq(Request)
  BY <1>1, TypeFacts, AppendProperties
<1>3. sent \in [Clients -> Seq(Request)]
  BY DEF TypeOK
<1> QED BY <1>2, <1>3 DEF Transmit

LEMMA FaultEffect ==
  ASSUME TypeOK, NEW kind, Fault(kind)
  PROVE  /\ faults' \in [count : 0..MaxFaults, disorder : BOOLEAN]
         /\ kind \in Faults
         /\ ~ faults'.disorder => ~ faults.disorder /\ kind \notin {"late", "dup", "reorder"}
<1>1. /\ faults \in [count : 0..MaxFaults, disorder : BOOLEAN]
      /\ MaxFaults \in Nat /\ faults.count < MaxFaults
  BY BoundsAssumption DEF TypeOK, Fault
<1>2. faults.count \in 0..MaxFaults /\ faults.disorder \in BOOLEAN
  BY <1>1
<1>3. faults.count + 1 \in 0..MaxFaults
  BY <1>1, <1>2
<1>4. faults' = [count |-> faults.count + 1,
                 disorder |-> faults.disorder \/ kind \in {"late", "dup", "reorder"}]
  BY DEF Fault
<1>5. kind \in Faults
  BY DEF Fault
<1> DEFINE n == faults.count + 1  b == (faults.disorder \/ kind \in {"late", "dup", "reorder"})
<1>6. b \in BOOLEAN
  OBVIOUS
<1> HIDE DEF n, b
<1>7. faults' = [count |-> n, disorder |-> b] /\ n \in 0..MaxFaults
  BY <1>3, <1>4 DEF n, b
<1>8. faults' \in [count : 0..MaxFaults, disorder : BOOLEAN] /\ faults'.disorder = b
  BY <1>6, <1>7
<1> QED BY <1>5, <1>8 DEF b

LEMMA TakeEffect ==
  ASSUME TypeOK, NEW c \in Clients, NEW wait, Take(c, wait)
  PROVE  /\ Head(sock[c]) \in Reply /\ Head(sock[c]) \in ToSet(sock[c])
         /\ sock' \in [Clients -> Seq(Reply)]
         /\ sock'[c] = Tail(sock[c])
         /\ \A d \in Clients \ {c} : sock'[d] = sock[d] /\ text'[d] = text[d]
         /\ \A d \in Clients : ToSet(sock'[d]) \subseteq ToSet(sock[d])
         /\ text' \in [Clients -> Seq(Line)]
         /\ text'[c] = TextAfter(Head(sock[c]), text[c])
         /\ fwds' \in [Clients -> 0..(MaxForwardings - 1)]
<1>1. /\ sock \in [Clients -> Seq(Reply)] /\ text \in [Clients -> Seq(Line)]
      /\ fwds \in [Clients -> 0..(MaxForwardings - 1)]
  BY DEF TypeOK
<1>2. /\ sock[c] # <<>>
      /\ sock' = [sock EXCEPT ![c] = Tail(sock[c])]
      /\ text' = [text EXCEPT ![c] = TextAfter(Head(sock[c]), text[c])]
      /\ fwds' = [fwds EXCEPT ![c] = 0]
  BY DEF Take
<1>3. /\ Head(sock[c]) \in Reply /\ Tail(sock[c]) \in Seq(Reply)
      /\ ToSet(sock[c]) = {Head(sock[c])} \cup ToSet(Tail(sock[c]))
  BY <1>1, <1>2, HeadTailElements
<1>4. TextAfter(Head(sock[c]), text[c]) \in Seq(Line)
  BY <1>1, <1>3, TextAfterLines
<1>5. 0 \in 0..(MaxForwardings - 1)
  BY BoundsAssumption
<1> QED BY <1>1, <1>2, <1>3, <1>4, <1>5

LEMMA ReceiveEffect ==
  ASSUME TypeOK, NEW c \in Clients, NEW request, Receive(c, request)
  PROVE  /\ sent' \in [Clients -> Seq(Request)]
         /\ sent[c] # <<>> /\ Head(sent[c]) = request /\ sent'[c] = Tail(sent[c])
         /\ \A d \in Clients \ {c} : sent'[d] = sent[d]
         /\ client_sa' \in Hosts
         /\ faults' \in [count : 0..MaxFaults, disorder : BOOLEAN]
         /\ ~ faults'.disorder => ~ faults.disorder
         /\ "addrlen" \notin Faults => client_sa' = c
         /\ up /\ todo = <<>>
         /\ UNCHANGED <<clientVars, up, epoch>>
<1>1. sent \in [Clients -> Seq(Request)] /\ client_sa \in Hosts /\ c \in Hosts
      /\ faults \in [count : 0..MaxFaults, disorder : BOOLEAN]
  BY DEF TypeOK, Hosts
<1>2. /\ sent[c] # <<>> /\ Head(sent[c]) = request
      /\ sent' = [sent EXCEPT ![c] = Tail(sent[c])]
      /\ up /\ todo = <<>> /\ UNCHANGED <<clientVars, up, epoch>>
      /\ \/ client_sa' = c /\ UNCHANGED faults
         \/ client_sa' = client_sa /\ Fault("addrlen")
  BY DEF Receive
<1>3. Tail(sent[c]) \in Seq(Request)
  BY <1>1, <1>2, HeadTailElements
<1> QED BY <1>1, <1>2, <1>3, FaultEffect

LEMMA RespondEffect ==
  ASSUME TypeOK, NEW op, NEW list \in Seq(Line), Respond(op, list),
         op \in {"pingok", "pingbad", "publishack", "filelistres", "testok"}
  PROVE  LET r == [op |-> op, list |-> list, epoch |-> epoch]
         IN  /\ r \in Reply
             /\ sock' \in [Clients -> Seq(Reply)]
             /\ \A d \in Clients : d = client_sa' => sock'[d] = Append(sock[d], r)
                                                      /\ ToSet(sock'[d]) = ToSet(sock[d]) \cup {r}
             /\ \A d \in Clients : d # client_sa' => sock'[d] = sock[d]
<1> DEFINE r == [op |-> op, list |-> list, epoch |-> epoch]
<1>1. r \in Reply
  BY DEF TypeOK, Reply
<1>2. sock \in [Clients -> Seq(Reply)]
  BY DEF TypeOK
<1>3. sock' = [d \in Clients |-> IF d = client_sa' THEN Append(sock[d], r) ELSE sock[d]]
  BY DEF Respond
<1> HIDE DEF r
<1>4. \A d \in Clients : /\ Append(sock[d], r) \in Seq(Reply)
                         /\ ToSet(Append(sock[d], r)) = ToSet(sock[d]) \cup {r}
  BY <1>1, <1>2, AppendElements
<1>5. sock' \in [Clients -> Seq(Reply)]
  BY <1>2, <1>3, <1>4
<1>6. \A d \in Clients : d = client_sa' => sock'[d] = Append(sock[d], r)
                                             /\ ToSet(sock'[d]) = ToSet(sock[d]) \cup {r}
  BY <1>3, <1>4
<1>7. \A d \in Clients : d # client_sa' => sock'[d] = sock[d]
  BY <1>3
<1> QED BY <1>1, <1>5, <1>6, <1>7 DEF r

\* A turn of ds_register_peer adds the pair of its file and its client, keeps every
\* line where it is and shortens none.
LEMMA RegisterEffect ==
  ASSUME TypeOK, RegisterPeer
  PROVE  /\ registry' \in Seq(Line)
         /\ todo # <<>> /\ Head(todo) \in Files /\ todo' = Tail(todo) /\ todo' \in Seq(Files)
         /\ ToSet(todo) = {Head(todo)} \cup ToSet(todo')
         /\ \A f, p : Names(registry', f, p) <=>
              Names(registry, f, p) \/ (f = Head(todo) /\ p = client_sa /\ p \in Clients)
         /\ Len(registry) <= Len(registry')
         /\ \A i \in 1..Len(registry) : Len(registry[i].peers) <= Len(registry'[i].peers)
<1> DEFINE h == Head(todo)
<1>1. /\ registry \in Seq(Line) /\ todo \in Seq(Files) /\ todo # <<>> /\ todo' = Tail(todo)
      /\ client_sa \in Hosts
  BY DEF TypeOK, RegisterPeer
<1>2. h \in Files /\ Tail(todo) \in Seq(Files) /\ ToSet(todo) = {h} \cup ToSet(Tail(todo))
  BY <1>1, HeadTailElements
<1> HIDE DEF h
<1>3. /\ Len(registry) \in Nat /\ DOMAIN registry = 1..Len(registry)
      /\ ToSet(registry) = {registry[i] : i \in 1..Len(registry)}
      /\ \A i \in 1..Len(registry) :
           /\ registry[i].peers \in Seq(Hosts) /\ registry[i].hash \in Files \cup {NoFile}
           /\ Len(registry[i].peers) \in Nat
           /\ registry[i] = [hash |-> registry[i].hash, peers |-> registry[i].peers]
  <2>1. ASSUME NEW i \in 1..Len(registry)
        PROVE  /\ registry[i].peers \in Seq(Hosts) /\ registry[i].hash \in Files \cup {NoFile}
               /\ Len(registry[i].peers) \in Nat
               /\ registry[i] = [hash |-> registry[i].hash, peers |-> registry[i].peers]
    <3>1. registry[i] \in Line
      BY <1>1, ElementOfSeq
    <3>2. registry[i].peers \in Seq(Hosts) /\ registry[i].hash \in Files \cup {NoFile}
          /\ registry[i] = [hash |-> registry[i].hash, peers |-> registry[i].peers]
      BY <3>1 DEF Line
    <3> QED BY <3>2, LenProperties
  <2> QED BY <1>1, <2>1, LenProperties, ElementsOf
<1>4. ASSUME NEW k \in DOMAIN registry, registry[k].hash = h, client_sa \in ToSet(registry[k].peers),
             registry' = registry
      PROVE  /\ registry' \in Seq(Line)
             /\ \A f, p : Names(registry', f, p) <=>
                  Names(registry, f, p) \/ (f = h /\ p = client_sa /\ p \in Clients)
             /\ Len(registry) <= Len(registry')
             /\ \A i \in 1..Len(registry) : Len(registry[i].peers) <= Len(registry'[i].peers)
  <2>1. registry[k] \in ToSet(registry)
    BY <1>3
  <2>2. \A f, p : f = h /\ p = client_sa /\ p \in Clients => Names(registry, f, p)
    BY <1>4, <2>1 DEF Names
  <2>3. \A i \in 1..Len(registry) : Len(registry[i].peers) <= Len(registry[i].peers)
    BY <1>3
  <2> QED BY <1>1, <1>3, <1>4, <2>2, <2>3
<1>5. ASSUME NEW k \in DOMAIN registry, registry[k].hash = h,
             registry' = [registry EXCEPT ![k].peers = Append(@, client_sa)]
      PROVE  /\ registry' \in Seq(Line)
             /\ \A f, p : Names(registry', f, p) <=>
                  Names(registry, f, p) \/ (f = h /\ p = client_sa /\ p \in Clients)
             /\ Len(registry) <= Len(registry')
             /\ \A i \in 1..Len(registry) : Len(registry[i].peers) <= Len(registry'[i].peers)
  <2> DEFINE peers == Append(registry[k].peers, client_sa)
             line == [hash |-> h, peers |-> peers]
  <2>1. /\ peers \in Seq(Hosts) /\ ToSet(peers) = ToSet(registry[k].peers) \cup {client_sa}
        /\ Len(peers) = Len(registry[k].peers) + 1
    BY <1>1, <1>3, AppendElements, AppendProperties
  <2> HIDE DEF peers
  <2>2. line \in Line /\ line.hash = h /\ line.peers = peers
    BY <1>2, <2>1 DEF Line
  <2>3. registry' = [registry EXCEPT ![k] = line]
    <3>1. [registry[k] EXCEPT !.peers = Append(registry[k].peers, client_sa)] = line
      <4>1. registry[k] = [hash |-> h, peers |-> registry[k].peers]
        BY <1>3, <1>5
      <4>2. \A x, y : [[hash |-> h, peers |-> x] EXCEPT !.peers = y] = [hash |-> h, peers |-> y]
        OBVIOUS
      <4>3. [registry[k] EXCEPT !.peers = peers] = [hash |-> h, peers |-> peers]
        BY <4>1, <4>2
      <4> QED BY <4>3 DEF peers
    <3> HIDE DEF line
    <3> QED BY <1>3, <1>5, <3>1
  <2> HIDE DEF line
  <2>4. /\ registry' \in Seq(Line) /\ Len(registry') = Len(registry)
        /\ \A j \in 1..Len(registry) : registry'[j] = IF j = k THEN line ELSE registry[j]
    BY <1>1, <1>3, <2>2, <2>3, ExceptSeq
  <2>5. ToSet(registry') = {registry'[i] : i \in 1..Len(registry)}
    BY <2>4, ElementsOf
  <2>6. ASSUME NEW f, NEW p, Names(registry', f, p)
        PROVE  Names(registry, f, p) \/ (f = h /\ p = client_sa /\ p \in Clients)
    <3>1. PICK i \in 1..Len(registry) : registry'[i].hash = f /\ p \in ToSet(registry'[i].peers)
      BY <2>5, <2>6 DEF Names
    <3>2. p \in Clients /\ registry[i] \in ToSet(registry)
      BY <1>3, <2>6 DEF Names
    <3>3. CASE i = k
      BY <1>5, <2>1, <2>2, <2>4, <3>1, <3>2, <3>3 DEF Names
    <3>4. CASE i # k
      BY <2>4, <3>1, <3>2, <3>4 DEF Names
    <3> QED BY <3>3, <3>4
  <2>7. ASSUME NEW f, NEW p, Names(registry, f, p) \/ (f = h /\ p = client_sa /\ p \in Clients)
        PROVE  Names(registry', f, p)
    <3>1. p \in Clients
      BY <2>7 DEF Names
    <3>2. line \in ToSet(registry')
      BY <1>3, <2>4, <2>5
    <3>3. CASE f = h /\ p = client_sa
      BY <2>1, <2>2, <3>1, <3>2, <3>3 DEF Names
    <3>4. CASE Names(registry, f, p)
      <4>1. PICK i \in 1..Len(registry) : registry[i].hash = f /\ p \in ToSet(registry[i].peers)
        BY <1>3, <3>4 DEF Names
      <4>2. CASE i = k
        BY <1>5, <2>1, <2>2, <3>1, <3>2, <4>1, <4>2 DEF Names
      <4>3. CASE i # k
        <5>1. registry[i] \in ToSet(registry')
          BY <2>4, <2>5, <4>3
        <5> QED BY <3>1, <4>1, <5>1 DEF Names
      <4> QED BY <4>2, <4>3
    <3> QED BY <2>7, <3>3, <3>4
  <2>8. ASSUME NEW i \in 1..Len(registry)
        PROVE  Len(registry[i].peers) <= Len(registry'[i].peers)
    <3>1. CASE i = k
      <4>1. Len(registry'[i].peers) = Len(registry[i].peers) + 1
        BY <2>1, <2>2, <2>4, <3>1
      <4>2. Len(registry[i].peers) \in Nat
        BY <1>3
      <4> DEFINE n == Len(registry[i].peers)  m == Len(registry'[i].peers)
      <4>3. n \in Nat /\ m = n + 1
        BY <4>1, <4>2
      <4> HIDE DEF n, m
      <4>4. n <= m
        BY <4>3
      <4> QED BY <4>4 DEF n, m
    <3>2. CASE i # k
      BY <1>3, <2>4, <3>2
    <3> QED BY <3>1, <3>2
  <2>9. Len(registry) <= Len(registry')
    BY <1>3, <2>4
  <2> QED BY <2>4, <2>6, <2>7, <2>8, <2>9
<1>6. ASSUME registry' = Append(registry, [hash |-> h, peers |-> <<client_sa>>])
      PROVE  /\ registry' \in Seq(Line)
             /\ \A f, p : Names(registry', f, p) <=>
                  Names(registry, f, p) \/ (f = h /\ p = client_sa /\ p \in Clients)
             /\ Len(registry) <= Len(registry')
             /\ \A i \in 1..Len(registry) : Len(registry[i].peers) <= Len(registry'[i].peers)
  <2> DEFINE line == [hash |-> h, peers |-> <<client_sa>>]
  <2>1. <<client_sa>> \in Seq(Hosts) /\ ToSet(<<client_sa>>) = {client_sa}
    BY <1>1, SingleElement
  <2>2. line \in Line /\ line.hash = h /\ ToSet(line.peers) = {client_sa}
    BY <1>2, <2>1 DEF Line
  <2> HIDE DEF line
  <2>3. registry' = Append(registry, line)
    BY <1>6 DEF line
  <2>4. /\ registry' \in Seq(Line) /\ ToSet(registry') = ToSet(registry) \cup {line}
        /\ Len(registry') = Len(registry) + 1
        /\ \A i \in 1..Len(registry) : registry'[i] = registry[i]
    BY <1>1, <2>2, <2>3, AppendElements, AppendProperties
  <2>5. \A f, p : Names(registry', f, p) <=>
          Names(registry, f, p) \/ (f = h /\ p = client_sa /\ p \in Clients)
    BY <2>2, <2>4 DEF Names
  <2>6. \A i \in 1..Len(registry) : Len(registry[i].peers) <= Len(registry'[i].peers)
    BY <1>3, <2>4
  <2>7. Len(registry) <= Len(registry')
    BY <1>3, <2>4
  <2> QED BY <2>4, <2>5, <2>6, <2>7
<1>7. /\ registry' \in Seq(Line)
      /\ \A f, p : Names(registry', f, p) <=>
           Names(registry, f, p) \/ (f = h /\ p = client_sa /\ p \in Clients)
      /\ Len(registry) <= Len(registry')
      /\ \A i \in 1..Len(registry) : Len(registry[i].peers) <= Len(registry'[i].peers)
  <2>1. \/ \E k \in DOMAIN registry :
             /\ registry[k].hash = h
             /\ \/ client_sa \in ToSet(registry[k].peers) /\ registry' = registry
                \/ registry' = [registry EXCEPT ![k].peers = Append(@, client_sa)]
        \/ registry' = Append(registry, [hash |-> h, peers |-> <<client_sa>>])
    BY DEF RegisterPeer, h
  <2> QED BY <2>1, <1>4, <1>5, <1>6
<1> QED BY <1>1, <1>2, <1>7 DEF h

LEMMA NetworkEffect ==
  ASSUME TypeOK, Network
  PROVE  /\ sent' \in [Clients -> Seq(Request)] /\ sock' \in [Clients -> Seq(Reply)]
         /\ \A d \in Clients : ToSet(sock'[d]) \subseteq ToSet(sock[d])
         /\ faults' \in [count : 0..MaxFaults, disorder : BOOLEAN]
         /\ ~ faults'.disorder => ~ faults.disorder /\ \E c \in Clients : OnPath(c, RemoveAt)
         /\ UNCHANGED <<clientVars, serverVars>>
<1>1. PICK c \in Clients : Lose(c) \/ Duplicate(c) \/ Reorder(c)
  BY DEF Network
<1>2. UNCHANGED <<clientVars, serverVars>>
  BY DEF Network
<1>3. sent \in [Clients -> Seq(Request)] /\ sock \in [Clients -> Seq(Reply)]
  BY DEF TypeOK
<1> DEFINE Changed(path, S, d) ==
      \E s \in Seq(S) : ToSet(s) \subseteq ToSet(path[d]) /\ path' = [path EXCEPT ![d] = s]
<1>4. ASSUME \/ Changed(sent, Request, c) /\ UNCHANGED sock
             \/ Changed(sock, Reply, c) /\ UNCHANGED sent
      PROVE  /\ sent' \in [Clients -> Seq(Request)] /\ sock' \in [Clients -> Seq(Reply)]
             /\ \A d \in Clients : ToSet(sock'[d]) \subseteq ToSet(sock[d])
  BY <1>3, <1>4
<1>5. CASE Lose(c)
  <2>1. OnPath(c, RemoveAt) /\ Fault("loss")
    BY <1>5 DEF Lose
  <2>2. \/ \E k \in DOMAIN sent[c] : sent' = [sent EXCEPT ![c] = RemoveAt(sent[c], k)]
                                       /\ UNCHANGED sock
        \/ \E k \in DOMAIN sock[c] : sock' = [sock EXCEPT ![c] = RemoveAt(sock[c], k)]
                                       /\ UNCHANGED sent
    BY <2>1 DEF OnPath
  <2>3. /\ \A k \in DOMAIN sent[c] : RemoveAt(sent[c], k) \in Seq(Request)
             /\ ToSet(RemoveAt(sent[c], k)) \subseteq ToSet(sent[c])
        /\ \A k \in DOMAIN sock[c] : RemoveAt(sock[c], k) \in Seq(Reply)
             /\ ToSet(RemoveAt(sock[c], k)) \subseteq ToSet(sock[c])
    BY <1>3, RemoveElements
  <2>4. \/ Changed(sent, Request, c) /\ UNCHANGED sock
        \/ Changed(sock, Reply, c) /\ UNCHANGED sent
    BY <2>2, <2>3
  <2> HIDE DEF Changed
  <2> QED BY <1>2, <1>4, <2>1, <2>4, FaultEffect
<1>6. CASE Duplicate(c)
  <2>1. Fault("dup")
    BY <1>6 DEF Duplicate
  <2>2. \/ \E k \in DOMAIN sent[c] :
             sent' = [sent EXCEPT ![c] = InsertAt(sent[c], k, sent[c][k])] /\ UNCHANGED sock
        \/ \E k \in DOMAIN sock[c] :
             sock' = [sock EXCEPT ![c] = InsertAt(sock[c], k, sock[c][k])] /\ UNCHANGED sent
    BY <1>6 DEF Duplicate, OnPath
  <2>3. /\ \A k \in DOMAIN sent[c] : InsertAt(sent[c], k, sent[c][k]) \in Seq(Request)
             /\ ToSet(InsertAt(sent[c], k, sent[c][k])) \subseteq ToSet(sent[c])
        /\ \A k \in DOMAIN sock[c] : InsertAt(sock[c], k, sock[c][k]) \in Seq(Reply)
             /\ ToSet(InsertAt(sock[c], k, sock[c][k])) \subseteq ToSet(sock[c])
    BY <1>3, InsertElements
  <2>4. \/ Changed(sent, Request, c) /\ UNCHANGED sock
        \/ Changed(sock, Reply, c) /\ UNCHANGED sent
    BY <2>2, <2>3
  <2>5. ~ faults'.disorder => FALSE
    BY <2>1, FaultEffect
  <2> HIDE DEF Changed
  <2> QED BY <1>2, <1>4, <2>1, <2>4, <2>5, FaultEffect
<1>7. CASE Reorder(c)
  <2> DEFINE Swapped(s, k) == [s EXCEPT ![k] = s[k - 1], ![k - 1] = s[k]]
  <2>1. Fault("reorder")
    BY <1>7 DEF Reorder
  <2>2. \/ \E k \in DOMAIN sent[c] :
             sent' = [sent EXCEPT ![c] = IF k = 1 THEN sent[c] ELSE Swapped(sent[c], k)]
               /\ UNCHANGED sock
        \/ \E k \in DOMAIN sock[c] :
             sock' = [sock EXCEPT ![c] = IF k = 1 THEN sock[c] ELSE Swapped(sock[c], k)]
               /\ UNCHANGED sent
    BY <1>7 DEF Reorder, OnPath
  <2>3. /\ \A k \in DOMAIN sent[c] : k # 1 => Swapped(sent[c], k) \in Seq(Request)
             /\ ToSet(Swapped(sent[c], k)) \subseteq ToSet(sent[c])
        /\ \A k \in DOMAIN sock[c] : k # 1 => Swapped(sock[c], k) \in Seq(Reply)
             /\ ToSet(Swapped(sock[c], k)) \subseteq ToSet(sock[c])
    BY <1>3, SwapElements
  <2> HIDE DEF Swapped
  <2>4. \/ Changed(sent, Request, c) /\ UNCHANGED sock
        \/ Changed(sock, Reply, c) /\ UNCHANGED sent
    BY <1>3, <2>2, <2>3
  <2>5. ~ faults'.disorder => FALSE
    BY <2>1, FaultEffect
  <2> HIDE DEF Changed
  <2> QED BY <1>2, <1>4, <2>1, <2>4, <2>5, FaultEffect
<1> QED BY <1>1, <1>5, <1>6, <1>7

-----------------------------------------------------------------------------
(* The type invariant.                                                     *)

LEMMA InitType == Init => TypeOK
<1> SUFFICES ASSUME Init PROVE TypeOK
  OBVIOUS
<1>1. \A S : <<>> \in Seq(S)
  BY ElementsOfNone
<1>2. fwds \in [Clients -> 0..(MaxForwardings - 1)]
  BY BoundsAssumption DEF Init
<1>3. disk \in [Clients -> SUBSET Files]
  <2>1. \A c \in Clients : ToSet(Shares[c]) \subseteq Files
    BY SharesAssumption, ElementsOf
  <2> QED BY <2>1 DEF Init
<1>4. faults \in [count : 0..MaxFaults, disorder : BOOLEAN]
  BY BoundsAssumption DEF Init
<1>5. /\ pc \in [Clients -> {"start", "idle", "writing", "quit"} \cup Waits]
      /\ state \in [Clients -> {"OFFLINE", "ONLINE"}]
      /\ arg \in [Clients -> Files \cup {NoFile}]
      /\ serving \in [Clients -> BOOLEAN]
      /\ acked \in [Clients -> Nat]
      /\ protoid \in [Clients -> {"ours", "other"}]
  BY DEF Init
<1>6. /\ text \in [Clients -> Seq(Line)] /\ listing \in [Clients -> Seq(Line)]
      /\ registry \in Seq(Line) /\ todo \in Seq(Files)
      /\ sent \in [Clients -> Seq(Request)] /\ sock \in [Clients -> Seq(Reply)]
  BY <1>1 DEF Init
<1>7. up \in BOOLEAN /\ epoch \in Nat \ {0} /\ client_sa \in Hosts
  BY DEF Init, Hosts
<1> QED BY <1>2, <1>3, <1>4, <1>5, <1>6, <1>7 DEF TypeOK

LEMMA CommandType ==
  ASSUME TypeOK, NEW c \in Clients, Command(c)
  PROVE  TypeOK'
<1> USE DEF fetchVars, ctlVars, fileVars, clientVars, serverVars
<1>1. ASSUME NEW wait \in Waits, Ask(c, wait), arg' \in [Clients -> Files \cup {NoFile}]
      PROVE  TypeOK'
  <2>1. sent' \in [Clients -> Seq(Request)]
    BY <1>1, TransmitEffect DEF Ask
  <2>2. pc' \in [Clients -> {"start", "idle", "writing", "quit"} \cup Waits]
    BY <1>1 DEF TypeOK, Ask
  <2> QED BY <1>1, <2>1, <2>2 DEF TypeOK, Ask
<1>2. arg \in [Clients -> Files \cup {NoFile}]
  BY DEF TypeOK
<1>3. CASE CtlTest(c)
  BY <1>1, <1>2, <1>3 DEF CtlTest, Waits
<1>4. CASE CtlPing(c)
  BY <1>1, <1>2, <1>4 DEF CtlPing, Waits
<1>5. CASE CtlServe(c)
  BY <1>1, <1>2, <1>5 DEF CtlServe, Waits
<1>6. CASE CtlListremote(c)
  BY <1>1, <1>2, <1>6 DEF CtlListremote, Waits
<1>7. CASE CtlDownload(c)
  BY <1>1, <1>2, <1>7 DEF CtlDownload, Waits
<1>8. CASE CtlQuit(c)
  <2>1. /\ pc' \in [Clients -> {"start", "idle", "writing", "quit"} \cup Waits]
        /\ serving' \in [Clients -> BOOLEAN]
    BY <1>8 DEF TypeOK, CtlQuit
  <2> QED BY <1>8, <2>1 DEF TypeOK, CtlQuit
<1> QED BY <1>3, <1>4, <1>5, <1>6, <1>7, <1>8 DEF Command

LEMMA TimeoutType ==
  ASSUME TypeOK, NEW c \in Clients, Timeout(c)
  PROVE  TypeOK'
<1> USE DEF fetchVars, ctlVars, fileVars, clientVars, serverVars
<1>1. faults' \in [count : 0..MaxFaults, disorder : BOOLEAN]
  BY FaultEffect DEF Timeout, TypeOK
<1>2. CASE Transmit(c, pc[c]) /\ fwds[c] + 1 < MaxForwardings
             /\ fwds' = [fwds EXCEPT ![c] = @ + 1] /\ UNCHANGED <<pc, state, arg>>
  <2>1. sent' \in [Clients -> Seq(Request)]
    BY <1>2, TransmitEffect DEF Timeout
  <2>2. fwds' \in [Clients -> 0..(MaxForwardings - 1)]
    <3>1. fwds \in [Clients -> 0..(MaxForwardings - 1)]
      BY DEF TypeOK
    <3>2. fwds[c] + 1 \in 0..(MaxForwardings - 1)
      BY <1>2, <3>1, BoundsAssumption
    <3> QED BY <1>2, <3>1, <3>2
  <2> QED BY <1>1, <1>2, <2>1, <2>2 DEF TypeOK, Timeout
<1>3. CASE /\ fwds' = [fwds EXCEPT ![c] = 0]
           /\ pc' = [pc EXCEPT ![c] = IF pc[c] = "test" THEN "quit" ELSE "idle"]
           /\ state' = IF pc[c] = "ping" THEN [state EXCEPT ![c] = "OFFLINE"] ELSE state
           /\ arg' = [arg EXCEPT ![c] = NoFile]
           /\ UNCHANGED sent
  <2>1. fwds' \in [Clients -> 0..(MaxForwardings - 1)]
    <3>1. fwds \in [Clients -> 0..(MaxForwardings - 1)]
      BY DEF TypeOK
    <3>2. 0 \in 0..(MaxForwardings - 1)
      BY BoundsAssumption
    <3> QED BY <1>3, <3>1, <3>2
  <2>2. /\ pc' \in [Clients -> {"start", "idle", "writing", "quit"} \cup Waits]
        /\ state' \in [Clients -> {"OFFLINE", "ONLINE"}]
        /\ arg' \in [Clients -> Files \cup {NoFile}]
    BY <1>3 DEF TypeOK
  <2> QED BY <1>1, <1>3, <2>1, <2>2 DEF TypeOK, Timeout
<1> QED BY <1>2, <1>3 DEF Timeout

LEMMA AnsweredType ==
  ASSUME TypeOK, NEW c \in Clients, Answered(c)
  PROVE  TypeOK'
<1> USE DEF fetchVars, ctlVars, fileVars, clientVars, serverVars
<1> DEFINE Common == /\ sock' \in [Clients -> Seq(Reply)]
                     /\ text' \in [Clients -> Seq(Line)]
                     /\ fwds' \in [Clients -> 0..(MaxForwardings - 1)]
                     /\ UNCHANGED <<serverVars, sent, faults>>
           r == Head(sock[c])
<1>1. \A wait : Take(c, wait) => Common /\ r \in Reply
  BY TakeEffect DEF Take
<1>2. \A wait : Take(c, wait) =>
        [listing EXCEPT ![c] = Fetched(r, text[c])] \in [Clients -> Seq(Line)]
  <2>1. ASSUME NEW wait, Take(c, wait)
        PROVE  [listing EXCEPT ![c] = Fetched(r, text[c])] \in [Clients -> Seq(Line)]
    <3>1. r \in Reply /\ text[c] \in Seq(Line)
      BY <1>1, <2>1, TypeFacts
    <3>2. Fetched(r, text[c]) \in Seq(Line)
      BY <3>1, FetchedLines
    <3>3. listing \in [Clients -> Seq(Line)]
      BY DEF TypeOK
    <3> HIDE DEF r
    <3> QED BY <3>2, <3>3
  <2> QED BY <2>1
<1>3. CASE PingAnswered(c)
  <2>1. Common
    BY <1>1, <1>3 DEF PingAnswered
  <2>2. /\ pc' \in [Clients -> {"start", "idle", "writing", "quit"} \cup Waits]
        /\ state' \in [Clients -> {"OFFLINE", "ONLINE"}]
    BY <1>3 DEF TypeOK, PingAnswered
  <2> QED BY <1>3, <2>1, <2>2 DEF TypeOK, PingAnswered
<1>4. CASE TestAnswered(c)
  <2>1. Common
    BY <1>1, <1>4 DEF TestAnswered
  <2>2. pc' \in [Clients -> {"start", "idle", "writing", "quit"} \cup Waits]
    BY <1>4 DEF TypeOK, TestAnswered
  <2> QED BY <1>4, <2>1, <2>2 DEF TypeOK, TestAnswered
<1>5. CASE PublishAnswered(c)
  <2>1. Common /\ r \in Reply
    BY <1>1, <1>5 DEF PublishAnswered
  <2>2. pc' \in [Clients -> {"start", "idle", "writing", "quit"} \cup Waits]
    BY <1>5 DEF TypeOK, PublishAnswered
  <2>3. Max({acked[c], r.epoch}) \in Nat
    <3>1. acked[c] \in Nat /\ r.epoch \in Nat
      BY <2>1, ReplyFields, TypeFacts
    <3> QED BY <3>1, GreaterOfTwo
  <2>4. serving' \in [Clients -> BOOLEAN] /\ acked' \in [Clients -> Nat]
    <3>1. serving \in [Clients -> BOOLEAN] /\ acked \in [Clients -> Nat]
      BY DEF TypeOK
    <3>2. \/ /\ serving' = [serving EXCEPT ![c] = TRUE]
             /\ acked' = [acked EXCEPT ![c] = Max({acked[c], r.epoch})]
          \/ serving' = serving /\ acked' = acked
      BY <1>5 DEF PublishAnswered
    <3> HIDE DEF r
    <3> DEFINE m == Max({acked[c], r.epoch})
    <3>3. m \in Nat
      BY <2>3
    <3> HIDE DEF m
    <3>4. acked' = [acked EXCEPT ![c] = m] \/ acked' = acked
      BY <3>2 DEF m
    <3>5. acked' \in [Clients -> Nat]
      BY <3>1, <3>3, <3>4
    <3> QED BY <3>1, <3>2, <3>5
  <2> QED BY <1>5, <2>1, <2>2, <2>4 DEF TypeOK, PublishAnswered
<1>6. CASE ListAnswered(c)
  <2>1. Common /\ listing' \in [Clients -> Seq(Line)]
    BY <1>1, <1>2, <1>6 DEF ListAnswered
  <2>2. pc' \in [Clients -> {"start", "idle", "writing", "quit"} \cup Waits]
    BY <1>6 DEF TypeOK, ListAnswered
  <2> QED BY <1>6, <2>1, <2>2 DEF TypeOK, ListAnswered
<1>7. CASE DownloadAnswered(c)
  <2>1. Common /\ listing' \in [Clients -> Seq(Line)]
    BY <1>1, <1>2, <1>7 DEF DownloadAnswered
  <2>2. /\ pc' \in [Clients -> {"start", "idle", "writing", "quit"} \cup Waits]
        /\ arg' \in [Clients -> Files \cup {NoFile}]
    BY <1>7 DEF TypeOK, DownloadAnswered
  <2>3. disk' \in [Clients -> SUBSET Files]
    <3>1. disk \in [Clients -> SUBSET Files]
      BY DEF TypeOK
    <3>2. disk[c] \ {arg[c]} \in SUBSET Files
      BY <3>1
    <3>3. disk' = [disk EXCEPT ![c] = disk[c] \ {arg[c]}] \/ disk' = disk
      BY <1>7 DEF DownloadAnswered
    <3> QED BY <3>1, <3>2, <3>3
  <2> QED BY <1>7, <2>1, <2>2, <2>3 DEF TypeOK, DownloadAnswered
<1> QED BY <1>3, <1>4, <1>5, <1>6, <1>7 DEF Answered

LEMMA ServerType ==
  ASSUME TypeOK, NEW c \in Clients, Server(c)
  PROVE  TypeOK'
<1> USE DEF fetchVars, ctlVars, fileVars, clientVars, serverVars
<1>1. <<>> \in Seq(Line) /\ registry \in Seq(Line) /\ Shares[c] \in Seq(Files)
  BY ElementsOfNone, TypeFacts DEF TypeOK
<1>2. ASSUME NEW request, Receive(c, request), NEW op, NEW list \in Seq(Line),
             op \in {"pingok", "pingbad", "publishack", "filelistres", "testok"},
             Respond(op, list), UNCHANGED registry, todo' \in Seq(Files)
      PROVE  TypeOK'
  <2>1. /\ sent' \in [Clients -> Seq(Request)] /\ client_sa' \in Hosts
        /\ faults' \in [count : 0..MaxFaults, disorder : BOOLEAN]
        /\ UNCHANGED <<clientVars, up, epoch>>
    BY <1>2, ReceiveEffect
  <2>2. sock' \in [Clients -> Seq(Reply)]
    BY <1>2, RespondEffect
  <2> QED BY <1>2, <2>1, <2>2 DEF TypeOK
<1>3. todo \in Seq(Files)
  BY DEF TypeOK
<1>4. CASE RespondPing(c)
  <2>1. PICK op \in {"pingok", "pingbad"} : Respond(op, <<>>)
    BY <1>4 DEF RespondPing
  <2> QED BY <1>1, <1>2, <1>3, <1>4, <2>1 DEF RespondPing
<1>5. CASE RespondTest(c)
  BY <1>1, <1>2, <1>3, <1>5 DEF RespondTest
<1>6. CASE RespondFilelist(c)
  BY <1>1, <1>2, <1>3, <1>6 DEF RespondFilelist
<1>7. CASE RespondPublish(c)
  BY <1>1, <1>2, <1>3, <1>7 DEF RespondPublish
<1> QED BY <1>4, <1>5, <1>6, <1>7 DEF Server

LEMMA StepType ==
  ASSUME TypeOK, [Next]_vars
  PROVE  TypeOK'
<1> USE DEF fetchVars, ctlVars, fileVars, clientVars, serverVars
<1>1. CASE UNCHANGED vars
  BY <1>1 DEF TypeOK, vars
<1>2. ASSUME NEW c \in Clients, DownloadEnds(c) PROVE TypeOK'
  <2>1. /\ pc' \in [Clients -> {"start", "idle", "writing", "quit"} \cup Waits]
        /\ arg' \in [Clients -> Files \cup {NoFile}]
    BY <1>2 DEF TypeOK, DownloadEnds
  <2>2. disk' \in [Clients -> SUBSET Files]
    <3>1. CASE UNCHANGED disk
      BY <3>1 DEF TypeOK
    <3>2. CASE ~ UNCHANGED disk
      <4>1. PICK p \in Clients : Source(p, arg[c], listing[c])
        BY <1>2, <3>2 DEF DownloadEnds
      <4>2. disk \in [Clients -> SUBSET Files] /\ arg[c] \in disk[p]
        BY <4>1 DEF TypeOK, Source
      <4>3. disk[c] \cup {arg[c]} \in SUBSET Files
        BY <4>2
      <4>4. disk' = [disk EXCEPT ![c] = disk[c] \cup {arg[c]}]
        BY <1>2, <3>2 DEF DownloadEnds
      <4> QED BY <4>2, <4>3, <4>4
    <3> QED BY <3>1, <3>2
  <2> QED BY <1>2, <2>1, <2>2 DEF TypeOK, DownloadEnds
<1>3. ASSUME NEW c \in Clients, Discard(c) PROVE TypeOK'
  <2>1. Tail(sent[c]) \in Seq(Request)
    BY <1>3, TypeFacts, HeadTailElements DEF Discard
  <2>2. sent' \in [Clients -> Seq(Request)]
    BY <1>3, <2>1 DEF TypeOK, Discard
  <2> QED BY <1>3, <2>2 DEF TypeOK, Discard
<1>4. CASE RegisterPeer
  <2>1. registry' \in Seq(Line) /\ todo' \in Seq(Files)
    BY <1>4, RegisterEffect
  <2> QED BY <1>4, <2>1 DEF TypeOK, RegisterPeer
<1>5. CASE Crash
  <2>1. registry' \in Seq(Line) /\ todo' \in Seq(Files)
    BY <1>5, ElementsOfNone DEF Crash
  <2>2. faults' \in [count : 0..MaxFaults, disorder : BOOLEAN]
    BY <1>5, FaultEffect DEF Crash
  <2>3. up' \in BOOLEAN /\ client_sa' \in Hosts
    BY <1>5 DEF Crash, Hosts
  <2> QED BY <1>5, <2>1, <2>2, <2>3 DEF TypeOK, Crash
<1>6. CASE StartAgain
  <2>1. epoch' \in Nat \ {0} /\ up' \in BOOLEAN
    BY <1>6 DEF TypeOK, StartAgain
  <2> QED BY <1>6, <2>1 DEF TypeOK, StartAgain
<1>7. CASE Network
  <2>1. /\ sent' \in [Clients -> Seq(Request)] /\ sock' \in [Clients -> Seq(Reply)]
        /\ faults' \in [count : 0..MaxFaults, disorder : BOOLEAN]
        /\ UNCHANGED <<clientVars, serverVars>>
    BY <1>7, NetworkEffect
  <2> QED BY <2>1 DEF TypeOK
<1>8. CASE Terminated
  BY <1>1, <1>8 DEF Terminated
<1> QED BY <1>1, <1>2, <1>3, <1>4, <1>5, <1>6, <1>7, <1>8,
           CommandType, TimeoutType, AnsweredType, ServerType DEF Next

\* In whatever order datagrams are lost, delayed, repeated and answered, every
\* variable of the clients, of ds_run and of the paths keeps its type: the count of
\* forwardings stays under MAX_FORWARDINGS, and the lists are lists of lines.
THEOREM TypeCorrect == Spec => []TypeOK
<1>1. TypeOK /\ [Next]_vars => TypeOK'
  BY StepType
<1> QED BY <1>1, InitType, PTL DEF Spec

-----------------------------------------------------------------------------
(* One line per hash, each peer in it once.                                *)

LEMMA RegistryChanges ==
  ASSUME [Next]_vars
  PROVE  UNCHANGED registry \/ RegisterPeer \/ Crash
<1> USE DEF serverVars
<1>1. ASSUME NEW c \in Clients, Command(c) PROVE UNCHANGED registry
  BY <1>1 DEF Command, CtlTest, CtlPing, CtlServe, CtlListremote, CtlDownload, CtlQuit, Online, Ask
<1>2. ASSUME NEW c \in Clients, Answered(c) PROVE UNCHANGED registry
  BY <1>2 DEF Answered, PingAnswered, PublishAnswered, ListAnswered, DownloadAnswered,
              TestAnswered, Take
<1>3. ASSUME NEW c \in Clients, Server(c) PROVE UNCHANGED registry
  BY <1>3 DEF Server, RespondPing, RespondTest, RespondFilelist, RespondPublish
<1>4. ASSUME NEW c \in Clients, Timeout(c) \/ DownloadEnds(c) \/ Discard(c)
      PROVE  UNCHANGED registry
  BY <1>4 DEF Timeout, DownloadEnds, Discard
<1>5. StartAgain \/ Network \/ Terminated \/ UNCHANGED vars => UNCHANGED registry
  BY DEF StartAgain, Network, Terminated, vars
<1> QED BY <1>1, <1>2, <1>3, <1>4, <1>5 DEF Next

LEMMA AppendNew ==
  ASSUME NEW S, NEW s \in Seq(S), NEW e \in S, IsInjective(s), e \notin ToSet(s)
  PROVE  IsInjective(Append(s, e))
<1> DEFINE t == Append(s, e)  n == Len(s)
<1>1. /\ n \in Nat /\ DOMAIN t = 1..(n + 1) /\ DOMAIN s = 1..n
      /\ (\A i \in 1..n : t[i] = s[i]) /\ t[n + 1] = e
  BY AppendProperties, LenProperties
<1>2. \A i \in 1..n : s[i] # e
  BY <1>1 DEF ToSet
<1>3. \A i, j \in 1..n : s[i] = s[j] => i = j
  BY <1>1 DEF IsInjective
<1> HIDE DEF t, n
<1>4. \A i \in 1..(n + 1) : i \in 1..n \/ i = n + 1
  BY <1>1
<1>5. ASSUME NEW i \in 1..(n + 1), NEW j \in 1..(n + 1), t[i] = t[j] PROVE i = j
  BY <1>1, <1>2, <1>3, <1>4, <1>5
<1>6. IsInjective(t)
  BY <1>1, <1>5 DEF IsInjective
<1> QED BY <1>6 DEF t

LEMMA SingleInjective == \A e : IsInjective(<<e>>)
<1>1. ASSUME NEW e PROVE DOMAIN <<e>> = {1}
  OBVIOUS
<1> QED BY <1>1 DEF IsInjective

LEMMA RegisterKeepsDistinct ==
  ASSUME TypeOK, LinesDistinct, RegisterPeer
  PROVE  LinesDistinct'
<1> DEFINE h == Head(todo)  n == Len(registry)
           Good(list) == /\ \A i, j \in DOMAIN list : list[i].hash = list[j].hash => i = j
                         /\ \A i \in DOMAIN list : IsInjective(list[i].peers)
<1>1. LinesDistinct <=> Good(registry)
  BY DEF LinesDistinct, ToSet
<1>2. LinesDistinct' <=> Good(registry')
  BY DEF LinesDistinct, ToSet
<1>3. /\ registry \in Seq(Line) /\ n \in Nat /\ DOMAIN registry = 1..n
      /\ client_sa \in Hosts /\ h \in Files
  BY LenProperties, RegisterEffect DEF TypeOK
<1>4. ASSUME NEW k \in 1..n, registry[k].hash = h, client_sa \notin ToSet(registry[k].peers),
             registry' = [registry EXCEPT ![k].peers = Append(@, client_sa)]
      PROVE  Good(registry')
  <2> DEFINE peers == Append(registry[k].peers, client_sa)
  <2>1. registry[k] \in Line /\ registry[k].peers \in Seq(Hosts)
    <3>1. registry[k] \in Line
      BY <1>3, ElementOfSeq
    <3> QED BY <3>1 DEF Line
  <2>2. IsInjective(registry[k].peers)
    BY <1>1, <1>3
  <2>3. IsInjective(peers)
    BY <1>3, <1>4, <2>1, <2>2, AppendNew
  <2>4. /\ DOMAIN registry' = 1..n
        /\ \A i \in 1..n : registry'[i].hash = registry[i].hash
        /\ \A i \in 1..n : i # k => registry'[i].peers = registry[i].peers
        /\ registry'[k].peers = peers
    <3>1. registry[k] = [hash |-> registry[k].hash, peers |-> registry[k].peers]
      BY <2>1 DEF Line
    <3> QED BY <1>3, <1>4, <3>1
  <2> HIDE DEF n, peers
  <2> QED BY <1>1, <1>3, <2>3, <2>4
<1>5. ASSUME \A k \in 1..n : registry[k].hash # h,
             registry' = Append(registry, [hash |-> h, peers |-> <<client_sa>>])
      PROVE  Good(registry')
  <2> DEFINE line == [hash |-> h, peers |-> <<client_sa>>]
  <2>1. line \in Line /\ line.hash = h /\ line.peers = <<client_sa>>
    BY <1>3, SingleElement DEF Line
  <2>2. IsInjective(line.peers)
    BY <2>1, SingleInjective
  <2> HIDE DEF line
  <2>3. registry' = Append(registry, line)
    BY <1>5 DEF line
  <2>4. /\ DOMAIN registry' = 1..(n + 1)
        /\ \A i \in 1..n : registry'[i] = registry[i]
        /\ registry'[n + 1] = line
    BY <1>3, <2>1, <2>3, AppendProperties, LenProperties
  <2> HIDE DEF n
  <2>5. \A i \in 1..(n + 1) : i \in 1..n \/ i = n + 1
    BY <1>3
  <2> HIDE DEF h
  <2>6. ASSUME NEW i \in 1..(n + 1), NEW j \in 1..(n + 1), registry'[i].hash = registry'[j].hash
        PROVE  i = j
    BY <1>1, <1>3, <1>5, <2>1, <2>4, <2>5, <2>6
  <2>7. ASSUME NEW i \in 1..(n + 1) PROVE IsInjective(registry'[i].peers)
    BY <1>1, <1>3, <2>2, <2>4, <2>5
  <2> QED BY <2>4, <2>6, <2>7
<1>6. \/ \E k \in 1..n : registry[k].hash = h /\ client_sa \notin ToSet(registry[k].peers)
           /\ registry' = [registry EXCEPT ![k].peers = Append(@, client_sa)]
      \/ registry' = registry
      \/ /\ \A k \in 1..n : registry[k].hash # h
         /\ registry' = Append(registry, [hash |-> h, peers |-> <<client_sa>>])
  BY <1>3 DEF RegisterPeer
<1> HIDE DEF Good, h, n
<1> QED BY <1>1, <1>2, <1>4, <1>5, <1>6

\* However often a publish is sent, delivered or repeated, and whatever address the
\* directory takes it to come from, filedb_find_hash and sl_exists keep one line per
\* hash and each peer in it once.
THEOREM NoDuplicates == Spec => []LinesDistinct
<1>1. Init => LinesDistinct
  <2>1. Init => registry = <<>> /\ DOMAIN <<>> = {} /\ ToSet(<<>>) = {}
    BY ElementsOfNone DEF Init
  <2> QED BY <2>1 DEF LinesDistinct
<1>2. ASSUME TypeOK, LinesDistinct, [Next]_vars PROVE LinesDistinct'
  <2>1. CASE UNCHANGED registry
    BY <1>2, <2>1 DEF LinesDistinct
  <2>2. CASE RegisterPeer
    BY <1>2, <2>2, RegisterKeepsDistinct
  <2>3. CASE Crash
    <3>1. registry' = <<>> /\ DOMAIN <<>> = {} /\ ToSet(<<>>) = {}
      BY <2>3, ElementsOfNone DEF Crash
    <3> QED BY <3>1 DEF LinesDistinct
  <2> QED BY <1>2, <2>1, <2>2, <2>3, RegistryChanges
<1> QED BY <1>1, <1>2, TypeCorrect, PTL DEF Spec

-----------------------------------------------------------------------------
(* The directory and its acknowledgements.                                 *)

\* A step that leaves alone the directory, what its clients know of it and the
\* replies, except that replies may be lost, repeated and reordered.
Quiet == /\ UNCHANGED <<serverVars, acked, text, listing>>
         /\ \A d \in Clients : ToSet(sock'[d]) \subseteq ToSet(sock[d])

LEMMA StepKinds ==
  ASSUME TypeOK, [Next]_vars
  PROVE  \/ Quiet
         \/ \E c \in Clients : Answered(c) \/ Server(c)
         \/ RegisterPeer \/ Crash \/ StartAgain
<1> USE DEF fetchVars, ctlVars, fileVars, clientVars, serverVars
<1>1. ASSUME NEW c \in Clients, Command(c) PROVE Quiet
  BY <1>1 DEF Quiet, Command, CtlTest, CtlPing, CtlServe, CtlListremote, CtlDownload, CtlQuit,
              Online, Ask
<1>2. ASSUME NEW c \in Clients, Timeout(c) \/ DownloadEnds(c) \/ Discard(c) PROVE Quiet
  BY <1>2 DEF Quiet, Timeout, DownloadEnds, Discard
<1>3. Network => Quiet
  BY NetworkEffect DEF Quiet
<1>4. Terminated \/ UNCHANGED vars => Quiet
  BY DEF Quiet, Terminated, vars
<1> QED BY <1>1, <1>2, <1>3, <1>4 DEF Next

LEMMA AnsweredEffect ==
  ASSUME TypeOK, NEW c \in Clients, Answered(c)
  PROVE  LET r == Head(sock[c])
         IN  /\ UNCHANGED serverVars /\ UNCHANGED faults
             /\ r \in Reply /\ r \in ToSet(sock[c])
             /\ sock' \in [Clients -> Seq(Reply)] /\ sock'[c] = Tail(sock[c])
             /\ \A d \in Clients : ToSet(sock'[d]) \subseteq ToSet(sock[d])
             /\ \A d \in Clients \ {c} : /\ text'[d] = text[d] /\ listing'[d] = listing[d]
                                         /\ acked'[d] = acked[d] /\ sock'[d] = sock[d]
             /\ text'[c] = TextAfter(r, text[c])
             /\ listing'[c] = listing[c] \/ listing'[c] = Fetched(r, text[c])
             /\ \/ acked'[c] = acked[c]
                \/ r.op = "publishack" /\ acked'[c] = Max({acked[c], r.epoch})
<1> USE DEF fetchVars, ctlVars, fileVars, clientVars
<1> DEFINE r == Head(sock[c])
<1>1. PICK wait : Take(c, wait)
  BY DEF Answered, PingAnswered, PublishAnswered, ListAnswered, DownloadAnswered, TestAnswered
<1>2. UNCHANGED serverVars /\ UNCHANGED faults
  BY <1>1 DEF Take
<1>3. /\ r \in Reply /\ r \in ToSet(sock[c])
      /\ sock' \in [Clients -> Seq(Reply)] /\ sock'[c] = Tail(sock[c])
      /\ \A d \in Clients : ToSet(sock'[d]) \subseteq ToSet(sock[d])
      /\ \A d \in Clients \ {c} : text'[d] = text[d] /\ sock'[d] = sock[d]
      /\ text'[c] = TextAfter(r, text[c])
  BY <1>1, TakeEffect
<1>4. /\ listing' = listing \/ listing' = [listing EXCEPT ![c] = Fetched(r, text[c])]
      /\ \/ acked' = acked
         \/ r.op = "publishack" /\ acked' = [acked EXCEPT ![c] = Max({acked[c], r.epoch})]
  BY DEF Answered, PingAnswered, PublishAnswered, ListAnswered, DownloadAnswered, TestAnswered
<1>5. listing \in [Clients -> Seq(Line)] /\ acked \in [Clients -> Nat]
  BY DEF TypeOK
<1> HIDE DEF r
<1> DEFINE f == Fetched(r, text[c])  m == Max({acked[c], r.epoch})
<1>6. /\ listing' = listing \/ listing' = [listing EXCEPT ![c] = f]
      /\ acked' = acked \/ (r.op = "publishack" /\ acked' = [acked EXCEPT ![c] = m])
  BY <1>4
<1> HIDE DEF f, m
<1>7. /\ \A d \in Clients \ {c} : listing'[d] = listing[d] /\ acked'[d] = acked[d]
      /\ listing'[c] = listing[c] \/ listing'[c] = f
      /\ acked'[c] = acked[c] \/ (r.op = "publishack" /\ acked'[c] = m)
  BY <1>5, <1>6
<1> QED BY <1>2, <1>3, <1>7 DEF r, f, m

\* What the directory does when it takes a datagram of c and answers r.
Serves(c, r) ==
  /\ r.epoch = epoch
  /\ up /\ todo = <<>> /\ client_sa' \in Hosts
  /\ UNCHANGED <<clientVars, up, epoch, registry>>
  /\ \A d \in Clients : d = client_sa' => sock'[d] = Append(sock[d], r)
                                            /\ ToSet(sock'[d]) = ToSet(sock[d]) \cup {r}
  /\ \A d \in Clients : d # client_sa' => sock'[d] = sock[d]
  /\ \/ r.op = "publishack" /\ r.list = <<>> /\ todo' = Shares[c]
     \/ r.op = "filelistres" /\ r.list = registry /\ todo' = <<>>
     \/ r.op \in {"pingok", "pingbad", "testok"} /\ r.list = <<>> /\ todo' = <<>>
  /\ \A wait \in Waits : Head(sent[c]) = RequestOf(wait) => r.op \in Answer(wait)
  /\ "addrlen" \notin Faults => client_sa' = c

LEMMA ServerEffect ==
  ASSUME TypeOK, NEW c \in Clients, Server(c)
  PROVE  \E r \in Reply : Serves(c, r)
<1>1. ASSUME NEW wait \in Waits, Receive(c, RequestOf(wait)), NEW op, NEW list \in Seq(Line),
             op \in Answer(wait), Respond(op, list), UNCHANGED registry,
             \/ op = "publishack" /\ list = <<>> /\ todo' = Shares[c]
             \/ op = "filelistres" /\ list = registry /\ todo' = <<>>
             \/ op \in {"pingok", "pingbad", "testok"} /\ list = <<>> /\ todo' = <<>>
      PROVE  \E r \in Reply : Serves(c, r)
  <2> DEFINE r == [op |-> op, list |-> list, epoch |-> epoch]
  <2>1. op \in {"pingok", "pingbad", "publishack", "filelistres", "testok"}
    BY <1>1
  <2>2. /\ r \in Reply
        /\ \A d \in Clients : d = client_sa' => sock'[d] = Append(sock[d], r)
                                                  /\ ToSet(sock'[d]) = ToSet(sock[d]) \cup {r}
        /\ \A d \in Clients : d # client_sa' => sock'[d] = sock[d]
    BY <1>1, <2>1, RespondEffect
  <2>3. /\ up /\ todo = <<>> /\ client_sa' \in Hosts /\ UNCHANGED <<clientVars, up, epoch>>
        /\ Head(sent[c]) = RequestOf(wait)
        /\ "addrlen" \notin Faults => client_sa' = c
    BY <1>1, ReceiveEffect
  <2>4. r.op = op /\ r.list = list /\ r.epoch = epoch
    OBVIOUS
  <2>5. \A w \in Waits : RequestOf(w) = RequestOf(wait) => Answer(w) = Answer(wait)
    BY DEF Waits, RequestOf, Answer
  <2> HIDE DEF r
  <2>6. Serves(c, r)
    BY <1>1, <2>2, <2>3, <2>4, <2>5 DEF Serves
  <2> QED BY <2>2, <2>6
<1>2. <<>> \in Seq(Line) /\ registry \in Seq(Line)
  BY ElementsOfNone DEF TypeOK
<1>3. /\ \A w \in {"ping", "publish", "list", "test"} : w \in Waits
      /\ RequestOf("ping") = "ping" /\ RequestOf("publish") = "publish"
      /\ RequestOf("list") = "filelist" /\ RequestOf("test") = "test"
      /\ Answer("ping") = {"pingok", "pingbad"} /\ Answer("publish") = {"publishack"}
      /\ Answer("list") = {"filelistres"} /\ Answer("test") = {"testok"}
  BY DEF Waits, RequestOf, Answer
<1>4. CASE RespondPing(c)
  <2>1. PICK op \in {"pingok", "pingbad"} : Respond(op, <<>>)
    BY <1>4 DEF RespondPing
  <2>2. Receive(c, "ping") /\ UNCHANGED registry /\ UNCHANGED todo
    BY <1>4 DEF RespondPing
  <2>3. todo = <<>>
    BY <2>2 DEF Receive
  <2> QED BY <1>1, <1>2, <1>3, <2>1, <2>2, <2>3
<1>5. CASE RespondTest(c)
  <2>1. Receive(c, "test") /\ Respond("testok", <<>>) /\ UNCHANGED registry /\ UNCHANGED todo
    BY <1>5 DEF RespondTest
  <2>2. todo = <<>>
    BY <2>1 DEF Receive
  <2> QED BY <1>1, <1>2, <1>3, <2>1, <2>2
<1>6. CASE RespondFilelist(c)
  <2>1. /\ Receive(c, "filelist") /\ Respond("filelistres", registry)
        /\ UNCHANGED registry /\ UNCHANGED todo
    BY <1>6 DEF RespondFilelist
  <2>2. todo = <<>>
    BY <2>1 DEF Receive
  <2> QED BY <1>1, <1>2, <1>3, <2>1, <2>2
<1>7. CASE RespondPublish(c)
  <2>1. /\ Receive(c, "publish") /\ Respond("publishack", <<>>)
        /\ UNCHANGED registry /\ todo' = Shares[c]
    BY <1>7 DEF RespondPublish
  <2> QED BY <1>1, <1>2, <1>3, <2>1
<1> QED BY <1>4, <1>5, <1>6, <1>7 DEF Server

LEMMA RegisterPairs ==
  ASSUME TypeOK, RegisterPeer, client_sa \in Clients
  PROVE  Pairs(registry') = Pairs(registry) \cup {<<Head(todo), client_sa>>}
<1> DEFINE h == Head(todo)
<1>1. /\ registry \in Seq(Line) /\ registry' \in Seq(Line)
      /\ \A f, p : Names(registry', f, p) <=>
           Names(registry, f, p) \/ (f = h /\ p = client_sa /\ p \in Clients)
  BY RegisterEffect DEF TypeOK
<1> HIDE DEF h
<1>2. ASSUME NEW x \in Pairs(registry') PROVE x \in Pairs(registry) \cup {<<h, client_sa>>}
  <2>1. x = <<x[1], x[2]>> /\ Names(registry', x[1], x[2])
    BY <1>1, PairsNames
  <2>2. Names(registry, x[1], x[2]) \/ x = <<h, client_sa>>
    BY <1>1, <2>1
  <2>3. Names(registry, x[1], x[2]) => <<x[1], x[2]>> \in Pairs(registry)
    BY <1>1, PairsNames
  <2> QED BY <2>1, <2>2, <2>3
<1>3. ASSUME NEW x \in Pairs(registry) PROVE x \in Pairs(registry')
  <2>1. x = <<x[1], x[2]>> /\ Names(registry, x[1], x[2])
    BY <1>1, PairsNames
  <2>2. <<x[1], x[2]>> \in Pairs(registry')
    BY <1>1, <2>1, PairsNames
  <2> QED BY <2>1, <2>2
<1>4. <<h, client_sa>> \in Pairs(registry')
  BY <1>1, PairsNames
<1>5. Pairs(registry') = Pairs(registry) \cup {<<h, client_sa>>}
  BY <1>2, <1>3, <1>4
<1> QED BY <1>5 DEF h

\* A publish in the course of being registered is that of the client whose address
\* the directory holds.
Registering == todo # <<>> => /\ up /\ client_sa \in Clients
                              /\ ToSet(todo) \subseteq ToSet(Shares[client_sa])

\* A directory that is down holds nothing.
DownIsEmpty == ~ up => registry = <<>> /\ todo = <<>>

\* No acknowledgement and no reply is of a directory yet to be started.
EpochsPast == \A c \in Clients : /\ acked[c] <= epoch
                                 /\ \A r \in ToSet(sock[c]) : r.epoch <= epoch

\* Every line that can be read names publishers of its file only: in the registry,
\* in the replies under way, in recv_buff and in what was made of it.
TrueLines(list) == \A pair \in Pairs(list) : pair[1] # NoFile => pair[1] \in ToSet(Shares[pair[2]])
LinesTrue == /\ TrueLines(registry)
             /\ \A c \in Clients : /\ TrueLines(text[c]) /\ TrueLines(listing[c])
                                   /\ \A r \in ToSet(sock[c]) : TrueLines(r.list)

\* A publishack of the directory that runs, taken or under way, is of a client whose
\* files it has, but for those it is registering.
AllRegistered(c) == \A f \in ToSet(Shares[c]) : \/ <<f, c>> \in Pairs(registry)
                                                \/ f \in ToSet(todo) /\ client_sa = c
Acknowledged(c) == \/ acked[c] = epoch
                   \/ \E r \in ToSet(sock[c]) : r.op = "publishack" /\ r.epoch = epoch
AcksRegistered == \A c \in Clients : up /\ Acknowledged(c) => AllRegistered(c)

RegistryInv == TypeOK /\ Registering /\ DownIsEmpty /\ EpochsPast /\ LinesTrue /\ AcksRegistered

LEMMA RegistryInvInit == Init => RegistryInv
<1> SUFFICES ASSUME Init PROVE RegistryInv
  OBVIOUS
<1>1. /\ registry = <<>> /\ todo = <<>> /\ up /\ epoch = 1
      /\ \A c \in Clients : /\ acked[c] = 0 /\ sock[c] = <<>>
                            /\ text[c] = <<>> /\ listing[c] = <<>>
  BY DEF Init
<1>2. Pairs(<<>>) = {} /\ ToSet(<<>>) = {}
  BY PairsNone, ElementsOfNone
<1>3. Registering /\ DownIsEmpty
  BY <1>1 DEF Registering, DownIsEmpty
<1>4. EpochsPast /\ LinesTrue
  BY <1>1, <1>2 DEF EpochsPast, LinesTrue, TrueLines
<1>5. AcksRegistered
  BY <1>1, <1>2 DEF AcksRegistered, Acknowledged
<1> QED BY <1>3, <1>4, <1>5, InitType DEF RegistryInv

LEMMA TrueOfLines ==
  ASSUME NEW list \in Seq(Line), NEW one \in Seq(Line), NEW two \in Seq(Line),
         ToSet(list) \subseteq ToSet(one) \cup ToSet(two) \cup {Garbled},
         TrueLines(one), TrueLines(two)
  PROVE  TrueLines(list)
<1>1. Pairs(list) \subseteq Pairs(one) \cup Pairs(two)
  BY PairsOfLines
<1> QED BY <1>1 DEF TrueLines

LEMMA QuietKeeps ==
  ASSUME RegistryInv, Quiet
  PROVE  Registering' /\ DownIsEmpty' /\ EpochsPast' /\ LinesTrue' /\ AcksRegistered'
<1> USE DEF Quiet, serverVars
<1>1. Registering' /\ DownIsEmpty'
  BY DEF RegistryInv, Registering, DownIsEmpty
<1>2. EpochsPast'
  BY DEF RegistryInv, EpochsPast
<1>3. LinesTrue'
  BY DEF RegistryInv, LinesTrue
<1>4. \A c \in Clients : Acknowledged(c)' => Acknowledged(c)
  BY DEF Acknowledged
<1>5. \A c \in Clients : AllRegistered(c) => AllRegistered(c)'
  BY DEF AllRegistered
<1>6. AcksRegistered'
  BY <1>4, <1>5 DEF RegistryInv, AcksRegistered
<1> QED BY <1>1, <1>2, <1>3, <1>6

LEMMA AnsweredKeeps ==
  ASSUME RegistryInv, NEW c \in Clients, Answered(c)
  PROVE  Registering' /\ DownIsEmpty' /\ EpochsPast' /\ LinesTrue' /\ AcksRegistered'
<1> DEFINE r == Head(sock[c])
<1>1. TypeOK
  BY DEF RegistryInv
<1>2. /\ UNCHANGED serverVars
      /\ r \in Reply /\ r \in ToSet(sock[c])
      /\ \A d \in Clients : ToSet(sock'[d]) \subseteq ToSet(sock[d])
      /\ \A d \in Clients \ {c} : /\ text'[d] = text[d] /\ listing'[d] = listing[d]
                                  /\ acked'[d] = acked[d]
      /\ text'[c] = TextAfter(r, text[c])
      /\ listing'[c] = listing[c] \/ listing'[c] = Fetched(r, text[c])
      /\ \/ acked'[c] = acked[c]
         \/ r.op = "publishack" /\ acked'[c] = Max({acked[c], r.epoch})
  BY <1>1, AnsweredEffect
<1> HIDE DEF r
<1>3. Registering' /\ DownIsEmpty'
  BY <1>2 DEF RegistryInv, Registering, DownIsEmpty, serverVars
<1>4. \/ acked'[c] = acked[c]
      \/ r.op = "publishack" /\ acked'[c] = r.epoch
  <2>1. acked[c] \in Nat /\ r.epoch \in Nat
    BY <1>1, <1>2, TypeFacts, ReplyFields
  <2>2. Max({acked[c], r.epoch}) \in {acked[c], r.epoch}
    BY <2>1, GreaterOfTwo
  <2> QED BY <1>2, <2>2
<1>5. EpochsPast'
  BY <1>2, <1>4 DEF RegistryInv, EpochsPast, serverVars
<1>6. /\ TrueLines(r.list) /\ TrueLines(text[c]) /\ TrueLines(listing[c])
      /\ text[c] \in Seq(Line) /\ r.list \in Seq(Line)
  BY <1>1, <1>2, TypeFacts, ReplyFields DEF RegistryInv, LinesTrue
<1>7. TrueLines(TextAfter(r, text[c])) /\ TrueLines(Fetched(r, text[c]))
  <2>1. TrueLines(TextAfter(r, text[c]))
    BY <1>2, <1>6, TextAfterLines, TrueOfLines
  <2>2. TrueLines(Fetched(r, text[c]))
    BY <1>2, <1>6, FetchedLines, TrueOfLines
  <2> QED BY <2>1, <2>2
<1>8. LinesTrue'
  <2>1. TrueLines(registry)'
    BY <1>2 DEF RegistryInv, LinesTrue, serverVars
  <2>2. ASSUME NEW d \in Clients
        PROVE  /\ TrueLines(text'[d]) /\ TrueLines(listing'[d])
               /\ \A q \in ToSet(sock'[d]) : TrueLines(q.list)
    <3>1. \A q \in ToSet(sock'[d]) : TrueLines(q.list)
      BY <1>2 DEF RegistryInv, LinesTrue
    <3>2. CASE d = c
      BY <1>2, <1>6, <1>7, <3>1, <3>2
    <3>3. CASE d # c
      BY <1>2, <3>1, <3>3 DEF RegistryInv, LinesTrue
    <3> QED BY <3>2, <3>3
  <2> QED BY <2>1, <2>2 DEF LinesTrue, TrueLines
<1>9. AcksRegistered'
  <2>1. \A d \in Clients : Acknowledged(d)' => Acknowledged(d)
    BY <1>2, <1>4 DEF Acknowledged, serverVars
  <2>2. \A d \in Clients : AllRegistered(d) => AllRegistered(d)'
    BY <1>2 DEF AllRegistered, serverVars
  <2> QED BY <1>2, <2>1, <2>2 DEF RegistryInv, AcksRegistered, serverVars
<1> QED BY <1>3, <1>5, <1>8, <1>9

LEMMA ServerKeeps ==
  ASSUME RegistryInv, NEW c \in Clients, Server(c), "addrlen" \notin Faults
  PROVE  Registering' /\ DownIsEmpty' /\ EpochsPast' /\ LinesTrue' /\ AcksRegistered'
<1>1. TypeOK
  BY DEF RegistryInv
<1>2. PICK r \in Reply : Serves(c, r)
  BY <1>1, ServerEffect
<1>3. /\ r.epoch = epoch /\ up /\ todo = <<>> /\ client_sa' = c
      /\ UNCHANGED <<pc, text, listing, acked, up, epoch, registry>>
      /\ ToSet(sock'[c]) = ToSet(sock[c]) \cup {r}
      /\ \A d \in Clients : d # c => sock'[d] = sock[d]
      /\ \/ r.op = "publishack" /\ r.list = <<>> /\ todo' = Shares[c]
         \/ r.op = "filelistres" /\ r.list = registry /\ todo' = <<>>
         \/ r.op \in {"pingok", "pingbad", "testok"} /\ r.list = <<>> /\ todo' = <<>>
  BY <1>2 DEF Serves, clientVars, fetchVars, ctlVars
<1>4. ToSet(<<>>) = {} /\ Pairs(<<>>) = {}
  BY ElementsOfNone, PairsNone
<1>5. Registering'
  BY <1>3 DEF Registering
<1>6. DownIsEmpty'
  BY <1>3 DEF DownIsEmpty
<1>7. EpochsPast'
  <2>1. epoch <= epoch
    BY <1>1 DEF TypeOK
  <2>2. \A d \in Clients : \A q \in ToSet(sock'[d]) : q \in ToSet(sock[d]) \/ q = r
    BY <1>3
  <2> QED BY <1>3, <2>1, <2>2 DEF RegistryInv, EpochsPast
<1>8. LinesTrue'
  <2>1. TrueLines(r.list)
    BY <1>3, <1>4 DEF RegistryInv, LinesTrue, TrueLines
  <2>2. \A d \in Clients : \A q \in ToSet(sock'[d]) : q \in ToSet(sock[d]) \/ q = r
    BY <1>3
  <2>3. \A d \in Clients : \A q \in ToSet(sock'[d]) : TrueLines(q.list)
    BY <2>1, <2>2 DEF RegistryInv, LinesTrue
  <2> QED BY <1>3, <2>3 DEF RegistryInv, LinesTrue, TrueLines
<1>9. AcksRegistered'
  <2>1. ASSUME NEW d \in Clients, Acknowledged(d)' PROVE AllRegistered(d)'
    <3>1. CASE Acknowledged(d)
      <4>1. AllRegistered(d)
        BY <1>3, <3>1 DEF RegistryInv, AcksRegistered
      <4>2. \A f \in ToSet(Shares[d]) : <<f, d>> \in Pairs(registry)
        BY <1>3, <1>4, <4>1 DEF AllRegistered
      <4> QED BY <1>3, <4>2 DEF AllRegistered
    <3>2. CASE ~ Acknowledged(d)
      <4>1. d = c /\ r.op = "publishack"
        BY <1>3, <2>1, <3>2 DEF Acknowledged
      <4> QED BY <1>3, <4>1 DEF AllRegistered
    <3> QED BY <3>1, <3>2
  <2> QED BY <2>1 DEF AcksRegistered
<1> QED BY <1>5, <1>6, <1>7, <1>8, <1>9

LEMMA RegisterKeeps ==
  ASSUME RegistryInv, RegisterPeer
  PROVE  Registering' /\ DownIsEmpty' /\ EpochsPast' /\ LinesTrue' /\ AcksRegistered'
<1> DEFINE h == Head(todo)
<1>1. TypeOK
  BY DEF RegistryInv
<1>2. /\ todo # <<>> /\ ToSet(todo) = {h} \cup ToSet(todo')
      /\ UNCHANGED <<text, listing, acked, up, client_sa, epoch, sock>>
  BY <1>1, RegisterEffect DEF RegisterPeer, clientVars, fetchVars, ctlVars
<1>3. up /\ client_sa \in Clients /\ ToSet(todo) \subseteq ToSet(Shares[client_sa])
  BY <1>2 DEF RegistryInv, Registering
<1>4. Pairs(registry') = Pairs(registry) \cup {<<h, client_sa>>}
  BY <1>1, <1>3, RegisterPairs
<1> HIDE DEF h
<1>5. Registering'
  BY <1>2, <1>3 DEF Registering
<1>6. DownIsEmpty'
  BY <1>2, <1>3 DEF DownIsEmpty
<1>7. EpochsPast'
  BY <1>2 DEF RegistryInv, EpochsPast
<1>8. LinesTrue'
  <2>1. \A pair \in Pairs(registry') : pair[1] # NoFile => pair[1] \in ToSet(Shares[pair[2]])
    BY <1>2, <1>3, <1>4 DEF RegistryInv, LinesTrue, TrueLines
  <2> QED BY <1>2, <2>1 DEF RegistryInv, LinesTrue, TrueLines
<1>9. AcksRegistered'
  <2>1. \A d \in Clients : Acknowledged(d)' => Acknowledged(d)
    BY <1>2 DEF Acknowledged
  <2>2. \A d \in Clients : AllRegistered(d) => AllRegistered(d)'
    BY <1>2, <1>4 DEF AllRegistered
  <2> QED BY <1>2, <2>1, <2>2 DEF RegistryInv, AcksRegistered
<1> QED BY <1>5, <1>6, <1>7, <1>8, <1>9

LEMMA CrashKeeps ==
  ASSUME RegistryInv, Crash
  PROVE  Registering' /\ DownIsEmpty' /\ EpochsPast' /\ LinesTrue' /\ AcksRegistered'
<1>1. /\ ~ up' /\ registry' = <<>> /\ todo' = <<>>
      /\ UNCHANGED <<text, listing, acked, epoch, sock>>
  BY DEF Crash, clientVars, fetchVars, ctlVars
<1>2. Pairs(<<>>) = {}
  BY PairsNone
<1>3. Registering' /\ DownIsEmpty' /\ AcksRegistered'
  BY <1>1 DEF Registering, DownIsEmpty, AcksRegistered
<1>4. EpochsPast'
  BY <1>1 DEF RegistryInv, EpochsPast
<1>5. LinesTrue'
  BY <1>1, <1>2 DEF RegistryInv, LinesTrue, TrueLines
<1> QED BY <1>3, <1>4, <1>5

LEMMA StartKeeps ==
  ASSUME RegistryInv, StartAgain
  PROVE  Registering' /\ DownIsEmpty' /\ EpochsPast' /\ LinesTrue' /\ AcksRegistered'
<1>1. /\ ~ up /\ up' /\ epoch' = epoch + 1 /\ epoch \in Nat
      /\ UNCHANGED <<text, listing, acked, sock, registry, client_sa, todo>>
  BY DEF StartAgain, clientVars, fetchVars, ctlVars, RegistryInv, TypeOK
<1>2. Registering' /\ DownIsEmpty'
  BY <1>1 DEF RegistryInv, Registering, DownIsEmpty
<1>3. /\ \A c \in Clients : acked[c] \in Nat /\ acked[c] <= epoch
      /\ \A c \in Clients : \A r \in ToSet(sock[c]) : r.epoch \in Nat /\ r.epoch <= epoch
  <2>1. TypeOK /\ EpochsPast
    BY DEF RegistryInv
  <2>2. ASSUME NEW c \in Clients, NEW r \in ToSet(sock[c]) PROVE r.epoch \in Nat
    <3>1. r \in Reply
      BY <2>1, TypeFacts, ElementsOf
    <3> QED BY <3>1, ReplyFields
  <2>3. \A c \in Clients : acked[c] \in Nat
    BY <2>1, TypeFacts
  <2> QED BY <2>1, <2>2, <2>3 DEF EpochsPast
<1>4. \A n \in Nat : n <= epoch => n <= epoch' /\ n # epoch'
  BY <1>1
<1>5. EpochsPast'
  BY <1>1, <1>3, <1>4 DEF EpochsPast
<1>6. LinesTrue'
  BY <1>1 DEF RegistryInv, LinesTrue
<1>7. \A c \in Clients : ~ Acknowledged(c)'
  BY <1>1, <1>3, <1>4 DEF Acknowledged
<1>8. AcksRegistered'
  BY <1>7 DEF AcksRegistered
<1> QED BY <1>2, <1>5, <1>6, <1>8

LEMMA RegistryInvariant ==
  ASSUME "addrlen" \notin Faults
  PROVE  Spec => []RegistryInv
<1>1. ASSUME RegistryInv, [Next]_vars PROVE RegistryInv'
  <2>1. TypeOK /\ TypeOK'
    BY <1>1, StepType DEF RegistryInv
  <2>2. Registering' /\ DownIsEmpty' /\ EpochsPast' /\ LinesTrue' /\ AcksRegistered'
    BY <1>1, <2>1, StepKinds, QuietKeeps, AnsweredKeeps, ServerKeeps, RegisterKeeps, CrashKeeps,
       StartKeeps
  <2> QED BY <2>1, <2>2 DEF RegistryInv
<1> QED BY <1>1, RegistryInvInit, PTL DEF Spec

\* ds_respond acknowledges a publish before ds_register_peer has registered its files;
\* still, whatever is lost, repeated, delayed or reordered and however often the
\* directory is started again, a client that was told so by the directory that runs
\* has every file registered or being registered.
THEOREM AcksAreRegistered ==
  ASSUME "addrlen" \notin Faults
  PROVE  Spec => []AckedIsRegistered
<1>1. RegistryInv => AckedIsRegistered
  BY DEF RegistryInv, AcksRegistered, Acknowledged, AllRegistered, AckedIsRegistered
<1> QED BY <1>1, RegistryInvariant, PTL

\* What a client reads may be stale, spoilt or from another directory, but no line
\* it can read sends it to a peer that did not publish the file.
THEOREM NobodyMisattributed ==
  ASSUME "addrlen" \notin Faults
  PROVE  Spec => []NeverMisattributed
<1>1. RegistryInv => NeverMisattributed
  BY DEF RegistryInv, LinesTrue, TrueLines, NeverMisattributed
<1> QED BY <1>1, RegistryInvariant, PTL

-----------------------------------------------------------------------------
(* The directory implements module Registry.                               *)

KnownNow == Pairs(registry) \cup (ToSet(todo) \X {client_sa})
AckedNow == {c \in Clients : up /\ acked[c] = epoch}

LEMMA PromisedSteps ==
  ASSUME TypeOK
  PROVE  /\ Promises!RegistryInit <=> KnownNow = {} /\ AckedNow = {}
         /\ \A c \in Clients :
              /\ Promises!Publish(c) <=> KnownNow' = KnownNow \cup (ToSet(Shares[c]) \X {c})
                                           /\ AckedNow' = AckedNow
              /\ Promises!Acknowledge(c) <=> /\ ToSet(Shares[c]) \X {c} \subseteq KnownNow
                                             /\ AckedNow' = AckedNow \cup {c}
                                             /\ KnownNow' = KnownNow
         /\ Promises!Restart <=> KnownNow' = {} /\ AckedNow' = {}
  BY DEF Promises!RegistryInit, Promises!Publish, Promises!Acknowledge, Promises!Restart,
         Promises!OffersOf, KnownNow, AckedNow

LEMMA RegistryStep ==
  ASSUME RegistryInv, [Next]_vars, "addrlen" \notin Faults
  PROVE  \/ Promises!RegistryNext
         \/ KnownNow' = KnownNow /\ AckedNow' = AckedNow
<1>1. TypeOK
  BY DEF RegistryInv
<1>2. ToSet(<<>>) = {} /\ Pairs(<<>>) = {}
  BY ElementsOfNone, PairsNone
<1>3. CASE Quiet
  BY <1>3 DEF Quiet, serverVars, KnownNow, AckedNow
<1>4. ASSUME NEW c \in Clients, Answered(c)
      PROVE  Promises!RegistryNext \/ (KnownNow' = KnownNow /\ AckedNow' = AckedNow)
  <2> DEFINE r == Head(sock[c])
  <2>1. /\ UNCHANGED <<up, registry, client_sa, todo, epoch>>
        /\ r \in Reply /\ r \in ToSet(sock[c])
        /\ \A d \in Clients \ {c} : acked'[d] = acked[d]
        /\ \/ acked'[c] = acked[c]
           \/ r.op = "publishack" /\ acked'[c] = Max({acked[c], r.epoch})
    BY <1>1, <1>4, AnsweredEffect DEF serverVars
  <2> HIDE DEF r
  <2>2. KnownNow' = KnownNow
    BY <2>1 DEF KnownNow
  <2>3. CASE acked'[c] = acked[c] \/ ~ up
    <3>1. AckedNow' = AckedNow
      BY <2>1, <2>3 DEF AckedNow
    <3> QED BY <2>2, <3>1
  <2>4. CASE acked'[c] # acked[c] /\ up
    <3>1. r.op = "publishack" /\ acked'[c] = Max({acked[c], r.epoch})
      BY <2>1, <2>4
    <3>2. /\ acked[c] \in Nat /\ r.epoch \in Nat /\ epoch \in Nat
          /\ acked[c] <= epoch /\ r.epoch <= epoch
      BY <1>1, <2>1, TypeFacts, ReplyFields DEF RegistryInv, EpochsPast, TypeOK
    <3>3. acked'[c] = r.epoch /\ acked[c] <= r.epoch
      <4>1. /\ Max({acked[c], r.epoch}) \in {acked[c], r.epoch}
            /\ acked[c] <= Max({acked[c], r.epoch})
        BY <3>2, GreaterOfTwo
      <4> QED BY <2>4, <3>1, <4>1
    <3>4. acked[c] # epoch
      BY <2>4, <3>2, <3>3
    <3>5. CASE r.epoch = epoch
      <4>1. AllRegistered(c)
        BY <2>1, <2>4, <3>1, <3>5 DEF RegistryInv, AcksRegistered, Acknowledged
      <4>2. ToSet(Shares[c]) \X {c} \subseteq KnownNow
        BY <4>1 DEF AllRegistered, KnownNow
      <4>3. AckedNow' = AckedNow \cup {c}
        BY <2>1, <2>4, <3>3, <3>5 DEF AckedNow
      <4>4. Promises!Acknowledge(c)
        BY <1>1, <2>2, <4>2, <4>3, PromisedSteps
      <4> QED BY <4>4 DEF Promises!RegistryNext
    <3>6. CASE r.epoch # epoch
      <4>1. AckedNow' = AckedNow
        BY <2>1, <3>3, <3>4, <3>6 DEF AckedNow
      <4> QED BY <2>2, <4>1
    <3> QED BY <3>5, <3>6
  <2> QED BY <2>3, <2>4
<1>5. ASSUME NEW c \in Clients, Server(c)
      PROVE  Promises!RegistryNext \/ (KnownNow' = KnownNow /\ AckedNow' = AckedNow)
  <2>1. PICK r \in Reply : Serves(c, r)
    BY <1>1, <1>5, ServerEffect
  <2>2. /\ todo = <<>> /\ client_sa' = c /\ UNCHANGED <<acked, up, epoch, registry>>
        /\ todo' = Shares[c] \/ todo' = <<>>
    BY <2>1 DEF Serves, clientVars, ctlVars
  <2>3. AckedNow' = AckedNow
    BY <2>2 DEF AckedNow
  <2>4. CASE todo' = Shares[c]
    <3>1. KnownNow' = KnownNow \cup (ToSet(Shares[c]) \X {c})
      BY <1>2, <2>2, <2>4 DEF KnownNow
    <3>2. Promises!Publish(c)
      BY <1>1, <2>3, <3>1, PromisedSteps
    <3> QED BY <3>2 DEF Promises!RegistryNext
  <2>5. CASE todo' = <<>>
    <3>1. KnownNow' = KnownNow
      BY <1>2, <2>2, <2>5 DEF KnownNow
    <3> QED BY <2>3, <3>1
  <2> QED BY <2>2, <2>4, <2>5
<1>6. CASE RegisterPeer
  <2>1. /\ todo # <<>> /\ ToSet(todo) = {Head(todo)} \cup ToSet(todo')
        /\ UNCHANGED <<acked, up, client_sa, epoch>>
    BY <1>1, <1>6, RegisterEffect DEF RegisterPeer, clientVars, ctlVars
  <2>2. client_sa \in Clients
    BY <2>1 DEF RegistryInv, Registering
  <2>3. Pairs(registry') = Pairs(registry) \cup {<<Head(todo), client_sa>>}
    BY <1>1, <1>6, <2>2, RegisterPairs
  <2>4. KnownNow' = KnownNow
    <3> DEFINE h == Head(todo)
    <3> HIDE DEF h
    <3>1. Pairs(registry') = Pairs(registry) \cup {<<h, client_sa>>}
          /\ ToSet(todo) = {h} \cup ToSet(todo')
      BY <2>1, <2>3 DEF h
    <3>2. ToSet(todo) \X {client_sa} = {<<h, client_sa>>} \cup (ToSet(todo') \X {client_sa})
      BY <3>1
    <3> QED BY <2>1, <3>1, <3>2 DEF KnownNow
  <2>5. AckedNow' = AckedNow
    BY <2>1 DEF AckedNow
  <2> QED BY <2>4, <2>5
<1>7. CASE Crash
  <2>1. KnownNow' = {} /\ AckedNow' = {}
    BY <1>2, <1>7 DEF Crash, KnownNow, AckedNow
  <2>2. Promises!Restart
    BY <1>1, <2>1, PromisedSteps
  <2> QED BY <2>2 DEF Promises!RegistryNext
<1>8. CASE StartAgain
  <2>1. KnownNow' = KnownNow
    BY <1>8 DEF StartAgain, KnownNow
  <2>2. \A c \in Clients : acked'[c] # epoch'
    <3>1. \A c \in Clients : acked[c] \in Nat /\ acked[c] <= epoch /\ epoch \in Nat
      BY <1>1, TypeFacts DEF RegistryInv, EpochsPast, TypeOK
    <3>2. epoch' = epoch + 1 /\ UNCHANGED acked
      BY <1>8 DEF StartAgain, clientVars, ctlVars
    <3>3. \A n \in Nat : n <= epoch /\ epoch \in Nat => n # epoch + 1
      OBVIOUS
    <3> QED BY <3>1, <3>2, <3>3
  <2>3. AckedNow' = AckedNow
    BY <1>8, <2>2 DEF StartAgain, AckedNow
  <2> QED BY <2>1, <2>3
<1> QED BY <1>1, <1>3, <1>4, <1>5, <1>6, <1>7, <1>8, StepKinds

\* ds_respond and ds_register_peer implement the registry of module Registry, for any
\* clients and files and whatever the network does: a publish is known as a whole from
\* the datagram that brings it, and an acknowledgement that a client takes from the
\* directory that runs is of files it knows.
THEOREM DirectoryImplementsRegistry ==
  ASSUME "addrlen" \notin Faults
  PROVE  Spec => ImplementsRegistry
<1>1. Init => Promises!RegistryInit
  <2>1. Init => /\ registry = <<>> /\ todo = <<>> /\ epoch = 1
                /\ \A c \in Clients : acked[c] = 0
    BY DEF Init
  <2>2. Pairs(<<>>) = {} /\ ToSet(<<>>) = {}
    BY PairsNone, ElementsOfNone
  <2>3. Init => KnownNow = {} /\ AckedNow = {}
    BY <2>1, <2>2 DEF KnownNow, AckedNow
  <2> QED BY <2>3, InitType, PromisedSteps
<1>2. RegistryInv /\ [Next]_vars
        => [Promises!RegistryNext]_<<Pairs(registry) \cup (ToSet(todo) \X {client_sa}),
                                     {c \in Clients : up /\ acked[c] = epoch}>>
  BY RegistryStep DEF KnownNow, AckedNow
<1> QED BY <1>1, <1>2, RegistryInvariant, PTL DEF Spec, ImplementsRegistry, Promises!RegistrySpec


-----------------------------------------------------------------------------
(* A request and its answer.                                               *)

\* A client that waits has its own request or its own answer under way, or neither,
\* and one that does not wait has nothing under way.
InStep(c) ==
  /\ pc[c] \notin Waits => sent[c] = <<>> /\ sock[c] = <<>>
  /\ sent[c] = <<>> \/ sock[c] = <<>>
  /\ sent[c] # <<>> => sent[c] = <<RequestOf(pc[c])>>
  /\ sock[c] # <<>> => \E r \in Reply : sock[c] = <<r>> /\ r.op \in Answer(pc[c])

LEMMA OneElement ==
  ASSUME NEW S, NEW e \in S
  PROVE  /\ Append(<<>>, e) = <<e>> /\ Head(<<e>>) = e /\ Tail(<<e>>) = <<>>
         /\ <<e>> # <<>> /\ ToSet(<<e>>) = {e}
         /\ \A k \in DOMAIN <<e>> : RemoveAt(<<e>>, k) = <<>>
<1>1. <<e>> \in Seq(S) /\ ToSet(<<e>>) = {e} /\ <<>> \in Seq(S)
  BY SingleElement, EmptySeq
<1>2. Append(<<>>, e) = <<e>> /\ Head(<<e>>) = e /\ Tail(<<e>>) = <<>> /\ <<e>> # <<>>
  OBVIOUS
<1>3. Len(<<e>>) = 1 /\ DOMAIN <<e>> = {1}
  OBVIOUS
<1>4. SubSeq(<<e>>, 1, 0) = <<>> /\ SubSeq(<<e>>, 2, 1) = <<>>
  BY SubSeqEmpty
<1>5. RemoveAt(<<e>>, 1) = <<>> \o <<>>
  <2>1. 1 - 1 = 0 /\ 1 + 1 = 2
    OBVIOUS
  <2> QED BY <1>3, <1>4, <2>1 DEF RemoveAt
<1>6. <<>> \o <<>> = <<>>
  BY <1>1, ConcatEmptySeq
<1>7. \A k \in DOMAIN <<e>> : RemoveAt(<<e>>, k) = <<>>
  BY <1>3, <1>5, <1>6
<1> QED BY <1>1, <1>2, <1>7

\* Disorder is for good.
LEMMA DisorderLasts ==
  ASSUME TypeOK, [Next]_vars, ~ faults'.disorder
  PROVE  ~ faults.disorder
<1>1. ASSUME NEW c \in Clients, Command(c) PROVE UNCHANGED faults
  BY <1>1 DEF Command, CtlTest, CtlPing, CtlServe, CtlListremote, CtlDownload, CtlQuit, Online, Ask
<1>2. ASSUME NEW c \in Clients, Timeout(c) PROVE ~ faults.disorder
  BY <1>2, FaultEffect DEF Timeout
<1>3. ASSUME NEW c \in Clients, Answered(c) PROVE UNCHANGED faults
  BY <1>3, AnsweredEffect
<1>4. ASSUME NEW c \in Clients, Server(c) PROVE ~ faults.disorder
  <2>1. PICK request : Receive(c, request)
    BY <1>4 DEF Server, RespondPing, RespondTest, RespondFilelist, RespondPublish
  <2> QED BY <2>1, ReceiveEffect
<1>5. ASSUME NEW c \in Clients, DownloadEnds(c) \/ Discard(c) PROVE UNCHANGED faults
  BY <1>5 DEF DownloadEnds, Discard
<1>6. Crash \/ Network => ~ faults.disorder
  BY FaultEffect, NetworkEffect DEF Crash
<1>7. RegisterPeer \/ StartAgain \/ Terminated \/ UNCHANGED vars => UNCHANGED faults
  BY DEF RegisterPeer, StartAgain, Terminated, vars
<1> QED BY <1>1, <1>2, <1>3, <1>4, <1>5, <1>6, <1>7 DEF Next

LEMMA InStepSame ==
  ASSUME NEW d \in Clients, InStep(d), pc'[d] = pc[d], sent'[d] = sent[d], sock'[d] = sock[d]
  PROVE  InStep(d)'
<1>1. InStep(d)' <=>
        /\ pc'[d] \notin Waits => sent'[d] = <<>> /\ sock'[d] = <<>>
        /\ sent'[d] = <<>> \/ sock'[d] = <<>>
        /\ sent'[d] # <<>> => sent'[d] = <<RequestOf(pc'[d])>>
        /\ sock'[d] # <<>> => \E r \in Reply : sock'[d] = <<r>> /\ r.op \in Answer(pc'[d])
  BY DEF InStep
<1> QED BY <1>1 DEF InStep

LEMMA AskKeepsStep ==
  ASSUME TypeOK, NEW c \in Clients, NEW wait \in Waits, Ask(c, wait), pc[c] \notin Waits,
         \A d \in Clients : InStep(d)
  PROVE  \A d \in Clients : InStep(d)'
<1>1. sent[c] = <<>> /\ sock[c] = <<>>
  BY DEF InStep
<1>2. /\ pc' = [pc EXCEPT ![c] = wait] /\ UNCHANGED sock
      /\ sent'[c] = Append(sent[c], RequestOf(wait))
      /\ \A d \in Clients \ {c} : sent'[d] = sent[d]
  BY TransmitEffect DEF Ask
<1>3. pc'[c] = wait /\ \A d \in Clients \ {c} : pc'[d] = pc[d]
  BY <1>2 DEF TypeOK
<1>4. sent'[c] = <<RequestOf(wait)>> /\ sock'[c] = <<>>
  BY <1>1, <1>2, OneElement
<1>5. InStep(c)'
  BY <1>3, <1>4 DEF InStep
<1>6. ASSUME NEW d \in Clients, d # c PROVE InStep(d)'
  <2>1. InStep(d) /\ pc'[d] = pc[d] /\ sent'[d] = sent[d] /\ sock'[d] = sock[d]
    BY <1>2, <1>3, <1>6
  <2> QED BY <2>1, InStepSame
<1> QED BY <1>5, <1>6

LEMMA ClientKeepsStep ==
  ASSUME TypeOK, NEW c \in Clients, ~ faults'.disorder, \A d \in Clients : InStep(d),
         Command(c) \/ Timeout(c) \/ Answered(c) \/ DownloadEnds(c)
  PROVE  \A d \in Clients : InStep(d)'
<1> USE DEF fetchVars, ctlVars, fileVars, clientVars
<1>1. pc \in [Clients -> {"start", "idle", "writing", "quit"} \cup Waits]
  BY DEF TypeOK
\* The client ends its wait, or never waited, with nothing under way.
<1>2. ASSUME sent'[c] = <<>>, sock'[c] = <<>>, pc' = [pc EXCEPT ![c] = pc'[c]],
             \A d \in Clients \ {c} : sent'[d] = sent[d] /\ sock'[d] = sock[d]
      PROVE  \A d \in Clients : InStep(d)'
  <2>1. InStep(c)'
    BY <1>2 DEF InStep
  <2>2. ASSUME NEW d \in Clients, d # c PROVE InStep(d)'
    <3>1. InStep(d) /\ pc'[d] = pc[d] /\ sent'[d] = sent[d] /\ sock'[d] = sock[d]
      BY <1>1, <1>2, <2>2
    <3> QED BY <3>1, InStepSame
  <2> QED BY <2>1, <2>2
<1>3. CASE CtlQuit(c)
  <2>1. sent[c] = <<>> /\ sock[c] = <<>>
    BY <1>3 DEF CtlQuit, InStep, Waits
  <2> QED BY <1>1, <1>2, <1>3, <2>1 DEF CtlQuit
<1>4. CASE Command(c) /\ ~ CtlQuit(c)
  <2>1. PICK wait \in Waits : Ask(c, wait) /\ pc[c] \in {"start", "idle"}
    BY <1>4 DEF Command, CtlTest, CtlPing, CtlServe, CtlListremote, CtlDownload, Online, Waits
  <2>2. pc[c] \notin Waits
    BY <2>1 DEF Waits
  <2> QED BY <2>1, <2>2, AskKeepsStep
<1>5. CASE Timeout(c)
  <2>1. sent[c] = <<>> /\ sock[c] = <<>>
    <3>1. InFlight(c) => FALSE
      BY <1>5, FaultEffect DEF Timeout
    <3> QED BY <3>1 DEF InFlight
  <2>2. CASE Transmit(c, pc[c]) /\ UNCHANGED pc
    <3>1. pc[c] \in Waits /\ UNCHANGED sock
      BY <1>5 DEF Timeout
    <3>2. /\ sent'[c] = Append(sent[c], RequestOf(pc[c]))
          /\ \A d \in Clients \ {c} : sent'[d] = sent[d]
      BY <2>2, <3>1, TransmitEffect
    <3>3. sent'[c] = <<RequestOf(pc'[c])>> /\ sock'[c] = <<>> /\ pc'[c] \in Waits
      BY <2>1, <2>2, <3>1, <3>2, OneElement
    <3>4. InStep(c)'
      BY <3>3 DEF InStep
    <3>5. ASSUME NEW d \in Clients, d # c PROVE InStep(d)'
      <4>1. InStep(d) /\ pc'[d] = pc[d] /\ sent'[d] = sent[d] /\ sock'[d] = sock[d]
        BY <2>2, <3>1, <3>2, <3>5
      <4> QED BY <4>1, InStepSame
    <3> QED BY <3>4, <3>5
  <2>3. CASE /\ pc' = [pc EXCEPT ![c] = IF pc[c] = "test" THEN "quit" ELSE "idle"]
             /\ UNCHANGED sent
    <3>1. UNCHANGED sock
      BY <1>5 DEF Timeout
    <3> QED BY <1>1, <1>2, <2>1, <2>3, <3>1
  <2> QED BY <1>5, <2>2, <2>3 DEF Timeout
<1>6. CASE Answered(c)
  <2>1. PICK wait \in Waits : Take(c, wait)
    BY <1>6 DEF Answered, PingAnswered, PublishAnswered, ListAnswered, DownloadAnswered,
                TestAnswered, Waits
  <2>2. /\ sock[c] # <<>> /\ UNCHANGED sent /\ sock'[c] = Tail(sock[c])
        /\ \A d \in Clients \ {c} : sock'[d] = sock[d]
    BY <2>1, TakeEffect DEF Take
  <2>3. sent[c] = <<>> /\ sock'[c] = <<>>
    BY <2>2, OneElement DEF InStep
  <2>4. pc' = [pc EXCEPT ![c] = pc'[c]]
    BY <1>1, <1>6 DEF Answered, PingAnswered, PublishAnswered, ListAnswered, DownloadAnswered,
                      TestAnswered
  <2> QED BY <1>2, <2>2, <2>3, <2>4
<1>7. CASE DownloadEnds(c)
  <2>1. sent[c] = <<>> /\ sock[c] = <<>>
    BY <1>7 DEF DownloadEnds, InStep, Waits
  <2> QED BY <1>1, <1>2, <1>7, <2>1 DEF DownloadEnds
<1> QED BY <1>3, <1>4, <1>5, <1>6, <1>7

LEMMA ServerKeepsStep ==
  ASSUME TypeOK, NEW c \in Clients, "addrlen" \notin Faults, \A d \in Clients : InStep(d),
         Server(c) \/ Discard(c)
  PROVE  \A d \in Clients : InStep(d)'
<1> USE DEF clientVars
<1>1. /\ UNCHANGED pc /\ sent[c] # <<>> /\ sent'[c] = Tail(sent[c])
      /\ \A d \in Clients \ {c} : sent'[d] = sent[d]
  <2>1. CASE Server(c)
    <3>1. PICK request : Receive(c, request)
      BY <2>1 DEF Server, RespondPing, RespondTest, RespondFilelist, RespondPublish
    <3> QED BY <3>1, ReceiveEffect
  <2>2. CASE Discard(c)
    BY <2>2 DEF Discard, TypeOK
  <2> QED BY <2>1, <2>2
<1>2. sent[c] = <<RequestOf(pc[c])>> /\ pc[c] \in Waits /\ sock[c] = <<>>
  BY <1>1 DEF InStep
<1>3. sent'[c] = <<>> /\ Head(sent[c]) = RequestOf(pc[c])
  BY <1>1, <1>2, OneElement
<1>4. /\ \A d \in Clients \ {c} : sock'[d] = sock[d]
      /\ sock'[c] # <<>> => \E r \in Reply : sock'[c] = <<r>> /\ r.op \in Answer(pc[c])
  <2>1. CASE Server(c)
    <3>1. PICK r \in Reply : Serves(c, r)
      BY <2>1, ServerEffect
    <3>2. /\ client_sa' = c /\ sock'[c] = Append(sock[c], r)
          /\ \A d \in Clients \ {c} : sock'[d] = sock[d]
          /\ r.op \in Answer(pc[c])
      BY <1>2, <1>3, <3>1 DEF Serves
    <3>3. sock'[c] = <<r>>
      BY <1>2, <3>2, OneElement
    <3> QED BY <3>2, <3>3
  <2>2. CASE Discard(c)
    BY <1>2, <2>2 DEF Discard
  <2> QED BY <2>1, <2>2
<1>5. InStep(c)'
  BY <1>1, <1>2, <1>3, <1>4 DEF InStep
<1>6. ASSUME NEW d \in Clients, d # c PROVE InStep(d)'
  <2>1. InStep(d) /\ pc'[d] = pc[d] /\ sent'[d] = sent[d] /\ sock'[d] = sock[d]
    BY <1>1, <1>4, <1>6
  <2> QED BY <2>1, InStepSame
<1> QED BY <1>5, <1>6

LEMMA LossKeepsStep ==
  ASSUME TypeOK, Network, ~ faults'.disorder, \A d \in Clients : InStep(d)
  PROVE  \A d \in Clients : InStep(d)'
<1>1. PICK c \in Clients : OnPath(c, RemoveAt)
  BY NetworkEffect
<1>2. UNCHANGED pc
  BY NetworkEffect DEF clientVars
<1>3. sent \in [Clients -> Seq(Request)] /\ sock \in [Clients -> Seq(Reply)]
  BY DEF TypeOK
<1>4. CASE \E k \in DOMAIN sent[c] : sent' = [sent EXCEPT ![c] = RemoveAt(sent[c], k)]
                                       /\ UNCHANGED sock
  <2>1. sent'[c] = <<>> \/ sent'[c] = sent[c]
    <3>1. PICK k \in DOMAIN sent[c] : sent'[c] = RemoveAt(sent[c], k)
      BY <1>3, <1>4
    <3>2. sent[c] # <<>> => sent[c] = <<RequestOf(pc[c])>>
      BY DEF InStep
    <3>3. DOMAIN <<>> = {}
      OBVIOUS
    <3> QED BY <3>1, <3>2, <3>3, OneElement
  <2>2. UNCHANGED sock /\ \A d \in Clients \ {c} : sent'[d] = sent[d]
    BY <1>3, <1>4
  <2>3. ASSUME NEW d \in Clients PROVE InStep(d)'
    <3>1. InStep(d) /\ (sent'[d] = <<>> \/ sent'[d] = sent[d])
      BY <2>1, <2>2
    <3> QED BY <1>2, <2>2, <3>1 DEF InStep
  <2> QED BY <2>3
<1>5. CASE \E k \in DOMAIN sock[c] : sock' = [sock EXCEPT ![c] = RemoveAt(sock[c], k)]
                                       /\ UNCHANGED sent
  <2>1. sock'[c] = <<>> \/ sock'[c] = sock[c]
    <3>1. PICK k \in DOMAIN sock[c] : sock'[c] = RemoveAt(sock[c], k)
      BY <1>3, <1>5
    <3>2. sock[c] # <<>> => \E r \in Reply : sock[c] = <<r>>
      BY DEF InStep
    <3>3. DOMAIN <<>> = {}
      OBVIOUS
    <3> QED BY <3>1, <3>2, <3>3, OneElement
  <2>2. UNCHANGED sent /\ \A d \in Clients \ {c} : sock'[d] = sock[d]
    BY <1>3, <1>5
  <2>3. ASSUME NEW d \in Clients PROVE InStep(d)'
    <3>1. InStep(d) /\ (sock'[d] = <<>> \/ sock'[d] = sock[d])
      BY <2>1, <2>2
    <3> QED BY <1>2, <2>2, <3>1 DEF InStep
  <2> QED BY <2>3
<1> QED BY <1>1, <1>4, <1>5 DEF OnPath

LEMMA StepKeepsStep ==
  ASSUME TypeOK, [Next]_vars, "addrlen" \notin Faults, ~ faults'.disorder,
         \A d \in Clients : InStep(d)
  PROVE  \A d \in Clients : InStep(d)'
<1>1. CASE RegisterPeer \/ Crash \/ StartAgain \/ Terminated \/ UNCHANGED vars
  <2>1. UNCHANGED <<pc, sent, sock>>
    BY <1>1 DEF RegisterPeer, Crash, StartAgain, Terminated, vars, clientVars
  <2> QED BY <2>1, InStepSame
<1>2. CASE Network
  BY <1>2, LossKeepsStep
<1>3. ASSUME NEW c \in Clients,
             \/ Command(c) \/ Timeout(c) \/ Answered(c) \/ DownloadEnds(c)
             \/ Server(c) \/ Discard(c)
      PROVE  \A d \in Clients : InStep(d)'
  BY <1>3, ClientKeepsStep, ServerKeepsStep
<1> QED BY <1>1, <1>2, <1>3 DEF Next

-----------------------------------------------------------------------------
(* Lists and the registry.                                                 *)

Lists(c) == {r \in ToSet(sock[c]) : r.op = "filelistres"}

\* A list on its way to a client that took a publishack of the directory of now names
\* the client for each of its files.
OwnListed(c) == acked[c] = epoch =>
  \A r \in Lists(c) : \A f \in ToSet(Shares[c]) : <<f, c>> \in Pairs(r.list)

\* No longer, line by line.
Within(old, list) == /\ Len(old) <= Len(list)
                     /\ \A i \in 1..Len(old) : Len(old[i].peers) <= Len(list[i].peers)

\* Of one directory, what a client has read is no more than a list on its way to it,
\* and that list no more than the registry.
Covers(list, c) == /\ Pairs(text[c]) \cup Pairs(listing[c]) \subseteq Pairs(list)
                   /\ Within(text[c], list)
Growing(c) == epoch = 1 =>
  /\ up => Covers(registry, c)
  /\ \A r \in Lists(c) : /\ Covers(r.list, c)
                         /\ up => Pairs(r.list) \subseteq Pairs(registry) /\ Within(r.list, registry)

Orderly(c) == InStep(c) /\ OwnListed(c) /\ Growing(c)
OrderInv == RegistryInv /\ (~ faults.disorder => \A c \in Clients : Orderly(c))

LEMMA OrderInit == Init => OrderInv
<1> SUFFICES ASSUME Init PROVE OrderInv
  OBVIOUS
<1>1. /\ registry = <<>> /\ epoch = 1
      /\ \A c \in Clients : /\ sent[c] = <<>> /\ sock[c] = <<>> /\ acked[c] = 0
                            /\ text[c] = <<>> /\ listing[c] = <<>>
  BY DEF Init
<1>2. ToSet(<<>>) = {} /\ Len(<<>>) = 0
  BY ElementsOfNone, EmptySeq
<1>3. Within(<<>>, <<>>)
  BY <1>2 DEF Within
<1>4. ASSUME NEW c \in Clients PROVE Orderly(c)
  <2>1. Lists(c) = {}
    BY <1>1, <1>2 DEF Lists
  <2>2. InStep(c)
    BY <1>1 DEF InStep
  <2>3. OwnListed(c)
    BY <2>1 DEF OwnListed
  <2>4. Growing(c)
    BY <1>1, <1>3, <2>1 DEF Growing, Covers
  <2> QED BY <2>2, <2>3, <2>4 DEF Orderly
<1> QED BY <1>4, RegistryInvInit DEF OrderInv

LEMMA WithinSelf ==
  ASSUME NEW list \in Seq(Line)
  PROVE  Within(list, list)
<1>1. Len(list) \in Nat /\ \A i \in 1..Len(list) : Len(list[i].peers) \in Nat
  BY UnitsType
<1>2. \A n \in Nat : n <= n
  OBVIOUS
<1> QED BY <1>1, <1>2 DEF Within

LEMMA WithinTransitive ==
  ASSUME NEW one \in Seq(Line), NEW two \in Seq(Line), NEW three \in Seq(Line),
         Within(one, two), Within(two, three)
  PROVE  Within(one, three)
<1>1. /\ Len(one) \in Nat /\ Len(two) \in Nat /\ Len(three) \in Nat
      /\ \A i \in 1..Len(one) : Len(one[i].peers) \in Nat
      /\ \A i \in 1..Len(two) : Len(two[i].peers) \in Nat
      /\ \A i \in 1..Len(three) : Len(three[i].peers) \in Nat
  BY UnitsType
<1>2. Len(one) <= Len(two) /\ Len(two) <= Len(three)
  BY DEF Within
<1>3. \A a, b, c \in Nat : a <= b /\ b <= c => a <= c
  OBVIOUS
<1>4. \A m, n \in Nat : \A i \in 1..m : m <= n => i \in 1..n
  OBVIOUS
<1>5. ASSUME NEW i \in 1..Len(one) PROVE Len(one[i].peers) <= Len(three[i].peers)
  <2>1. i \in 1..Len(two) /\ i \in 1..Len(three)
    BY <1>1, <1>2, <1>4
  <2>2. Len(one[i].peers) <= Len(two[i].peers) /\ Len(two[i].peers) <= Len(three[i].peers)
    BY <2>1 DEF Within
  <2> QED BY <1>1, <1>3, <2>1, <2>2
<1> QED BY <1>1, <1>2, <1>3, <1>5 DEF Within

\* A list that is no shorter than what is left of the lists before it leaves nothing
\* of them: what the client reads is the list.
LEMMA NothingUncovered ==
  ASSUME NEW r \in Reply, NEW old \in Seq(Line), r.op = "filelistres", Within(old, r.list)
  PROVE  TextAfter(r, old) = r.list /\ Fetched(r, old) = r.list
<1>1. r.list \in Seq(Line)
  BY ReplyFields
<1>2. Uncovered(r.list, old) = <<>>
  BY <1>1, UncoveredNothing DEF Within
<1>3. r.list \o <<>> = r.list
  BY <1>1, ConcatEmptySeq
<1>4. TextAfter(r, old) = r.list
  BY <1>2, <1>3 DEF TextAfter
<1>5. Fetched(r, old) = TextAfter(r, old)
  BY FetchedLines
<1> QED BY <1>4, <1>5

\* What a command that is in step takes, and what it makes of it.
LEMMA InStepTake ==
  ASSUME TypeOK, NEW c \in Clients, InStep(c), Answered(c)
  PROVE  LET r == Head(sock[c])
         IN  /\ sock[c] = <<r>> /\ r \in Reply /\ r.op \in Answer(pc[c]) /\ sock'[c] = <<>>
             /\ text'[c] = TextAfter(r, text[c])
             /\ \/ listing'[c] = listing[c]
                \/ r.op = "filelistres" /\ listing'[c] = Fetched(r, text[c])
             /\ ListAnswered(c) => /\ r.op = "filelistres"
                                   /\ listing'[c] = Fetched(r, text[c])
<1> USE DEF fetchVars, ctlVars, fileVars, clientVars
<1> DEFINE r == Head(sock[c])
<1>1. sock[c] # <<>>
  BY DEF Answered, PingAnswered, PublishAnswered, ListAnswered, DownloadAnswered, TestAnswered,
         Take
<1>2. PICK q \in Reply : sock[c] = <<q>> /\ q.op \in Answer(pc[c])
  BY <1>1 DEF InStep
<1>3. r = q /\ Tail(sock[c]) = <<>>
  BY <1>2, OneElement
<1>4. sock'[c] = <<>> /\ text'[c] = TextAfter(r, text[c])
  BY <1>3, AnsweredEffect
<1>5. pc[c] \in {"list", "download"} => r.op = "filelistres"
  BY <1>2, <1>3 DEF Answer
<1>6. listing \in [Clients -> Seq(Line)]
  BY DEF TypeOK
<1> HIDE DEF r
<1>7. \/ UNCHANGED listing
      \/ pc[c] \in {"list", "download"} /\ listing' = [listing EXCEPT ![c] = Fetched(r, text[c])]
  BY DEF Answered, PingAnswered, PublishAnswered, ListAnswered, DownloadAnswered, TestAnswered,
         Take, r
<1>8. ListAnswered(c) => pc[c] = "list"
                           /\ listing' = [listing EXCEPT ![c] = Fetched(r, text[c])]
  BY DEF ListAnswered, Take, r
<1> QED BY <1>2, <1>3, <1>4, <1>5, <1>6, <1>7, <1>8 DEF r

LEMMA OwnKept ==
  ASSUME RegistryInv, [Next]_vars, "addrlen" \notin Faults,
         \A c \in Clients : InStep(c) /\ OwnListed(c)
  PROVE  \A c \in Clients : OwnListed(c)'
<1>1. TypeOK
  BY DEF RegistryInv
<1>2. ASSUME NEW c \in Clients, acked'[c] = acked[c], epoch' = epoch,
             Lists(c)' \subseteq Lists(c)
      PROVE  OwnListed(c)'
  BY <1>2 DEF OwnListed
<1>3. \A c \in Clients : ToSet(sock'[c]) \subseteq ToSet(sock[c]) => Lists(c)' \subseteq Lists(c)
  BY DEF Lists
<1>4. CASE Quiet
  BY <1>2, <1>3, <1>4 DEF Quiet, serverVars
<1>5. ASSUME NEW c \in Clients, Answered(c) PROVE \A d \in Clients : OwnListed(d)'
  <2>1. sock'[c] = <<>>
    BY <1>1, <1>5, InStepTake
  <2>2. OwnListed(c)'
    BY <2>1, ElementsOfNone DEF OwnListed, Lists
  <2>3. ASSUME NEW d \in Clients, d # c PROVE OwnListed(d)'
    <3>1. acked'[d] = acked[d] /\ epoch' = epoch /\ ToSet(sock'[d]) \subseteq ToSet(sock[d])
      BY <1>1, <1>5, <2>3, AnsweredEffect DEF serverVars
    <3> QED BY <1>2, <1>3, <3>1
  <2> QED BY <2>2, <2>3
<1>6. ASSUME NEW c \in Clients, Server(c) PROVE \A d \in Clients : OwnListed(d)'
  <2>1. PICK r \in Reply : Serves(c, r)
    BY <1>1, <1>6, ServerEffect
  <2>2. /\ up /\ todo = <<>> /\ UNCHANGED <<acked, epoch>> /\ client_sa' = c
        /\ ToSet(sock'[c]) = ToSet(sock[c]) \cup {r}
        /\ \A d \in Clients \ {c} : sock'[d] = sock[d]
        /\ r.op = "filelistres" => r.list = registry
    BY <2>1 DEF Serves, clientVars, ctlVars
  <2>3. ASSUME r.op = "filelistres", acked[c] = epoch
        PROVE  \A f \in ToSet(Shares[c]) : <<f, c>> \in Pairs(r.list)
    <3>1. AllRegistered(c) /\ ToSet(todo) = {}
      BY <2>2, <2>3, ElementsOfNone DEF RegistryInv, AcksRegistered, Acknowledged
    <3> QED BY <2>2, <2>3, <3>1 DEF AllRegistered
  <2>4. OwnListed(c)'
    BY <2>2, <2>3 DEF OwnListed, Lists
  <2>5. ASSUME NEW d \in Clients, d # c PROVE OwnListed(d)'
    BY <1>2, <1>3, <2>2, <2>5
  <2> QED BY <2>4, <2>5
<1>7. CASE RegisterPeer \/ Crash
  <2>1. UNCHANGED <<acked, epoch, sock>>
    BY <1>7 DEF RegisterPeer, Crash, clientVars, ctlVars
  <2> QED BY <1>2, <1>3, <2>1
<1>8. CASE StartAgain
  <2>1. \A c \in Clients : acked[c] \in Nat /\ acked[c] <= epoch /\ epoch \in Nat
    BY <1>1, TypeFacts DEF RegistryInv, EpochsPast, TypeOK
  <2>2. epoch' = epoch + 1 /\ UNCHANGED acked
    BY <1>8 DEF StartAgain, clientVars, ctlVars
  <2>3. \A m, n \in Nat : m <= n => m # n + 1
    OBVIOUS
  <2>4. \A c \in Clients : acked'[c] # epoch'
    BY <2>1, <2>2, <2>3
  <2> QED BY <2>4 DEF OwnListed
<1> QED BY <1>1, <1>4, <1>5, <1>6, <1>7, <1>8, StepKinds

LEMMA GrowthKept ==
  ASSUME RegistryInv, [Next]_vars, "addrlen" \notin Faults,
         \A c \in Clients : InStep(c) /\ Growing(c)
  PROVE  \A c \in Clients : Growing(c)'
<1>1. TypeOK /\ registry \in Seq(Line)
  BY DEF RegistryInv, TypeOK
<1>2. \A c \in Clients : \A r \in ToSet(sock[c]) : r \in Reply /\ r.list \in Seq(Line)
  <2>1. ASSUME NEW c \in Clients, NEW r \in ToSet(sock[c]) PROVE r \in Reply
    BY <1>1, TypeFacts, ElementsOf
  <2> QED BY <2>1, ReplyFields
<1>3. ASSUME NEW c \in Clients, text'[c] = text[c], listing'[c] = listing[c],
             UNCHANGED <<up, registry, epoch>>, ToSet(sock'[c]) \subseteq ToSet(sock[c])
      PROVE  Growing(c)'
  BY <1>3 DEF Growing, Covers, Lists
<1>4. CASE Quiet
  BY <1>3, <1>4 DEF Quiet, serverVars
<1>5. ASSUME NEW c \in Clients, Answered(c) PROVE \A d \in Clients : Growing(d)'
  <2> DEFINE r == Head(sock[c])
  <2>1. /\ sock[c] = <<r>> /\ r \in Reply /\ sock'[c] = <<>>
        /\ text'[c] = TextAfter(r, text[c])
        /\ \/ listing'[c] = listing[c]
           \/ r.op = "filelistres" /\ listing'[c] = Fetched(r, text[c])
    BY <1>1, <1>5, InStepTake
  <2>2. UNCHANGED <<up, registry, epoch>>
    BY <1>1, <1>5, AnsweredEffect DEF serverVars
  <2> HIDE DEF r
  <2>3. Lists(c)' = {} /\ (r.op = "filelistres" => r \in Lists(c))
    BY <2>1, ElementsOfNone, OneElement DEF Lists
  <2>4. ASSUME epoch = 1, up PROVE Covers(registry, c)'
    <3>1. Covers(registry, c)
      BY <2>4 DEF Growing
    <3>2. CASE r.op = "filelistres"
      <4>1. /\ Covers(r.list, c)
            /\ Pairs(r.list) \subseteq Pairs(registry) /\ Within(r.list, registry)
        BY <2>3, <2>4, <3>2 DEF Growing
      <4>2. TextAfter(r, text[c]) = r.list /\ Fetched(r, text[c]) = r.list
        BY <1>1, <2>1, <3>2, <4>1, TypeFacts, NothingUncovered DEF Covers
      <4> QED BY <2>1, <2>2, <3>1, <4>1, <4>2 DEF Covers
    <3>3. CASE r.op # "filelistres"
      <4>1. text'[c] = text[c] /\ listing'[c] = listing[c]
        BY <2>1, <3>3 DEF TextAfter
      <4> QED BY <2>2, <3>1, <4>1 DEF Covers
    <3> QED BY <3>2, <3>3
  <2>5. Growing(c)'
    BY <2>2, <2>3, <2>4 DEF Growing
  <2>6. ASSUME NEW d \in Clients, d # c PROVE Growing(d)'
    <3>1. /\ text'[d] = text[d] /\ listing'[d] = listing[d]
          /\ ToSet(sock'[d]) \subseteq ToSet(sock[d])
      BY <1>1, <1>5, <2>6, AnsweredEffect
    <3> QED BY <1>3, <2>2, <3>1
  <2> QED BY <2>5, <2>6
<1>6. ASSUME NEW c \in Clients, Server(c) PROVE \A d \in Clients : Growing(d)'
  <2>1. PICK r \in Reply : Serves(c, r)
    BY <1>1, <1>6, ServerEffect
  <2>2. /\ up /\ UNCHANGED <<text, listing, up, epoch, registry>> /\ client_sa' = c
        /\ ToSet(sock'[c]) = ToSet(sock[c]) \cup {r}
        /\ \A d \in Clients \ {c} : sock'[d] = sock[d]
        /\ r.op = "filelistres" => r.list = registry
    BY <2>1 DEF Serves, clientVars, fetchVars
  <2>3. Within(registry, registry)
    BY <1>1, WithinSelf
  <2>4. \A q \in Lists(c)' : q \in Lists(c) \/ q.list = registry
    BY <2>2 DEF Lists
  <2>5. Growing(c)'
    BY <2>2, <2>3, <2>4 DEF Growing, Covers
  <2>6. ASSUME NEW d \in Clients, d # c PROVE Growing(d)'
    BY <1>3, <2>2, <2>6
  <2> QED BY <2>5, <2>6
<1>7. CASE RegisterPeer
  <2>1. /\ UNCHANGED <<text, listing, up, epoch, sock>>
        /\ registry' \in Seq(Line) /\ Within(registry, registry')
        /\ todo # <<>>
    BY <1>1, <1>7, RegisterEffect DEF RegisterPeer, clientVars, fetchVars, Within
  <2>2. Pairs(registry) \subseteq Pairs(registry')
    BY <1>1, <1>7, <2>1, RegisterPairs DEF RegistryInv, Registering
  <2>3. \A list \in Seq(Line) : Within(list, registry) => Within(list, registry')
    BY <1>1, <2>1, WithinTransitive
  <2>4. ASSUME NEW c \in Clients PROVE Growing(c)'
    <3>1. text[c] \in Seq(Line)
      BY <1>1, TypeFacts
    <3>2. Lists(c)' = Lists(c) /\ \A r \in Lists(c) : r.list \in Seq(Line)
      BY <1>2, <2>1 DEF Lists
    <3> QED BY <2>1, <2>2, <2>3, <3>1, <3>2 DEF Growing, Covers
  <2> QED BY <2>4
<1>8. CASE Crash
  <2>1. ~ up' /\ UNCHANGED <<text, listing, epoch, sock>>
    BY <1>8 DEF Crash, clientVars, fetchVars
  <2> QED BY <2>1 DEF Growing, Covers, Lists
<1>9. CASE StartAgain
  <2>1. epoch' # 1
    BY <1>1, <1>9 DEF StartAgain, TypeOK
  <2> QED BY <2>1 DEF Growing
<1> QED BY <1>1, <1>4, <1>5, <1>6, <1>7, <1>8, <1>9, StepKinds

LEMMA OrderInvariant ==
  ASSUME "addrlen" \notin Faults
  PROVE  Spec => []OrderInv
<1>1. ASSUME OrderInv, [Next]_vars, RegistryInv' PROVE OrderInv'
  <2>1. TypeOK /\ RegistryInv
    BY <1>1 DEF OrderInv, RegistryInv
  <2>2. ASSUME ~ faults'.disorder PROVE \A c \in Clients : Orderly(c)'
    <3>1. \A c \in Clients : Orderly(c)
      BY <1>1, <2>1, <2>2, DisorderLasts DEF OrderInv
    <3>2. \A c \in Clients : InStep(c)'
      BY <1>1, <2>1, <2>2, <3>1, StepKeepsStep DEF Orderly
    <3>3. \A c \in Clients : OwnListed(c)'
      BY <1>1, <2>1, <3>1, OwnKept DEF Orderly
    <3>4. \A c \in Clients : Growing(c)'
      BY <1>1, <2>1, <3>1, GrowthKept DEF Orderly
    <3> QED BY <3>2, <3>3, <3>4 DEF Orderly
  <2> QED BY <1>1, <2>2 DEF OrderInv
<1> QED BY <1>1, OrderInit, RegistryInvariant, PTL DEF Spec

\* Losses and restarts never make dc_request hand a command a reply that is not one to
\* its own request.
THEOREM AnswersInStep ==
  ASSUME "addrlen" \notin Faults
  PROVE  Spec => []AnswersMatch
<1>1. ASSUME OrderInv PROVE AnswersMatch
  <2>1. ASSUME ~ faults.disorder, NEW c \in Clients, pc[c] \in Waits, sock[c] # <<>>
        PROVE  Head(sock[c]).op \in Answer(pc[c])
    <3>1. InStep(c)
      BY <1>1, <2>1 DEF OrderInv, Orderly
    <3>2. PICK r \in Reply : sock[c] = <<r>> /\ r.op \in Answer(pc[c])
      BY <2>1, <3>1 DEF InStep
    <3>3. Head(sock[c]) = r
      BY <3>2, OneElement
    <3> QED BY <3>2, <3>3
  <2> QED BY <2>1 DEF AnswersMatch, AnswersAlwaysMatch
<1> QED BY <1>1, OrderInvariant, PTL

LEMMA ReadInStep ==
  ASSUME OrderInv, ~ faults.disorder, NEW c \in Clients, Answered(c)
  PROVE  LET r == Head(sock[c])
         IN  /\ r \in Reply
             /\ r.op = "filelistres" => r \in Lists(c)
             /\ \/ listing'[c] = listing[c]
                \/ r.op = "filelistres" /\ listing'[c] = Fetched(r, text[c])
             /\ ListAnswered(c) => r.op = "filelistres" /\ listing'[c] = Fetched(r, text[c])
             /\ (r.op = "filelistres" /\ epoch = 1) =>
                  Fetched(r, text[c]) = r.list /\ Pairs(listing[c]) \subseteq Pairs(r.list)
<1> DEFINE r == Head(sock[c])
<1>1. TypeOK /\ InStep(c) /\ Growing(c)
  BY DEF OrderInv, Orderly, RegistryInv
<1>2. /\ sock[c] = <<r>> /\ r \in Reply
      /\ \/ listing'[c] = listing[c]
         \/ r.op = "filelistres" /\ listing'[c] = Fetched(r, text[c])
      /\ ListAnswered(c) => r.op = "filelistres" /\ listing'[c] = Fetched(r, text[c])
  BY <1>1, InStepTake
<1> HIDE DEF r
<1>3. r.op = "filelistres" => r \in Lists(c)
  BY <1>2, OneElement DEF Lists
<1>4. ASSUME r.op = "filelistres", epoch = 1
      PROVE  Fetched(r, text[c]) = r.list /\ Pairs(listing[c]) \subseteq Pairs(r.list)
  <2>1. Covers(r.list, c)
    BY <1>1, <1>3, <1>4 DEF Growing
  <2>2. Fetched(r, text[c]) = r.list
    BY <1>1, <1>2, <1>4, <2>1, TypeFacts, NothingUncovered DEF Covers
  <2> QED BY <2>1, <2>2 DEF Covers
<1> QED BY <1>2, <1>3, <1>4 DEF r

\* A client that dc_publish has told that its files are published finds itself named
\* for each of them in every list that logicdir_fetch returns, until the directory is
\* started again.
THEOREM OwnFilesSeen ==
  ASSUME "addrlen" \notin Faults
  PROVE  Spec => SeesOwnFiles
<1>1. ASSUME OrderInv, [Next]_vars
      PROVE  \A c \in Clients : ~ faults.disorder /\ ListAnswered(c) /\ acked[c] = epoch =>
               \A f \in ToSet(Shares[c]) : <<f, c>> \in Pairs(listing'[c])
  <2>1. ASSUME NEW c \in Clients, ~ faults.disorder, ListAnswered(c), acked[c] = epoch
        PROVE  \A f \in ToSet(Shares[c]) : <<f, c>> \in Pairs(listing'[c])
    <3> DEFINE r == Head(sock[c])  u == Uncovered(r.list, text[c])
    <3>1. TypeOK /\ Answered(c) /\ OwnListed(c)
      BY <1>1, <2>1 DEF OrderInv, Orderly, RegistryInv, Answered
    <3>2. /\ r \in Reply /\ r \in Lists(c) /\ r.op = "filelistres"
          /\ listing'[c] = Fetched(r, text[c])
      BY <1>1, <2>1, <3>1, ReadInStep
    <3>3. \A f \in ToSet(Shares[c]) : <<f, c>> \in Pairs(r.list)
      BY <2>1, <3>1, <3>2 DEF OwnListed
    <3>4. text[c] \in Seq(Line) /\ r.list \in Seq(Line)
      BY <3>1, <3>2, TypeFacts, ReplyFields
    <3> HIDE DEF r
    <3>5. Fetched(r, text[c]) = r.list \o u
      BY <3>2, <3>4, FetchedLines DEF TextAfter
    <3>6. u \in Seq(Line)
      BY <3>4, UncoveredLines
    <3> HIDE DEF u
    <3>7. r.list \o u \in Seq(Line) /\ ToSet(r.list) \subseteq ToSet(r.list \o u)
      BY <3>4, <3>6, ConcatElements
    <3>8. Pairs(r.list) \subseteq Pairs(r.list \o u)
      <4> DEFINE l == r.list \o u
      <4> HIDE DEF l
      <4>1. l \in Seq(Line) /\ ToSet(r.list) \subseteq ToSet(l) \cup ToSet(l) \cup {Garbled}
        BY <3>7 DEF l
      <4>2. Pairs(r.list) \subseteq Pairs(l) \cup Pairs(l)
        BY <3>4, <4>1, PairsOfLines
      <4> QED BY <4>2 DEF l
    <3> QED BY <3>2, <3>3, <3>5, <3>8
  <2> QED BY <2>1
<1> QED BY <1>1, OrderInvariant, PTL DEF Spec, SeesOwnFiles

LEMMA ListingChanges ==
  ASSUME TypeOK, [Next]_vars, NEW c \in Clients, listing'[c] # listing[c]
  PROVE  Answered(c)
<1>1. UNCHANGED listing \/ \E d \in Clients : Answered(d)
  <2>1. Quiet => UNCHANGED listing
    BY DEF Quiet
  <2>2. \A d \in Clients : Server(d) => UNCHANGED listing
    BY ServerEffect DEF Serves, clientVars, fetchVars
  <2>3. RegisterPeer \/ Crash \/ StartAgain => UNCHANGED listing
    BY DEF RegisterPeer, Crash, StartAgain, clientVars, fetchVars
  <2> QED BY <2>1, <2>2, <2>3, StepKinds
<1>2. \A d \in Clients : Answered(d) /\ d # c => listing'[c] = listing[c]
  BY AnsweredEffect
<1> QED BY <1>1, <1>2

\* Nothing that a client has read of the first directory is missing from a list it
\* fetches later, as long as replies keep in step: nothing is ever unpublished.
THEOREM ListsOnlyGrow ==
  ASSUME "addrlen" \notin Faults
  PROVE  Spec => ListsGrow
<1>1. ASSUME OrderInv, [Next]_vars
      PROVE  \A c \in Clients : ~ faults.disorder /\ epoch = 1 /\ listing'[c] # listing[c] =>
               Pairs(listing[c]) \subseteq Pairs(listing'[c])
  <2>1. ASSUME NEW c \in Clients, ~ faults.disorder, epoch = 1, listing'[c] # listing[c]
        PROVE  Pairs(listing[c]) \subseteq Pairs(listing'[c])
    <3>1. Answered(c)
      BY <1>1, <2>1, ListingChanges DEF OrderInv, RegistryInv
    <3> QED BY <1>1, <2>1, <3>1, ReadInStep
  <2> QED BY <2>1
<1> QED BY <1>1, OrderInvariant, PTL DEF Spec, ListsGrow

\* Nor is anything read that the directory did not send, although recv_buff keeps what
\* a reply does not cover: a list is at least as wide as those before it.
THEOREM ListsAreReplies ==
  ASSUME "addrlen" \notin Faults
  PROVE  Spec => ListIsTheReply
<1>1. ASSUME OrderInv, [Next]_vars
      PROVE  \A c \in Clients : ~ faults.disorder /\ epoch = 1 /\ ListAnswered(c) =>
               listing'[c] = Head(sock[c]).list
  <2>1. ASSUME NEW c \in Clients, ~ faults.disorder, epoch = 1, ListAnswered(c)
        PROVE  listing'[c] = Head(sock[c]).list
    <3>1. Answered(c)
      BY <2>1 DEF Answered
    <3> QED BY <1>1, <2>1, <3>1, ReadInStep
  <2> QED BY <2>1
<1> QED BY <1>1, OrderInvariant, PTL DEF Spec, ListIsTheReply
==============================================================================
