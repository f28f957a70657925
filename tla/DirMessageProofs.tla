-------------------------- MODULE DirMessageProofs --------------------------
(***************************************************************************)
(* Proofs about the texts of the directory protocol: what is in a buffer   *)
(* after everything is printed to it, and what the readers read out of it, *)
(* wherever it is cut.                                                     *)
(***************************************************************************)
EXTENDS DirMessage, SequenceTheorems, WellFoundedInduction, NaturalsInduction, TLAPS

-----------------------------------------------------------------------------
(* Induction.                                                              *)

LEMMA LeastElement ==
  ASSUME NEW T, T \subseteq Nat, T # {}
  PROVE  \E n \in T : \A m \in T : n <= m
<1> DEFINE R == OpToRel(<, Nat)
<1>1. IsWellFoundedOn(R, Nat) /\ \A x, y \in Nat : <<y, x>> \in R <=> y < x
  BY NatLessThanWellFounded DEF OpToRel
<1> HIDE DEF R
<1>2. PICK x \in T : \A y \in T : ~ (<<y, x>> \in R)
  BY <1>1, WFMin
<1>3. ASSUME NEW y \in T PROVE x <= y
  <2>1. x \in Nat /\ y \in Nat /\ ~ (y < x)
    BY <1>1, <1>2
  <2> QED BY <2>1
<1> QED BY <1>3

\* Induction up to n, on a set.
LEMMA InductionTo ==
  ASSUME NEW n \in Nat, NEW T, 0 \in T, \A k \in 1..n : k - 1 \in T => k \in T
  PROVE  \A k \in 0..n : k \in T
<1> DEFINE U == {k \in 0..n : k \notin T}
<1>1. CASE U # {}
  <2>1. U \subseteq Nat
    OBVIOUS
  <2>2. PICK k \in U : \A j \in U : k <= j
    <3> HIDE DEF U
    <3> QED BY <1>1, <2>1, LeastElement
  <2>3. k \in 0..n /\ k \notin T /\ k # 0
    BY <2>2
  <2>4. k \in 1..n /\ k - 1 \in 0..n /\ ~ (k <= k - 1)
    BY <2>3
  <2>5. k - 1 \in T
    BY <2>2, <2>4
  <2> QED BY <2>3, <2>4, <2>5
<1> QED BY <1>1

-----------------------------------------------------------------------------
(* Cutting and joining.                                                    *)

Cut(s, n) == SubSeq(s, 1, IF n <= Len(s) THEN n ELSE Len(s))

LEMMA CutFacts ==
  ASSUME NEW T, NEW s \in Seq(T), NEW n \in Nat
  PROVE  /\ Cut(s, n) \in Seq(T)
         /\ Len(Cut(s, n)) = IF n <= Len(s) THEN n ELSE Len(s)
         /\ \A i \in 1..Len(Cut(s, n)) : Cut(s, n)[i] = s[i]
         /\ n >= Len(s) => Cut(s, n) = s
<1> DEFINE m == IF n <= Len(s) THEN n ELSE Len(s)
<1>1. Len(s) \in Nat /\ m \in Nat /\ m <= Len(s) /\ DOMAIN s = 1..Len(s)
  BY LenProperties
<1>2. \A i \in 1..m : s[i] \in T
  BY <1>1, ElementOfSeq
<1>3. m \in Int /\ 1 \in Int
  BY <1>1
<1> HIDE DEF m
<1>4. /\ SubSeq(s, 1, m) \in Seq(T)
      /\ Len(SubSeq(s, 1, m)) = IF 1 <= m THEN m - 1 + 1 ELSE 0
      /\ \A i \in 1..(m - 1 + 1) : SubSeq(s, 1, m)[i] = s[1 + i - 1]
  BY <1>2, <1>3, SubSeqProperties
<1>5. Len(SubSeq(s, 1, m)) = m /\ \A i \in 1..m : SubSeq(s, 1, m)[i] = s[i]
  BY <1>1, <1>4
<1>6. Cut(s, n) = SubSeq(s, 1, m)
  BY DEF Cut, m
<1>7. n >= Len(s) => m = Len(s)
  <2>1. Len(s) \in Nat
    BY <1>1
  <2> QED BY <2>1 DEF m
<1>8. n >= Len(s) => Cut(s, n) = s
  BY <1>6, <1>7, SubSeqFull
<1> QED BY <1>4, <1>5, <1>6, <1>8 DEF m

\* What comes after place k.
From(s, k) == SubSeq(s, k + 1, Len(s))

LEMMA FromPlaces ==
  ASSUME NEW n \in Nat, NEW k \in 0..n
  PROVE  /\ (IF k + 1 <= n THEN n - (k + 1) + 1 ELSE 0) = n - k
         /\ n - (k + 1) + 1 = n - k
         /\ \A i \in 1..(n - k) : k + 1 + i - 1 = k + i
OBVIOUS

LEMMA FromFacts ==
  ASSUME NEW T, NEW s \in Seq(T), NEW k \in 0..Len(s)
  PROVE  /\ From(s, k) \in Seq(T)
         /\ Len(From(s, k)) = Len(s) - k
         /\ \A i \in 1..(Len(s) - k) : From(s, k)[i] = s[k + i]
<1>1. Len(s) \in Nat /\ k \in Nat /\ k <= Len(s) /\ DOMAIN s = 1..Len(s)
  BY LenProperties
<1>2. \A i \in (k + 1)..Len(s) : s[i] \in T
  <2>1. \A i \in (k + 1)..Len(s) : i \in 1..Len(s)
    BY <1>1
  <2> QED BY <2>1, ElementOfSeq
<1>3. k + 1 \in Int /\ Len(s) \in Int
  BY <1>1
<1>4. /\ From(s, k) \in Seq(T)
      /\ Len(From(s, k)) = IF k + 1 <= Len(s) THEN Len(s) - (k + 1) + 1 ELSE 0
      /\ \A i \in 1..(Len(s) - (k + 1) + 1) : From(s, k)[i] = s[k + 1 + i - 1]
  BY <1>2, <1>3, SubSeqProperties DEF From
<1> DEFINE n == Len(s)
<1>5. /\ (IF k + 1 <= n THEN n - (k + 1) + 1 ELSE 0) = n - k
      /\ n - (k + 1) + 1 = n - k
      /\ \A i \in 1..(n - k) : k + 1 + i - 1 = k + i
  <2>1. n \in Nat /\ k \in 0..n
    BY <1>1
  <2> HIDE DEF n
  <2> QED BY <2>1, FromPlaces
<1>6. \A i \in 1..(Len(s) - k) : From(s, k)[i] = s[k + i]
  BY <1>4, <1>5
<1> QED BY <1>4, <1>5, <1>6

\* Two texts of the same tokens are one.
LEMMA SameTexts ==
  ASSUME NEW T, NEW s \in Seq(T), NEW t \in Seq(T), Len(s) = Len(t),
         \A i \in 1..Len(s) : s[i] = t[i]
  PROVE  s = t
BY SeqEqual

LEMMA ConsFacts ==
  ASSUME NEW T, NEW x \in T, NEW s \in Seq(T)
  PROVE  /\ Cons(x, s) \in Seq(T)
         /\ Len(Cons(x, s)) = Len(s) + 1
         /\ Cons(x, s)[1] = x
         /\ \A i \in 1..Len(s) : Cons(x, s)[i + 1] = s[i]
         /\ From(Cons(x, s), 1) = s
<1>1. <<x>> \in Seq(T) /\ Len(<<x>>) = 1 /\ <<x>>[1] = x /\ Len(s) \in Nat
  BY LenProperties
<1>2. /\ <<x>> \o s \in Seq(T) /\ Len(<<x>> \o s) = Len(<<x>>) + Len(s)
      /\ \A i \in 1..(Len(<<x>>) + Len(s)) :
           (<<x>> \o s)[i] = IF i <= Len(<<x>>) THEN <<x>>[i] ELSE s[i - Len(<<x>>)]
  BY <1>1, ConcatProperties
<1> DEFINE c == <<x>> \o s
<1> HIDE DEF c
<1>3. /\ c \in Seq(T) /\ Len(c) = Len(s) + 1 /\ c[1] = x
      /\ \A i \in 1..Len(s) : c[i + 1] = s[i]
  BY <1>1, <1>2 DEF c
<1>4. 1 \in 0..Len(c)
  BY <1>1, <1>3
<1>5. /\ From(c, 1) \in Seq(T) /\ Len(From(c, 1)) = Len(c) - 1
      /\ \A i \in 1..(Len(c) - 1) : From(c, 1)[i] = c[1 + i]
  <2>1. c \in Seq(T)
    BY <1>3
  <2> QED BY <1>4, <2>1, FromFacts
<1>6. Len(From(c, 1)) = Len(s) /\ \A i \in 1..Len(From(c, 1)) : From(c, 1)[i] = s[i]
  BY <1>1, <1>3, <1>5
<1>7. From(c, 1) = s
  BY <1>5, <1>6, SameTexts
<1> QED BY <1>3, <1>7 DEF Cons, c

-----------------------------------------------------------------------------
(* Looking for tokens, and leaving out blanks.                             *)

LEMMA PlaceFacts ==
  ASSUME NEW T, NEW t \in Seq(T), NEW S, Has(t, S)
  PROVE  /\ Place(t, S) \in 1..Len(t) /\ t[Place(t, S)] \in S
         /\ \A j \in 1..(Place(t, S) - 1) : t[j] \notin S
<1> DEFINE U == {k \in 1..Len(t) : t[k] \in S}
<1>1. DOMAIN t = 1..Len(t) /\ Len(t) \in Nat
  BY LenProperties
<1>2. U \subseteq Nat /\ U # {}
  BY <1>1 DEF Has
<1>3. PICK k \in U : \A j \in U : k <= j
  <2> HIDE DEF U
  <2> QED BY <1>2, LeastElement
<1>4. k \in 1..Len(t) /\ t[k] \in S /\ \A j \in 1..Len(t) : t[j] \in S => k <= j
  BY <1>3
<1>5. \A j \in 1..(k - 1) : t[j] \notin S
  <2>1. \A j \in 1..(k - 1) : j \in 1..Len(t) /\ ~ (k <= j)
    BY <1>1, <1>4
  <2> QED BY <1>4, <2>1
<1>6. \E p \in DOMAIN t : t[p] \in S /\ \A j \in 1..(p - 1) : t[j] \notin S
  BY <1>1, <1>4, <1>5
<1>7. /\ Place(t, S) \in DOMAIN t /\ t[Place(t, S)] \in S
      /\ \A j \in 1..(Place(t, S) - 1) : t[j] \notin S
  BY <1>6 DEF Place
<1> QED BY <1>1, <1>7

\* There is only one first place.
LEMMA PlaceIs ==
  ASSUME NEW T, NEW t \in Seq(T), NEW S, NEW p \in 1..Len(t), t[p] \in S,
         \A j \in 1..(p - 1) : t[j] \notin S
  PROVE  Has(t, S) /\ Place(t, S) = p
<1>1. DOMAIN t = 1..Len(t) /\ Len(t) \in Nat
  BY LenProperties
<1>2. Has(t, S)
  BY <1>1 DEF Has
<1>3. /\ Place(t, S) \in 1..Len(t) /\ t[Place(t, S)] \in S
      /\ \A j \in 1..(Place(t, S) - 1) : t[j] \notin S
  BY <1>2, PlaceFacts
<1> DEFINE q == Place(t, S)
<1>4. q \in 1..Len(t) /\ t[q] \in S /\ \A j \in 1..(q - 1) : t[j] \notin S
  BY <1>3
<1> HIDE DEF q
<1>5. ~ (q < p)
  <2>1. q < p => q \in 1..(p - 1)
    BY <1>1, <1>4
  <2> QED BY <1>4, <2>1
<1>6. ~ (p < q)
  <2>1. p < q => p \in 1..(q - 1)
    BY <1>1, <1>4
  <2> QED BY <1>4, <2>1
<1>7. q = p
  BY <1>1, <1>4, <1>5, <1>6
<1> QED BY <1>2, <1>7 DEF q

LEMMA BeforeAfterTexts ==
  ASSUME NEW T, NEW t \in Seq(T), NEW S, Has(t, S)
  PROVE  /\ Before(t, S) = Cut(t, Place(t, S) - 1) /\ After(t, S) = From(t, Place(t, S))
         /\ Before(t, S) \in Seq(T) /\ After(t, S) \in Seq(T)
         /\ Len(Before(t, S)) = Place(t, S) - 1 /\ Len(After(t, S)) = Len(t) - Place(t, S)
         /\ ~ Has(Before(t, S), S)
         /\ \A i \in 1..Len(Before(t, S)) : Before(t, S)[i] = t[i]
<1> DEFINE p == Place(t, S)  b == Cut(t, p - 1)
<1>1. /\ p \in 1..Len(t) /\ \A j \in 1..(p - 1) : t[j] \notin S
  BY PlaceFacts
<1>2. Len(t) \in Nat
  BY LenProperties
<1> HIDE DEF p
<1>3. p - 1 \in Nat /\ p - 1 <= Len(t) /\ p \in 0..Len(t)
  BY <1>1, <1>2
<1>4. /\ b \in Seq(T) /\ Len(b) = p - 1 /\ \A i \in 1..Len(b) : b[i] = t[i]
  BY <1>3, CutFacts
<1>5. From(t, p) \in Seq(T) /\ Len(From(t, p)) = Len(t) - p
  BY <1>3, FromFacts
<1>6. DOMAIN b = 1..(p - 1)
  BY <1>4, LenProperties
<1>7. ~ Has(b, S)
  BY <1>1, <1>4, <1>6 DEF Has
<1>8. b = SubSeq(t, 1, p - 1)
  BY <1>3 DEF Cut
<1>9. Before(t, S) = b /\ After(t, S) = From(t, p)
  BY <1>8 DEF Before, After, From, p
<1> QED BY <1>4, <1>5, <1>7, <1>9 DEF p

\* A blank text is stripped of everything, and another up to its first other token.
LEMMA StripFacts ==
  ASSUME NEW T, NEW u \in Seq(T)
  PROVE  \E d \in 0..Len(u) : /\ Strip(u) = From(u, d)
                              /\ \A j \in 1..d : u[j] = Blank
                              /\ d < Len(u) => u[d + 1] # Blank
<1> DEFINE n == Len(u)
           AllBlank(d) == \A j \in 1..d : u[j] = Blank
           blanks == {d \in 0..n : AllBlank(d)}
           U == {d \in 0..n : d = n \/ u[d + 1] # Blank}
<1>1. n \in Nat
  BY LenProperties
<1>2. U \subseteq Nat /\ n \in U
  BY <1>1
<1>3. PICK d \in U : \A e \in U : d <= e
  <2> HIDE DEF U
  <2> QED BY <1>2, LeastElement
<1>4. d \in 0..n /\ (d = n \/ u[d + 1] # Blank)
  BY <1>3
<1>5. ASSUME NEW j \in 1..d PROVE u[j] = Blank
  <2>1. j - 1 \in 0..n /\ ~ (d <= j - 1)
    BY <1>1, <1>4
  <2>2. j - 1 \notin U
    BY <1>3, <2>1
  <2>3. u[j - 1 + 1] = Blank
    BY <2>1, <2>2
  <2>4. j - 1 + 1 = j
    OBVIOUS
  <2> QED BY <2>3, <2>4
<1>6. d \in blanks
  BY <1>4, <1>5
<1>7. ASSUME NEW e \in blanks PROVE d >= e
  <2>1. e \in 0..n /\ AllBlank(e)
    OBVIOUS
  <2>2. d < e => d + 1 \in 1..e /\ d # n
    BY <1>1, <1>4, <2>1
  <2>3. ~ (d < e)
    BY <1>4, <2>1, <2>2
  <2> QED BY <1>1, <1>4, <2>1, <2>3
<1>8. Max(blanks) = d
  <2>1. \A e \in blanks : e \in Nat
    BY <1>1
  <2> HIDE DEF blanks
  <2>2. /\ Max(blanks) \in blanks /\ \A e \in blanks : Max(blanks) >= e
    BY <1>6, <1>7 DEF Max
  <2>3. Max(blanks) >= d /\ d >= Max(blanks) /\ d \in Nat /\ Max(blanks) \in Nat
    BY <1>6, <1>7, <2>1, <2>2
  <2> QED BY <2>3
<1>9. Strip(u) = SubSeq(u, Max(blanks) + 1, Len(u))
  BY DEF Strip
<1>10. Strip(u) = From(u, d)
  BY <1>8, <1>9 DEF From
<1>11. d < n => u[d + 1] # Blank
  BY <1>1, <1>4
<1> QED BY <1>4, <1>5, <1>10, <1>11

LEMMA StripIs ==
  ASSUME NEW T, NEW u \in Seq(T), NEW d \in 0..Len(u),
         \A j \in 1..d : u[j] = Blank, d < Len(u) => u[d + 1] # Blank
  PROVE  Strip(u) = From(u, d)
<1>1. PICK e \in 0..Len(u) : /\ Strip(u) = From(u, e)
                             /\ \A j \in 1..e : u[j] = Blank
                             /\ e < Len(u) => u[e + 1] # Blank
  BY StripFacts
<1>2. Len(u) \in Nat
  BY LenProperties
<1>3. ~ (d < e)
  <2>1. d < e => d + 1 \in 1..e /\ d < Len(u)
    BY <1>2
  <2> QED BY <1>1, <2>1
<1>4. ~ (e < d)
  <2>1. e < d => e + 1 \in 1..d /\ e < Len(u)
    BY <1>2
  <2> QED BY <1>1, <2>1
<1>5. e = d
  BY <1>2, <1>3, <1>4
<1> QED BY <1>1, <1>5

LEMMA StripType ==
  ASSUME NEW T, NEW u \in Seq(T)
  PROVE  /\ Strip(u) \in Seq(T) /\ Len(Strip(u)) <= Len(u)
         /\ Strip(u) # <<>> => Strip(u)[1] # Blank
<1>1. PICK d \in 0..Len(u) : Strip(u) = From(u, d) /\ (d < Len(u) => u[d + 1] # Blank)
  BY StripFacts
<1>2. Len(u) \in Nat
  BY LenProperties
<1>3. /\ From(u, d) \in Seq(T) /\ Len(From(u, d)) = Len(u) - d
      /\ \A i \in 1..(Len(u) - d) : From(u, d)[i] = u[d + i]
  BY FromFacts
<1>4. Strip(u) # <<>> => Len(u) - d \in Nat \ {0}
  BY <1>1, <1>3, EmptySeq
<1>5. Strip(u) # <<>> => d < Len(u) /\ From(u, d)[1] = u[d + 1]
  BY <1>2, <1>3, <1>4
<1>6. Len(Strip(u)) <= Len(u)
  BY <1>1, <1>2, <1>3
<1> QED BY <1>1, <1>3, <1>5, <1>6

\* What does not begin with a blank stays.
LEMMA StripNothing ==
  ASSUME NEW T, NEW u \in Seq(T), u = <<>> \/ u[1] # Blank
  PROVE  Strip(u) = u
<1>1. Len(u) \in Nat /\ 0 \in 0..Len(u) /\ 0 + 1 = 1
  BY LenProperties
<1>2. 0 < Len(u) => u[0 + 1] # Blank
  <2>1. u = <<>> => Len(u) = 0
    BY EmptySeq
  <2> QED BY <1>1, <2>1
<1>3. \A j \in 1..0 : u[j] = Blank
  OBVIOUS
<1>4. Strip(u) = From(u, 0)
  BY <1>1, <1>2, <1>3, StripIs
<1>5. From(u, 0) = u
  BY <1>1, SubSeqFull DEF From
<1> QED BY <1>4, <1>5

\* A text with a token somewhere in it.
Joined(a, x, b) == a \o Cons(x, b)

IsJoined(s, a, x, b) ==
  /\ Len(a) \in Nat /\ Len(b) \in Nat /\ Len(s) = Len(a) + 1 + Len(b)
  /\ \A i \in 1..Len(a) : s[i] = a[i]
  /\ s[Len(a) + 1] = x
  /\ \A i \in 1..Len(b) : s[Len(a) + 1 + i] = b[i]

LEMMA JoinFacts ==
  ASSUME NEW T, NEW a \in Seq(T), NEW x \in T, NEW b \in Seq(T)
  PROVE  Joined(a, x, b) \in Seq(T) /\ IsJoined(Joined(a, x, b), a, x, b)
<1> DEFINE c == Cons(x, b)  s == a \o c
<1>1. /\ c \in Seq(T) /\ Len(c) = Len(b) + 1 /\ c[1] = x
      /\ \A i \in 1..Len(b) : c[i + 1] = b[i]
  BY ConsFacts
<1>2. Len(a) \in Nat /\ Len(b) \in Nat
  BY LenProperties
<1> HIDE DEF c
<1>3. /\ s \in Seq(T) /\ Len(s) = Len(a) + Len(c)
      /\ \A i \in 1..(Len(a) + Len(c)) : s[i] = IF i <= Len(a) THEN a[i] ELSE c[i - Len(a)]
  BY <1>1, ConcatProperties
<1> HIDE DEF s
<1>4. \A i \in 1..Len(a) : s[i] = a[i]
  BY <1>1, <1>2, <1>3
<1>5. s[Len(a) + 1] = x
  <2>1. Len(a) + 1 \in 1..(Len(a) + Len(c)) /\ ~ (Len(a) + 1 <= Len(a)) /\ Len(a) + 1 - Len(a) = 1
    BY <1>1, <1>2
  <2> QED BY <1>1, <1>3, <2>1
<1>6. ASSUME NEW i \in 1..Len(b) PROVE s[Len(a) + 1 + i] = b[i]
  <2>1. /\ Len(a) + 1 + i \in 1..(Len(a) + Len(c)) /\ ~ (Len(a) + 1 + i <= Len(a))
        /\ Len(a) + 1 + i - Len(a) = i + 1
    BY <1>1, <1>2
  <2> QED BY <1>1, <1>3, <2>1
<1>7. Len(s) = Len(a) + 1 + Len(b)
  BY <1>1, <1>2, <1>3
<1> QED BY <1>2, <1>3, <1>4, <1>5, <1>6, <1>7 DEF s, c, Joined, IsJoined

\* A text is found to be split at the first of the tokens that is looked for, if
\* it was not cut before that.
IsSplit(t, a, x, b, n, S) ==
  /\ n <= Len(a) => ~ Has(t, S)
  /\ n > Len(a) => /\ Has(t, S) /\ Place(t, S) = Len(a) + 1 /\ t[Len(a) + 1] = x
                   /\ Before(t, S) = a
                   /\ n - Len(a) - 1 \in Nat /\ After(t, S) = Cut(b, n - Len(a) - 1)

LEMMA CutSplit ==
  ASSUME NEW T, NEW a \in Seq(T), NEW x \in T, NEW b \in Seq(T), NEW n \in Nat,
         NEW S, x \in S, ~ Has(a, S)
  PROVE  /\ Cut(Joined(a, x, b), n) \in Seq(T)
         /\ IsSplit(Cut(Joined(a, x, b), n), a, x, b, n, S)
<1> DEFINE s == Joined(a, x, b)  t == Cut(s, n)  m == Len(a)
<1>1. /\ s \in Seq(T) /\ m \in Nat /\ Len(b) \in Nat /\ Len(s) = m + 1 + Len(b)
      /\ (\A i \in 1..m : s[i] = a[i]) /\ s[m + 1] = x
      /\ \A i \in 1..Len(b) : s[m + 1 + i] = b[i]
  <2>1. s \in Seq(T) /\ IsJoined(s, a, x, b)
    BY JoinFacts
  <2> QED BY <2>1 DEF IsJoined
<1> HIDE DEF s
<1>2. /\ t \in Seq(T) /\ Len(t) = IF n <= Len(s) THEN n ELSE Len(s)
      /\ \A i \in 1..Len(t) : t[i] = s[i]
  BY <1>1, CutFacts
<1> HIDE DEF t
<1>3. DOMAIN a = 1..m /\ DOMAIN t = 1..Len(t) /\ Len(t) \in Nat
  BY <1>2, LenProperties
<1>4. \A i \in 1..m : a[i] \notin S
  BY <1>3 DEF Has
<1>5. ASSUME n <= m PROVE ~ Has(t, S)
  <2>1. \A i \in 1..Len(t) : i \in 1..m
    BY <1>1, <1>2, <1>5
  <2>2. \A i \in 1..Len(t) : t[i] \notin S
    BY <1>1, <1>2, <1>4, <2>1
  <2> QED BY <1>3, <2>2 DEF Has
<1>6. ASSUME n > m
      PROVE  /\ Has(t, S) /\ Place(t, S) = m + 1 /\ t[m + 1] = x
             /\ Before(t, S) = a
             /\ n - m - 1 \in Nat /\ After(t, S) = Cut(b, n - m - 1)
  <2>1. m + 1 \in 1..Len(t) /\ (\A i \in 1..m : i \in 1..Len(t)) /\ n - m - 1 \in Nat
        /\ m + 1 - 1 = m
    BY <1>1, <1>2, <1>6
  <2>2. t[m + 1] = x /\ \A j \in 1..m : t[j] = a[j]
    BY <1>1, <1>2, <2>1
  <2>3. t[m + 1] \in S /\ \A j \in 1..(m + 1 - 1) : t[j] \notin S
    BY <1>4, <2>1, <2>2
  <2>4. Has(t, S) /\ Place(t, S) = m + 1
    BY <1>2, <2>1, <2>3, PlaceIs
  <2>5. /\ After(t, S) = From(t, m + 1) /\ Before(t, S) \in Seq(T)
        /\ Len(Before(t, S)) = m /\ \A i \in 1..Len(Before(t, S)) : Before(t, S)[i] = t[i]
    BY <1>2, <2>1, <2>4, BeforeAfterTexts
  <2>6. Before(t, S) = a
    <3>1. \A i \in 1..Len(Before(t, S)) : Before(t, S)[i] = a[i]
      BY <2>2, <2>5
    <3> QED BY <2>5, <3>1, SameTexts
  <2> DEFINE r == From(t, m + 1)  q == Cut(b, n - m - 1)
  <2>7. m + 1 \in 0..Len(t)
    BY <1>1, <2>1
  <2>8. /\ r \in Seq(T) /\ Len(r) = Len(t) - (m + 1)
        /\ \A i \in 1..(Len(t) - (m + 1)) : r[i] = t[m + 1 + i]
    BY <1>2, <2>7, FromFacts
  <2>9. /\ q \in Seq(T) /\ Len(q) = IF n - m - 1 <= Len(b) THEN n - m - 1 ELSE Len(b)
        /\ \A i \in 1..Len(q) : q[i] = b[i]
    BY <2>1, CutFacts
  <2> HIDE DEF r, q
  <2>10. Len(r) = Len(q)
    BY <1>1, <1>2, <2>1, <2>8, <2>9
  <2>11. ASSUME NEW i \in 1..Len(r) PROVE r[i] = q[i]
    <3>1. /\ i \in 1..(Len(t) - (m + 1)) /\ m + 1 + i \in 1..Len(t) /\ i \in 1..Len(b)
          /\ i \in 1..Len(q)
      BY <1>1, <1>2, <1>3, <2>1, <2>8, <2>9, <2>10
    <3> QED BY <1>1, <1>2, <2>8, <2>9, <3>1
  <2>12. r = q
    BY <2>8, <2>9, <2>10, <2>11, SameTexts
  <2> QED BY <2>1, <2>2, <2>4, <2>5, <2>6, <2>12 DEF r, q
<1>7. IsSplit(t, a, x, b, n, S)
  BY <1>5, <1>6 DEF IsSplit
<1> QED BY <1>2, <1>7 DEF t, s

\* Cutting and then stripping is stripping and then cutting further.
LEMMA StripCut ==
  ASSUME NEW T, NEW u \in Seq(T), NEW n \in Nat
  PROVE  LET d == Len(u) - Len(Strip(u)) IN
         /\ d \in Nat
         /\ Strip(Cut(u, n)) = Cut(Strip(u), IF n >= d THEN n - d ELSE 0)
<1>1. PICK d \in 0..Len(u) : /\ Strip(u) = From(u, d)
                             /\ \A j \in 1..d : u[j] = Blank
                             /\ d < Len(u) => u[d + 1] # Blank
  BY StripFacts
<1> DEFINE r == From(u, d)  t == Cut(u, n)  e == IF n >= d THEN d ELSE n
           m == IF n >= d THEN n - d ELSE 0
<1>2. Len(u) \in Nat /\ d \in Nat /\ d <= Len(u) /\ m \in Nat /\ e \in Nat
  BY LenProperties
<1>3. /\ r \in Seq(T) /\ Len(r) = Len(u) - d /\ \A i \in 1..(Len(u) - d) : r[i] = u[d + i]
  BY FromFacts
<1>4. /\ t \in Seq(T) /\ Len(t) = IF n <= Len(u) THEN n ELSE Len(u)
      /\ \A i \in 1..Len(t) : t[i] = u[i]
  BY CutFacts
<1> HIDE DEF r, t
<1>5. e \in 0..Len(t) /\ e <= d
  BY <1>2, <1>4
<1>6. \A j \in 1..e : t[j] = Blank
  <2>1. \A j \in 1..e : j \in 1..d /\ j \in 1..Len(t)
    BY <1>2, <1>4, <1>5
  <2> QED BY <1>1, <1>4, <2>1
<1>7. e < Len(t) => t[e + 1] # Blank
  <2>1. e < Len(t) => e = d /\ d < Len(u) /\ e + 1 \in 1..Len(t)
    BY <1>2, <1>4
  <2> QED BY <1>1, <1>4, <2>1
<1>8. Strip(t) = From(t, e)
  <2> HIDE DEF e
  <2> QED BY <1>4, <1>5, <1>6, <1>7, StripIs
<1>9. /\ From(t, e) \in Seq(T) /\ Len(From(t, e)) = Len(t) - e
      /\ \A i \in 1..(Len(t) - e) : From(t, e)[i] = t[e + i]
  <2> HIDE DEF e
  <2> QED BY <1>4, <1>5, FromFacts
<1>10. /\ Cut(r, m) \in Seq(T) /\ Len(Cut(r, m)) = IF m <= Len(r) THEN m ELSE Len(r)
       /\ \A i \in 1..Len(Cut(r, m)) : Cut(r, m)[i] = r[i]
  <2> HIDE DEF m
  <2> QED BY <1>2, <1>3, CutFacts
<1>11. Len(t) - e = Len(Cut(r, m))
  <2>1. CASE n >= d
    <3>1. e = d /\ m = n - d
      BY <2>1
    <3> QED BY <1>2, <1>3, <1>4, <1>10, <2>1, <3>1
  <2>2. CASE ~ (n >= d)
    <3>1. e = n /\ m = 0
      BY <2>2
    <3> QED BY <1>2, <1>3, <1>4, <1>10, <2>2, <3>1
  <2> QED BY <2>1, <2>2
<1>12. ASSUME NEW i \in 1..(Len(t) - e) PROVE t[e + i] = r[i]
  <2>1. e = d /\ e + i \in 1..Len(t) /\ i \in 1..(Len(u) - d)
    BY <1>2, <1>4
  <2> QED BY <1>3, <1>4, <2>1
<1>13. From(t, e) = Cut(r, m)
  <2> HIDE DEF e, m
  <2>1. \A i \in 1..Len(From(t, e)) : From(t, e)[i] = Cut(r, m)[i]
    BY <1>9, <1>10, <1>11, <1>12
  <2> QED BY <1>9, <1>10, <1>11, <2>1, SameTexts
<1>14. Len(u) - Len(Strip(u)) = d
  BY <1>1, <1>2, <1>3 DEF r
<1>15. Strip(Cut(u, n)) = Cut(Strip(u), m)
  BY <1>1, <1>8, <1>13 DEF r, t
<1> QED BY <1>2, <1>14, <1>15

\* The blanks are before a token that is none.
LEMMA StripUpTo ==
  ASSUME NEW T, NEW a \in Seq(T), NEW x \in T, NEW b \in Seq(T), x # Blank
  PROVE  Strip(Joined(a, x, b)) = Joined(Strip(a), x, b)
<1> DEFINE s == Joined(a, x, b)
<1>1. PICK d \in 0..Len(a) : /\ Strip(a) = From(a, d)
                             /\ \A j \in 1..d : a[j] = Blank
                             /\ d < Len(a) => a[d + 1] # Blank
  BY StripFacts
<1> DEFINE r == From(a, d)  v == Joined(r, x, b)
<1>2. /\ s \in Seq(T) /\ Len(a) \in Nat /\ Len(b) \in Nat /\ Len(s) = Len(a) + 1 + Len(b)
      /\ (\A i \in 1..Len(a) : s[i] = a[i]) /\ s[Len(a) + 1] = x
      /\ \A i \in 1..Len(b) : s[Len(a) + 1 + i] = b[i]
  <2>1. s \in Seq(T) /\ IsJoined(s, a, x, b)
    BY JoinFacts
  <2> QED BY <2>1 DEF IsJoined
<1>3. /\ From(a, d) \in Seq(T) /\ Len(From(a, d)) = Len(a) - d
      /\ \A i \in 1..(Len(a) - d) : From(a, d)[i] = a[d + i]
  BY FromFacts
<1> HIDE DEF r
<1>4. /\ v \in Seq(T) /\ Len(r) \in Nat /\ Len(v) = Len(r) + 1 + Len(b)
      /\ (\A i \in 1..Len(r) : v[i] = r[i]) /\ v[Len(r) + 1] = x
      /\ \A i \in 1..Len(b) : v[Len(r) + 1 + i] = b[i]
  <2>1. r \in Seq(T)
    BY <1>3 DEF r
  <2>2. v \in Seq(T) /\ IsJoined(v, r, x, b)
    BY <2>1, JoinFacts
  <2> QED BY <2>2 DEF IsJoined
<1> HIDE DEF s, v
<1>5. d \in 0..Len(s) /\ (\A j \in 1..d : s[j] = Blank) /\ s[d + 1] # Blank
  <2>1. d \in 0..Len(s) /\ (\A j \in 1..d : j \in 1..Len(a)) /\ (d = Len(a) \/ d + 1 \in 1..Len(a))
    BY <1>2
  <2>2. \A j \in 1..d : s[j] = Blank
    BY <1>1, <1>2, <2>1
  <2>3. CASE d = Len(a)
    BY <1>2, <2>1, <2>2, <2>3
  <2>4. CASE d + 1 \in 1..Len(a)
    <3>1. d < Len(a) /\ s[d + 1] = a[d + 1]
      BY <1>2, <2>4
    <3> QED BY <1>1, <2>1, <2>2, <3>1
  <2> QED BY <2>1, <2>3, <2>4
<1>6. Strip(s) = From(s, d)
  BY <1>2, <1>5, StripIs
<1>7. /\ From(s, d) \in Seq(T) /\ Len(From(s, d)) = Len(s) - d
      /\ \A i \in 1..(Len(s) - d) : From(s, d)[i] = s[d + i]
  <2>1. s \in Seq(T) /\ d \in 0..Len(s)
    BY <1>2, <1>5
  <2> QED BY <2>1, FromFacts
<1>8. Len(r) = Len(a) - d /\ \A i \in 1..(Len(a) - d) : r[i] = a[d + i]
  BY <1>3 DEF r
<1>9. Len(From(s, d)) = Len(v)
  BY <1>2, <1>4, <1>7, <1>8
<1>10. ASSUME NEW i \in 1..Len(v) PROVE s[d + i] = v[i]
  <2>1. CASE i <= Len(r)
    <3>1. i \in 1..Len(r) /\ i \in 1..(Len(a) - d)
      BY <1>2, <1>4, <1>8, <2>1
    <3>2. d + i \in 1..Len(a)
      BY <1>2, <3>1
    <3>3. s[d + i] = a[d + i]
      BY <1>2, <3>2
    <3>4. v[i] = a[d + i]
      BY <1>4, <1>8, <3>1
    <3> QED BY <3>3, <3>4
  <2>2. CASE i = Len(r) + 1
    <3>1. d + i = Len(a) + 1
      BY <1>2, <1>8, <2>2
    <3> QED BY <1>2, <1>4, <2>2, <3>1
  <2>3. CASE i > Len(r) + 1
    <3> DEFINE k == i - Len(r) - 1
    <3>1. k \in 1..Len(b) /\ Len(r) + 1 + k = i /\ Len(a) + 1 + k = d + i
      BY <1>2, <1>4, <1>8, <2>3
    <3> HIDE DEF k
    <3>2. s[Len(a) + 1 + k] = b[k] /\ v[Len(r) + 1 + k] = b[k]
      BY <1>2, <1>4, <3>1
    <3> QED BY <3>1, <3>2
  <2>4. Len(r) \in Nat /\ i \in Int
    BY <1>4
  <2> QED BY <2>1, <2>2, <2>3, <2>4
<1>11. From(s, d) = v
  <2>1. \A i \in 1..Len(From(s, d)) : From(s, d)[i] = v[i]
    BY <1>7, <1>9, <1>10
  <2> QED BY <1>4, <1>7, <1>9, <2>1, SameTexts
<1> QED BY <1>1, <1>6, <1>11 DEF s, r, v

LEMMA StripCons ==
  ASSUME NEW T, NEW u \in Seq(T), Blank \in T
  PROVE  Strip(Cons(Blank, u)) = Strip(u)
<1> DEFINE c == Cons(Blank, u)
<1>1. /\ c \in Seq(T) /\ Len(c) = Len(u) + 1 /\ c[1] = Blank
      /\ \A i \in 1..Len(u) : c[i + 1] = u[i]
  BY ConsFacts
<1> HIDE DEF c
<1>2. PICK d \in 0..Len(u) : /\ Strip(u) = From(u, d)
                             /\ \A j \in 1..d : u[j] = Blank
                             /\ d < Len(u) => u[d + 1] # Blank
  BY StripFacts
<1>3. Len(u) \in Nat
  BY LenProperties
<1>4. d + 1 \in 0..Len(c)
  BY <1>1, <1>3
<1>5. ASSUME NEW j \in 1..(d + 1) PROVE c[j] = Blank
  <2>1. j = 1 \/ (j - 1 \in 1..d /\ j - 1 \in 1..Len(u) /\ j - 1 + 1 = j)
    BY <1>3
  <2> QED BY <1>1, <1>2, <2>1
<1>6. d + 1 < Len(c) => c[d + 1 + 1] # Blank
  <2>1. d + 1 < Len(c) => d < Len(u) /\ d + 1 \in 1..Len(u)
    BY <1>1, <1>3
  <2> QED BY <1>1, <1>2, <2>1
<1>7. Strip(c) = From(c, d + 1)
  BY <1>1, <1>4, <1>5, <1>6, StripIs
<1>8. /\ From(c, d + 1) \in Seq(T) /\ Len(From(c, d + 1)) = Len(c) - (d + 1)
      /\ \A i \in 1..(Len(c) - (d + 1)) : From(c, d + 1)[i] = c[d + 1 + i]
  <2>1. c \in Seq(T)
    BY <1>1
  <2> QED BY <1>4, <2>1, FromFacts
<1>9. /\ From(u, d) \in Seq(T) /\ Len(From(u, d)) = Len(u) - d
      /\ \A i \in 1..(Len(u) - d) : From(u, d)[i] = u[d + i]
  BY FromFacts
<1>10. ASSUME NEW i \in 1..Len(From(c, d + 1)) PROVE From(c, d + 1)[i] = From(u, d)[i]
  <2>1. i \in 1..(Len(c) - (d + 1)) /\ i \in 1..(Len(u) - d) /\ d + i \in 1..Len(u)
        /\ d + 1 + i = d + i + 1
    BY <1>1, <1>3, <1>8
  <2> QED BY <1>1, <1>8, <1>9, <2>1
<1>11. Len(From(c, d + 1)) = Len(From(u, d))
  BY <1>1, <1>3, <1>8, <1>9
<1>12. From(c, d + 1) = From(u, d)
  BY <1>8, <1>9, <1>10, <1>11, SameTexts
<1> QED BY <1>2, <1>7, <1>12 DEF c

-----------------------------------------------------------------------------
(* What is in a buffer.                                                    *)

\* Of what was printed to a buffer, full, it holds what it has room for.
Holds(b, limit, full) == /\ b.text = Cut(full, limit - 1)
                         /\ b.len = Len(full)
                         /\ b.past => Len(full) > limit

\* One text after another.
Cat(a, b) == a \o b

LEMMA CatFacts ==
  ASSUME NEW T, NEW a \in Seq(T), NEW b \in Seq(T)
  PROVE  /\ Cat(a, b) \in Seq(T)
         /\ Len(a) \in Nat /\ Len(b) \in Nat
         /\ Len(Cat(a, b)) = Len(a) + Len(b)
BY ConcatProperties, LenProperties DEF Cat

LEMMA CatAssociative ==
  ASSUME NEW T, NEW a \in Seq(T), NEW b \in Seq(T), NEW c \in Seq(T)
  PROVE  Cat(Cat(a, b), c) = Cat(a, Cat(b, c))
BY ConcatAssociative DEF Cat

LEMMA CatEmpty ==
  ASSUME NEW T, NEW a \in Seq(T)
  PROVE  Cat(a, <<>>) = a /\ Cat(<<>>, a) = a
BY ConcatEmptySeq DEF Cat

LEMMA ConcatFacts ==
  ASSUME NEW T, NEW a \in Seq(T), NEW b \in Seq(T)
  PROVE  /\ a \o b \in Seq(T)
         /\ Len(a) \in Nat /\ Len(b) \in Nat
         /\ Len(a \o b) = Len(a) + Len(b)
BY ConcatProperties, LenProperties

LEMMA CutOfConcat ==
  ASSUME NEW T, NEW a \in Seq(T), NEW b \in Seq(T), NEW n \in Nat, n <= Len(a)
  PROVE  Cut(a \o b, n) = Cut(a, n)
<1> DEFINE c == a \o b
<1>1. /\ c \in Seq(T) /\ Len(c) = Len(a) + Len(b)
      /\ \A i \in 1..(Len(a) + Len(b)) : c[i] = IF i <= Len(a) THEN a[i] ELSE b[i - Len(a)]
  BY ConcatProperties
<1> HIDE DEF c
<1>2. Len(a) \in Nat /\ Len(b) \in Nat
  BY LenProperties
<1>3. /\ Cut(c, n) \in Seq(T) /\ Len(Cut(c, n)) = n
      /\ \A i \in 1..Len(Cut(c, n)) : Cut(c, n)[i] = c[i]
  <2>1. n <= Len(c)
    BY <1>1, <1>2
  <2> QED BY <1>1, <2>1, CutFacts
<1>4. /\ Cut(a, n) \in Seq(T) /\ Len(Cut(a, n)) = n
      /\ \A i \in 1..Len(Cut(a, n)) : Cut(a, n)[i] = a[i]
  BY CutFacts
<1>5. ASSUME NEW i \in 1..Len(Cut(c, n)) PROVE Cut(c, n)[i] = Cut(a, n)[i]
  <2>1. i \in 1..(Len(a) + Len(b)) /\ i <= Len(a) /\ i \in 1..Len(Cut(a, n))
    BY <1>2, <1>3, <1>4
  <2> QED BY <1>1, <1>3, <1>4, <2>1
<1>6. Cut(c, n) = Cut(a, n)
  BY <1>3, <1>4, <1>5, SameTexts
<1> QED BY <1>6 DEF c

LEMMA LeastOfTwo ==
  ASSUME NEW m \in Int, NEW n \in Int
  PROVE  Min({m, n}) = IF m <= n THEN m ELSE n
<1> DEFINE l == IF m <= n THEN m ELSE n
<1>1. l \in {m, n} /\ \A k \in {m, n} : l <= k
  OBVIOUS
<1>2. /\ Min({m, n}) \in {m, n}
      /\ \A k \in {m, n} : Min({m, n}) <= k
  BY <1>1 DEF Min
<1> QED BY <1>1, <1>2

LEMMA SnprintfHolds ==
  ASSUME NEW T, NEW limit \in Nat \ {0}, NEW full \in Seq(T), NEW text \in Seq(T),
         NEW b, Holds(b, limit, full)
  PROVE  Holds(Snprintf(limit, b, text), limit, full \o text)
<1> DEFINE s == Snprintf(limit, b, text)  more == full \o text
<1>1. /\ more \in Seq(T) /\ Len(full) \in Nat /\ Len(text) \in Nat
      /\ Len(more) = Len(full) + Len(text)
  BY ConcatFacts
<1>2. b.text = Cut(full, limit - 1) /\ b.len = Len(full) /\ (b.past => Len(full) > limit)
  BY DEF Holds
<1>3. /\ s.text = IF b.len < limit
                  THEN SubSeq(b.text \o text, 1, Min({limit - 1, b.len + Len(text)}))
                  ELSE b.text
      /\ s.len = b.len + Len(text)
      /\ s.past <=> (b.past \/ b.len > limit)
  BY DEF Snprintf
<1>4. s.len = Len(more) /\ (s.past => Len(more) > limit)
  BY <1>1, <1>2, <1>3
<1>5. s.text = Cut(more, limit - 1)
  <2>1. CASE Len(full) < limit
    <3>1. Cut(full, limit - 1) = full
      BY <1>1, <2>1, CutFacts
    <3>2. Min({limit - 1, Len(full) + Len(text)}) = IF limit - 1 <= Len(more) THEN limit - 1 ELSE Len(more)
      <4>1. limit - 1 \in Int /\ Len(full) + Len(text) \in Int
        BY <1>1
      <4> QED BY <1>1, <4>1, LeastOfTwo
    <3>3. s.text = SubSeq(more, 1, Min({limit - 1, Len(full) + Len(text)}))
      BY <1>2, <1>3, <2>1, <3>1
    <3> QED BY <3>2, <3>3 DEF Cut
  <2>2. CASE ~ (Len(full) < limit)
    <3>1. s.text = Cut(full, limit - 1)
      BY <1>2, <1>3, <2>2
    <3>2. limit - 1 \in Nat /\ limit - 1 <= Len(full)
      BY <1>1, <2>2
    <3> QED BY <3>1, <3>2, CutOfConcat
  <2> QED BY <2>1, <2>2
<1> QED BY <1>4, <1>5 DEF Holds

\* Texts that follow each other: F[k] is the first text and the next k of them,
\* R[k] those that follow.
IsBefore(F, T, first, texts, n) ==
  /\ F \in [0..n -> Seq(T)] /\ F[0] = first
  /\ \A k \in 1..n : F[k] = Cat(F[k - 1], texts[k])

IsAfter(R, T, texts, n) ==
  /\ R \in [0..n -> Seq(T)] /\ R[n] = <<>>
  /\ \A k \in 1..n : R[k - 1] = Cat(texts[k], R[k])

LEMMA FunctionIsSeq ==
  ASSUME NEW S, NEW n \in Nat, NEW f \in [1..n -> S]
  PROVE  f \in Seq(S) /\ Len(f) = n
OBVIOUS

LEMMA TextsBefore ==
  ASSUME NEW T, NEW first \in Seq(T), NEW texts \in Seq(Seq(T)), NEW n, n = Len(texts)
  PROVE  \E F : IsBefore(F, T, first, texts, n)
<1> DEFINE Is(F, m) == /\ F \in [0..m -> Seq(T)] /\ F[0] = first
                       /\ \A k \in 1..m : F[k] = Cat(F[k - 1], texts[k])
           S == {m \in 0..n : \E F : Is(F, m)}
<1>1. n \in Nat /\ \A k \in 1..n : texts[k] \in Seq(T)
  BY LenProperties, ElementOfSeq
<1>2. 0 \in S
  <2>1. Is([k \in 0..0 |-> first], 0)
    OBVIOUS
  <2> HIDE DEF Is
  <2> QED BY <1>1, <2>1
<1>3. ASSUME NEW m \in 1..n, m - 1 \in S PROVE m \in S
  <2>1. PICK F : Is(F, m - 1)
    BY <1>3
  <2>2. /\ m \in 1..n /\ m - 1 \in 0..(m - 1) /\ m \in 0..n
        /\ F \in [0..(m - 1) -> Seq(T)] /\ F[0] = first
        /\ \A k \in 1..(m - 1) : F[k] = Cat(F[k - 1], texts[k])
    BY <1>1, <2>1
  <2> DEFINE G == [k \in 0..m |-> IF k = m THEN Cat(F[m - 1], texts[m]) ELSE F[k]]
  <2>3. Cat(F[m - 1], texts[m]) \in Seq(T)
    BY <1>1, <2>2, CatFacts
  <2>4. G \in [0..m -> Seq(T)]
    <3>1. ASSUME NEW k \in 0..m PROVE G[k] \in Seq(T)
      <4>1. k # m => k \in 0..(m - 1)
        BY <2>2
      <4> QED BY <2>2, <2>3, <4>1
    <3> QED BY <3>1
  <2>5. G[0] = first
    BY <2>2
  <2>6. ASSUME NEW k \in 1..m PROVE G[k] = Cat(G[k - 1], texts[k])
    <3>1. k \in 0..m /\ k - 1 \in 0..m /\ k - 1 # m /\ (k # m => k \in 1..(m - 1))
      BY <2>2
    <3>2. G[k - 1] = F[k - 1]
      BY <3>1
    <3>3. CASE k = m
      BY <3>1, <3>2, <3>3
    <3>4. CASE k # m
      <4>1. G[k] = F[k]
        BY <3>1, <3>4
      <4> QED BY <2>2, <3>1, <3>2, <3>4, <4>1
    <3> QED BY <3>3, <3>4
  <2>7. Is(G, m)
    <3> HIDE DEF G
    <3> QED BY <2>4, <2>5, <2>6
  <2> HIDE DEF Is
  <2> QED BY <2>2, <2>7
<1>4. n \in S
  <2> HIDE DEF S
  <2>1. \A k \in 0..n : k \in S
    BY <1>1, <1>2, <1>3, InductionTo
  <2> QED BY <1>1, <2>1
<1> QED BY <1>4 DEF IsBefore

LEMMA TextsAfter ==
  ASSUME NEW T, NEW first \in Seq(T), NEW texts \in Seq(Seq(T)), NEW n, n = Len(texts),
         NEW F, IsBefore(F, T, first, texts, n)
  PROVE  \E R : IsAfter(R, T, texts, n) /\ F[n] = Cat(first, R[0])
<1> DEFINE Is(R, m) == /\ R \in [(n - m)..n -> Seq(T)] /\ R[n] = <<>>
                       /\ \A k \in (n - m + 1)..n : R[k - 1] = Cat(texts[k], R[k])
           S == {m \in 0..n : \E R : Is(R, m)}
<1>1. n \in Nat /\ \A k \in 1..n : texts[k] \in Seq(T)
  BY LenProperties, ElementOfSeq
<1>a. /\ F \in [0..n -> Seq(T)] /\ F[0] = first
      /\ \A k \in 1..n : F[k] = Cat(F[k - 1], texts[k])
  BY DEF IsBefore
<1>2. 0 \in S
  <2>1. <<>> \in Seq(T)
    BY EmptySeq
  <2>2. Is([k \in n..n |-> <<>>], 0)
    BY <1>1, <2>1
  <2> HIDE DEF Is
  <2> QED BY <1>1, <2>2
<1>3. ASSUME NEW m \in 1..n, m - 1 \in S PROVE m \in S
  <2>1. PICK R : Is(R, m - 1)
    BY <1>3
  <2> DEFINE p == n - m + 1
  <2>2. /\ p \in 1..n /\ n - (m - 1) = p /\ n - m = p - 1 /\ m \in 0..n
    BY <1>1
  <2> HIDE DEF p
  <2>3. /\ R \in [p..n -> Seq(T)] /\ R[n] = <<>>
        /\ \A k \in (p + 1)..n : R[k - 1] = Cat(texts[k], R[k])
    BY <2>1, <2>2
  <2> DEFINE Q == [k \in (p - 1)..n |-> IF k = p - 1 THEN Cat(texts[p], R[p]) ELSE R[k]]
  <2>4. Cat(texts[p], R[p]) \in Seq(T)
    <3>1. p \in p..n
      BY <1>1, <2>2
    <3> QED BY <1>1, <2>2, <2>3, <3>1, CatFacts
  <2>5. Q \in [(p - 1)..n -> Seq(T)]
    <3>1. ASSUME NEW k \in (p - 1)..n PROVE Q[k] \in Seq(T)
      <4>1. k # p - 1 => k \in p..n
        BY <1>1, <2>2
      <4> QED BY <2>3, <2>4, <4>1
    <3> QED BY <3>1
  <2>6. Q[n] = <<>>
    <3>1. n \in (p - 1)..n /\ n # p - 1
      BY <1>1, <2>2
    <3> QED BY <2>3, <3>1
  <2>7. ASSUME NEW k \in (p - 1 + 1)..n PROVE Q[k - 1] = Cat(texts[k], Q[k])
    <3>1. k \in (p - 1)..n /\ k - 1 \in (p - 1)..n /\ k # p - 1 /\ (k # p => k \in (p + 1)..n /\ k - 1 # p - 1)
      BY <1>1, <2>2
    <3>2. Q[k] = R[k]
      BY <3>1
    <3>3. CASE k = p
      BY <3>1, <3>2, <3>3
    <3>4. CASE k # p
      <4>1. Q[k - 1] = R[k - 1]
        BY <3>1, <3>4
      <4> QED BY <2>3, <3>1, <3>2, <3>4, <4>1
    <3> QED BY <3>3, <3>4
  <2>8. Is(Q, m)
    <3> HIDE DEF Q
    <3> QED BY <2>2, <2>5, <2>6, <2>7
  <2> HIDE DEF Is
  <2> QED BY <2>2, <2>8
<1>4. n \in S
  <2> HIDE DEF S
  <2>1. \A k \in 0..n : k \in S
    BY <1>1, <1>2, <1>3, InductionTo
  <2> QED BY <1>1, <2>1
<1>5. PICK R : Is(R, n)
  BY <1>4
<1>6. /\ R \in [0..n -> Seq(T)] /\ R[n] = <<>>
      /\ \A k \in 1..n : R[k - 1] = Cat(texts[k], R[k])
  BY <1>1, <1>5
<1> DEFINE U == {k \in 0..n : Cat(F[k], R[k]) = Cat(first, R[0])}
<1>7. 0 \in U
  BY <1>1, <1>a
<1>8. ASSUME NEW k \in 1..n, k - 1 \in U PROVE k \in U
  <2>1. k \in 0..n /\ k - 1 \in 0..n
    BY <1>1
  <2>2. F[k] = Cat(F[k - 1], texts[k]) /\ R[k - 1] = Cat(texts[k], R[k])
    BY <1>6, <1>a
  <2>3. Cat(Cat(F[k - 1], texts[k]), R[k]) = Cat(F[k - 1], Cat(texts[k], R[k]))
    <3>1. F[k - 1] \in Seq(T) /\ texts[k] \in Seq(T) /\ R[k] \in Seq(T)
      BY <1>1, <1>6, <1>a, <2>1
    <3> QED BY <3>1, CatAssociative
  <2>4. Cat(F[k - 1], R[k - 1]) = Cat(first, R[0])
    BY <1>8
  <2>5. Cat(F[k], R[k]) = Cat(first, R[0])
    BY <2>2, <2>3, <2>4
  <2> QED BY <2>1, <2>5
<1>9. n \in U
  <2> HIDE DEF U
  <2>1. \A k \in 0..n : k \in U
    BY <1>1, <1>7, <1>8, InductionTo
  <2> QED BY <1>1, <2>1
<1>10. F[n] = Cat(first, R[0])
  <2>1. F[n] \in Seq(T)
    BY <1>1, <1>a
  <2>2. Cat(F[n], <<>>) = F[n]
    BY <2>1, CatEmpty
  <2> QED BY <1>6, <1>9, <2>2
<1> QED BY <1>6, <1>10 DEF IsAfter

\* The loop over texts: after[k] is the buffer after k of them.
PrintedAfter(limit, buff, texts, after, n) ==
  after = [k \in 0..n |-> IF k = 0 THEN buff ELSE Snprintf(limit, after[k - 1], texts[k])]

IsPrinting(limit, buff, texts, after, n) ==
  /\ Printed(limit, buff, texts) = after[n] /\ after[0] = buff
  /\ \A k \in 1..n : after[k] = Snprintf(limit, after[k - 1], texts[k])

LEMMA PrintedLoop ==
  ASSUME NEW limit, NEW buff, NEW texts, NEW n \in Nat, n = Len(texts)
  PROVE  \E after : IsPrinting(limit, buff, texts, after, n)
<1> DEFINE Is(w, m) == PrintedAfter(limit, buff, texts, w, m)
           S == {m \in 0..n : \E w : Is(w, m)}
<1>1. 0 \in S
  <2>1. Is([k \in 0..0 |-> buff], 0)
    BY DEF PrintedAfter
  <2> HIDE DEF Is
  <2> QED BY <2>1
<1>2. ASSUME NEW m \in 1..n, m - 1 \in S PROVE m \in S
  <2>1. m \in 0..n /\ m \in Nat /\ m # 0
    OBVIOUS
  <2>2. PICK w : Is(w, m - 1)
    BY <1>2
  <2> DEFINE v == [k \in 0..m |-> IF k = m THEN Snprintf(limit, w[m - 1], texts[m]) ELSE w[k]]
  <2>3. w = [k \in 0..(m - 1) |-> IF k = 0 THEN buff ELSE Snprintf(limit, w[k - 1], texts[k])]
    BY <2>2 DEF PrintedAfter
  <2>4. \A k \in 0..(m - 1) : w[k] = IF k = 0 THEN buff ELSE Snprintf(limit, w[k - 1], texts[k])
    BY <2>3
  <2>5. ASSUME NEW k \in 0..m
        PROVE  v[k] = IF k = 0 THEN buff ELSE Snprintf(limit, v[k - 1], texts[k])
    <3>1. /\ k # m => k \in 0..(m - 1)
          /\ k # 0 => k - 1 \in 0..m /\ k - 1 # m
      BY <2>1
    <3>2. k # 0 => v[k - 1] = w[k - 1]
      BY <3>1
    <3>3. CASE k = m
      BY <2>1, <3>2, <3>3
    <3>4. CASE k # m
      BY <2>4, <3>1, <3>2, <3>4
    <3> QED BY <3>3, <3>4
  <2>6. v = [k \in 0..m |-> v[k]]
    OBVIOUS
  <2> HIDE DEF v
  <2>7. Is(v, m)
    BY <2>5, <2>6 DEF PrintedAfter
  <2> HIDE DEF Is
  <2> QED BY <2>1, <2>7
<1>3. n \in S
  <2> HIDE DEF S
  <2>1. \A k \in 0..n : k \in S
    BY <1>1, <1>2, InductionTo
  <2> QED BY <2>1
<1> DEFINE after == CHOOSE w : Is(w, n)
<1>4. Is(after, n)
  <2> HIDE DEF Is
  <2> QED BY <1>3
<1>5. Printed(limit, buff, texts) = after[n]
  BY DEF Printed, PrintedAfter
<1> HIDE DEF after
<1>6. \A k \in 0..n : after[k] = IF k = 0 THEN buff ELSE Snprintf(limit, after[k - 1], texts[k])
  BY <1>4 DEF PrintedAfter
<1>7. after[0] = buff /\ \A k \in 1..n : after[k] = Snprintf(limit, after[k - 1], texts[k])
  BY <1>6
<1>8. IsPrinting(limit, buff, texts, after, n)
  BY <1>5, <1>7 DEF IsPrinting
<1> QED BY <1>8

LEMMA PrintedHolds ==
  ASSUME NEW T, NEW limit \in Nat \ {0}, NEW first \in Seq(T),
         NEW texts \in Seq(Seq(T)), NEW n, n = Len(texts),
         NEW F, IsBefore(F, T, first, texts, n), NEW buff, Holds(buff, limit, first)
  PROVE  Holds(Printed(limit, buff, texts), limit, F[n])
<1>1. n \in Nat /\ \A k \in 1..n : texts[k] \in Seq(T)
  BY LenProperties, ElementOfSeq
<1>b. /\ F \in [0..n -> Seq(T)] /\ F[0] = first
      /\ \A k \in 1..n : F[k] = Cat(F[k - 1], texts[k])
  BY DEF IsBefore
<1>a. PICK after : IsPrinting(limit, buff, texts, after, n)
  BY <1>1, PrintedLoop
<1>2. /\ Printed(limit, buff, texts) = after[n] /\ after[0] = buff
      /\ \A k \in 1..n : after[k] = Snprintf(limit, after[k - 1], texts[k])
  BY <1>a DEF IsPrinting
<1> DEFINE S == {k \in 0..n : Holds(after[k], limit, F[k])}
<1>3. 0 \in S
  BY <1>1, <1>2, <1>b
<1>4. ASSUME NEW k \in 1..n, k - 1 \in S PROVE k \in S
  <2>1. k \in 0..n /\ k - 1 \in 0..n /\ Holds(after[k - 1], limit, F[k - 1])
    BY <1>1, <1>4
  <2>2. F[k - 1] \in Seq(T) /\ texts[k] \in Seq(T)
    BY <1>1, <1>b, <2>1
  <2>3. Holds(Snprintf(limit, after[k - 1], texts[k]), limit, F[k - 1] \o texts[k])
    BY <2>1, <2>2, SnprintfHolds
  <2>4. Holds(after[k], limit, F[k])
    BY <1>2, <1>b, <2>3 DEF Cat
  <2> QED BY <2>1, <2>4
<1>5. n \in S
  <2> HIDE DEF S
  <2>1. \A k \in 0..n : k \in S
    BY <1>1, <1>3, <1>4, InductionTo
  <2> QED BY <1>1, <2>1
<1> QED BY <1>2, <1>5

\* A loop whose k-th turn makes G[<<s, k>>] of s.
LEMMA LoopExists ==
  ASSUME NEW n \in Nat, NEW A, NEW start \in A, NEW G \in [A \X (1..n) -> A]
  PROVE  \E w \in [0..n -> A] : w[0] = start /\ \A k \in 1..n : w[k] = G[<<w[k - 1], k>>]
<1> DEFINE Is(w, m) == /\ w \in [0..m -> A] /\ w[0] = start
                       /\ \A k \in 1..m : w[k] = G[<<w[k - 1], k>>]
           S == {m \in 0..n : \E w : Is(w, m)}
<1>1. 0 \in S
  <2>1. Is([k \in 0..0 |-> start], 0)
    OBVIOUS
  <2> HIDE DEF Is
  <2> QED BY <2>1
<1>2. ASSUME NEW m \in 1..n, m - 1 \in S PROVE m \in S
  <2>1. m \in 0..n /\ m - 1 \in 0..(m - 1)
    OBVIOUS
  <2>2. PICK w : Is(w, m - 1)
    BY <1>2
  <2> DEFINE v == [k \in 0..m |-> IF k = m THEN G[<<w[m - 1], m>>] ELSE w[k]]
  <2>3. G[<<w[m - 1], m>>] \in A
    BY <2>1, <2>2
  <2>4. v \in [0..m -> A]
    <3>1. ASSUME NEW k \in 0..m PROVE v[k] \in A
      <4>1. k # m => k \in 0..(m - 1)
        BY <2>1
      <4> QED BY <2>2, <2>3, <4>1
    <3> QED BY <3>1
  <2>5. v[0] = start
    BY <2>1, <2>2
  <2>6. ASSUME NEW k \in 1..m PROVE v[k] = G[<<v[k - 1], k>>]
    <3>1. k \in 0..m /\ k - 1 \in 0..m /\ k - 1 # m /\ (k # m => k \in 1..(m - 1))
      BY <2>1
    <3>2. v[k - 1] = w[k - 1]
      BY <3>1
    <3>3. CASE k = m
      BY <3>1, <3>2, <3>3
    <3>4. CASE k # m
      <4>1. v[k] = w[k]
        BY <3>1, <3>4
      <4> QED BY <2>2, <3>1, <3>2, <3>4, <4>1
    <3> QED BY <3>3, <3>4
  <2>7. Is(v, m)
    <3> HIDE DEF v
    <3> QED BY <2>4, <2>5, <2>6
  <2> HIDE DEF Is
  <2> QED BY <2>1, <2>7
<1>3. n \in S
  <2> HIDE DEF S
  <2>1. \A k \in 0..n : k \in S
    BY <1>1, <1>2, InductionTo
  <2> QED BY <2>1
<1> QED BY <1>3

-----------------------------------------------------------------------------
(* What is printed.                                                        *)

LEMMA SeparatorsDiffer ==
  /\ {Colon, Semicolon, Comma, Blank, Newline} = Separators
  /\ Colon # Semicolon /\ Colon # Comma /\ Colon # Blank /\ Colon # Newline
  /\ Semicolon # Comma /\ Semicolon # Blank /\ Semicolon # Newline
  /\ Comma # Blank /\ Comma # Newline /\ Blank # Newline
  /\ Zero \notin Separators /\ "operation" \notin Separators
  /\ "publish" \notin Separators /\ "filelistres" \notin Separators
BY DEF Separators, Colon, Semicolon, Comma, Blank, Newline, Zero

\* Tokens that suffice for any text.
IsTokens(T) == Separators \cup Words \cup {Zero, "operation", "publish", "filelistres"} \subseteq T

LEMMA SeparatorTokens ==
  ASSUME NEW T, IsTokens(T)
  PROVE  /\ Colon \in T /\ Semicolon \in T /\ Comma \in T /\ Blank \in T /\ Newline \in T
         /\ Zero \in T /\ "operation" \in T /\ "publish" \in T /\ "filelistres" \in T
<1>1. Separators \subseteq T /\ {Zero, "operation", "publish", "filelistres"} \subseteq T
  BY DEF IsTokens
<1> QED BY <1>1, SeparatorsDiffer

LEMMA OneMore ==
  ASSUME NEW T, NEW s \in Seq(T), NEW y \in T, NEW t \in Seq(T), Len(t) = Len(s) + 1,
         \A i \in 1..Len(s) : t[i] = s[i], t[Len(s) + 1] = y
  PROVE  Cat(s, <<y>>) = t
<1> DEFINE a == Append(s, y)
<1>1. /\ a \in Seq(T) /\ Len(a) = Len(s) + 1 /\ Len(s) \in Nat
      /\ (\A i \in 1..Len(s) : a[i] = s[i]) /\ a[Len(s) + 1] = y
  BY AppendProperties, LenProperties
<1>2. Cat(s, <<y>>) = a
  BY AppendIsConcat DEF Cat
<1> HIDE DEF a
<1>3. ASSUME NEW i \in 1..Len(a) PROVE a[i] = t[i]
  <2>1. i \in 1..Len(s) \/ i = Len(s) + 1
    BY <1>1
  <2> QED BY <1>1, <2>1
<1>4. a = t
  BY <1>1, <1>3, SameTexts
<1> QED BY <1>2, <1>4

One(x)         == <<x>>
Two(x, y)      == <<x, y>>
Three(x, y, z) == <<x, y, z>>

LEMMA CatTuples ==
  ASSUME NEW T, NEW x \in T, NEW y \in T, NEW z \in T
  PROVE  /\ One(x) \in Seq(T) /\ Two(x, y) \in Seq(T) /\ Three(x, y, z) \in Seq(T)
         /\ Cat(One(x), One(y)) = Two(x, y) /\ Cat(Two(x, y), One(z)) = Three(x, y, z)
<1> DEFINE a == <<x>>  b == <<x, y>>  c == <<x, y, z>>
<1>1. a \in Seq(T) /\ Len(a) = 1 /\ a[1] = x
  OBVIOUS
<1>2. b \in Seq(T) /\ Len(b) = 2 /\ b[1] = x /\ b[2] = y
  OBVIOUS
<1>3. c \in Seq(T) /\ Len(c) = 3 /\ c[1] = x /\ c[2] = y /\ c[3] = z
  OBVIOUS
<1> HIDE DEF a, b, c
<1>4. Cat(a, <<y>>) = b
  <2>1. Len(b) = Len(a) + 1 /\ (\A i \in 1..Len(a) : b[i] = a[i]) /\ b[Len(a) + 1] = y
    BY <1>1, <1>2
  <2> QED BY <1>1, <1>2, <2>1, OneMore
<1>5. Cat(b, <<z>>) = c
  <2>1. Len(c) = Len(b) + 1 /\ (\A i \in 1..Len(b) : c[i] = b[i]) /\ c[Len(b) + 1] = z
    <3>1. \A i \in 1..2 : i = 1 \/ i = 2
      OBVIOUS
    <3> QED BY <1>2, <1>3, <3>1
  <2> QED BY <1>2, <1>3, <2>1, OneMore
<1> QED BY <1>1, <1>2, <1>3, <1>4, <1>5 DEF a, b, c, One, Two, Three

LEMMA CatCons ==
  ASSUME NEW T, NEW x \in T, NEW y \in T, NEW z \in T, NEW s \in Seq(T)
  PROVE  /\ Cat(One(x), s) = Cons(x, s)
         /\ Cat(Two(x, y), s) = Cons(x, Cons(y, s))
         /\ Cat(Three(x, y, z), s) = Cons(x, Cons(y, Cons(z, s)))
<1> DEFINE a == <<x>>  b == <<y>>  c == <<z>>  d == <<x, y>>  e == <<x, y, z>>
<1>1. a \in Seq(T) /\ b \in Seq(T) /\ c \in Seq(T) /\ d \in Seq(T)
  OBVIOUS
<1>2. Cat(a, b) = d /\ Cat(d, c) = e
  <2>1. Cat(One(x), One(y)) = Two(x, y) /\ Cat(Two(x, y), One(z)) = Three(x, y, z)
    BY CatTuples
  <2> QED BY <2>1 DEF One, Two, Three
<1>3. \A r : Cat(a, r) = Cons(x, r) /\ Cat(b, r) = Cons(y, r) /\ Cat(c, r) = Cons(z, r)
  BY DEF Cat, Cons
<1> HIDE DEF a, b, c, d, e
<1>4. Cat(c, s) \in Seq(T)
  BY <1>1, CatFacts
<1>5. Cat(Cat(a, b), s) = Cat(a, Cat(b, s))
  BY <1>1, CatAssociative
<1>6. Cat(Cat(d, c), s) = Cat(d, Cat(c, s))
  BY <1>1, CatAssociative
<1>7. Cat(Cat(a, b), Cat(c, s)) = Cat(a, Cat(b, Cat(c, s)))
  BY <1>1, <1>4, CatAssociative
<1>8. Cat(d, s) = Cons(x, Cons(y, s))
  BY <1>2, <1>3, <1>5
<1>9. Cat(e, s) = Cons(x, Cons(y, Cons(z, s)))
  BY <1>2, <1>3, <1>6, <1>7
<1>10. Cat(a, s) = Cons(x, s)
  BY <1>3
<1> QED BY <1>8, <1>9, <1>10 DEF a, d, e, One, Two, Three

LEMMA JoinedIsCat ==
  \A a, x, b : Joined(a, x, b) = Cat(a, Cons(x, b))
BY DEF Joined, Cat

\* A file as it is printed, and v behind it.
FileThen(f, v) ==
  Joined(f.hash, Colon, Cons(Blank, Joined(f.name, Semicolon, Cons(Blank, Cons(f.size, v)))))

LEMMA FileTextThen ==
  ASSUME NEW T, IsTokens(T), NEW f, f.hash \in Seq(T), f.name \in Seq(T), f.size \in T,
         NEW v \in Seq(T)
  PROVE  /\ FileText(f) \in Seq(T)
         /\ Cat(FileText(f), v) = FileThen(f, v)
         /\ FileThen(f, v) \in Seq(T)
<1> DEFINE h == f.hash  n == f.name  c == <<Colon, Blank>>  s == <<Semicolon, Blank, f.size>>
<1>1. Colon \in T /\ Semicolon \in T /\ Blank \in T
  BY SeparatorTokens
<1>2. h \in Seq(T) /\ n \in Seq(T) /\ c \in Seq(T) /\ s \in Seq(T)
  BY <1>1
<1>3. FileText(f) = Cat(Cat(Cat(h, c), n), s)
  BY DEF FileText, Cat
<1>4. ASSUME NEW r \in Seq(T)
      PROVE  /\ Cat(s, r) = Cons(Semicolon, Cons(Blank, Cons(f.size, r)))
             /\ Cat(c, r) = Cons(Colon, Cons(Blank, r))
  <2> DEFINE z == f.size
  <2>1. z \in T
    OBVIOUS
  <2> HIDE DEF z
  <2>2. Cat(Three(Semicolon, Blank, z), r) = Cons(Semicolon, Cons(Blank, Cons(z, r)))
    BY <1>1, <2>1, CatCons
  <2>3. Cat(Two(Colon, Blank), r) = Cons(Colon, Cons(Blank, r))
    BY <1>1, CatCons
  <2> QED BY <2>2, <2>3 DEF z, Two, Three
<1> HIDE DEF h, n, c, s
<1>5. /\ Cat(h, c) \in Seq(T) /\ Cat(Cat(h, c), n) \in Seq(T)
  <2>1. Cat(h, c) \in Seq(T)
    BY <1>2, CatFacts
  <2> QED BY <1>2, <2>1, CatFacts
<1>6. Cat(Cat(Cat(h, c), n), s) \in Seq(T) /\ Cat(s, v) \in Seq(T)
  BY <1>2, <1>5, CatFacts
<1>7. Cat(Cat(Cat(Cat(h, c), n), s), v) = Cat(Cat(Cat(h, c), n), Cat(s, v))
  BY <1>2, <1>5, CatAssociative
<1>8. Cat(Cat(Cat(h, c), n), Cat(s, v)) = Cat(Cat(h, c), Cat(n, Cat(s, v)))
  BY <1>2, <1>5, <1>6, CatAssociative
<1>9. Cat(n, Cat(s, v)) \in Seq(T)
  BY <1>2, <1>6, CatFacts
<1>10. Cat(Cat(h, c), Cat(n, Cat(s, v))) = Cat(h, Cat(c, Cat(n, Cat(s, v))))
  BY <1>2, <1>9, CatAssociative
<1>11. Cat(n, Cat(s, v)) = Joined(n, Semicolon, Cons(Blank, Cons(f.size, v)))
  BY <1>4, JoinedIsCat
<1>12. Cat(c, Cat(n, Cat(s, v))) = Cons(Colon, Cons(Blank, Cat(n, Cat(s, v))))
  BY <1>4, <1>9
<1>13. Cat(h, Cat(c, Cat(n, Cat(s, v))))
         = Joined(h, Colon, Cons(Blank, Joined(n, Semicolon, Cons(Blank, Cons(f.size, v)))))
  BY <1>11, <1>12, JoinedIsCat
<1>14. Cat(FileText(f), v) = FileThen(f, v)
  BY <1>3, <1>7, <1>8, <1>10, <1>13 DEF FileThen, h, n
<1>15. FileText(f) \in Seq(T)
  BY <1>3, <1>6
<1>16. FileThen(f, v) \in Seq(T)
  <2>1. Cat(FileText(f), v) \in Seq(T)
    BY <1>15, CatFacts
  <2> QED BY <1>14, <2>1
<1> QED BY <1>14, <1>15, <1>16

\* The first line of a message.
LEMMA FirstLineHolds ==
  ASSUME NEW T, IsTokens(T), NEW limit \in Nat \ {0}, NEW oper \in T
  PROVE  /\ FirstLine(oper) \in Seq(T)
         /\ Holds(Snprintf(limit, Unprinted, FirstLine(oper)), limit, FirstLine(oper))
<1>1. FirstLine(oper) \in Seq(T)
  BY SeparatorTokens DEF FirstLine
<1>2. <<>> \in Seq(T) /\ Len(<<>>) = 0
  BY EmptySeq
<1>3. Cut(<<>>, limit - 1) = <<>>
  <2>1. limit - 1 \in Nat /\ limit - 1 >= Len(<<>>)
    BY <1>2
  <2> QED BY <1>2, <2>1, CutFacts
<1>4. Holds(Unprinted, limit, <<>>)
  BY <1>2, <1>3 DEF Holds, Unprinted
<1>5. Holds(Snprintf(limit, Unprinted, FirstLine(oper)), limit, <<>> \o FirstLine(oper))
  BY <1>1, <1>2, <1>4, SnprintfHolds
<1>6. <<>> \o FirstLine(oper) = FirstLine(oper)
  BY <1>1, ConcatEmptySeq
<1> QED BY <1>1, <1>5, <1>6

-----------------------------------------------------------------------------
(* What dm_publish prints.                                                 *)

\* What is printed for the lines from k + 1 on is R[k].
IsPublish(R, db, n, T) ==
  /\ R \in [0..n -> Seq(T)] /\ R[n] = <<>>
  /\ \A k \in 1..n : R[k - 1] = FileThen(db[k], Cons(Newline, R[k]))

LEMMA PublishPrinted ==
  ASSUME NEW T, IsTokens(T), NEW limit \in Nat \ {0},
         NEW db \in Seq([hash : Seq(T), name : Seq(T), size : T]), NEW n, n = Len(db)
  PROVE  \E R : /\ IsPublish(R, db, n, T)
                /\ Holds(dm_publish(db, limit), limit, Cat(FirstLine("publish"), R[0]))
<1> DEFINE texts == [k \in DOMAIN db |-> FileText(db[k]) \o <<Newline>>]
           first == FirstLine("publish")
<1>1. n \in Nat /\ DOMAIN db = 1..n
  BY LenProperties
<1>2. ASSUME NEW k \in 1..n
      PROVE  db[k].hash \in Seq(T) /\ db[k].name \in Seq(T) /\ db[k].size \in T
  <2>1. db[k] \in [hash : Seq(T), name : Seq(T), size : T]
    BY ElementOfSeq
  <2> QED BY <2>1
<1>3. Newline \in T /\ "publish" \in T
  BY SeparatorTokens
<1>4. One(Newline) \in Seq(T)
  BY <1>3 DEF One
<1>5. ASSUME NEW k \in 1..n
      PROVE  FileText(db[k]) \in Seq(T) /\ texts[k] = Cat(FileText(db[k]), One(Newline)) /\ texts[k] \in Seq(T)
  <2>1. texts[k] = Cat(FileText(db[k]), One(Newline))
    BY <1>1 DEF Cat, One
  <2>2. <<>> \in Seq(T)
    BY EmptySeq
  <2>3. FileText(db[k]) \in Seq(T)
    BY <1>2, <2>2, FileTextThen
  <2>4. Cat(FileText(db[k]), One(Newline)) \in Seq(T)
    BY <1>4, <2>3, CatFacts
  <2> QED BY <2>1, <2>3, <2>4
<1>6. texts \in Seq(Seq(T)) /\ Len(texts) = n
  <2>1. DOMAIN texts = 1..n
    BY <1>1
  <2>2. texts = [k \in 1..n |-> texts[k]]
    BY <1>1
  <2> HIDE DEF texts
  <2>3. texts \in [1..n -> Seq(T)]
    BY <1>5, <2>2
  <2> QED BY <1>1, <2>3, FunctionIsSeq
<1>7. /\ first \in Seq(T)
      /\ Holds(Snprintf(limit, Unprinted, first), limit, first)
  BY <1>3, FirstLineHolds
<1>8. dm_publish(db, limit) = Printed(limit, Snprintf(limit, Unprinted, first), texts)
  BY DEF dm_publish
<1> HIDE DEF texts, first
<1>9. PICK F : IsBefore(F, T, first, texts, n)
  BY <1>6, <1>7, TextsBefore
<1>a. PICK R : IsAfter(R, T, texts, n) /\ F[n] = Cat(first, R[0])
  BY <1>6, <1>7, <1>9, TextsAfter
<1>10. /\ R \in [0..n -> Seq(T)] /\ R[n] = <<>> /\ F[n] = Cat(first, R[0])
       /\ \A k \in 1..n : R[k - 1] = Cat(texts[k], R[k])
  BY <1>a DEF IsAfter
<1>11. Holds(dm_publish(db, limit), limit, F[n])
  BY <1>6, <1>7, <1>8, <1>9, PrintedHolds
<1>12. ASSUME NEW k \in 1..n PROVE R[k - 1] = FileThen(db[k], Cons(Newline, R[k]))
  <2>1. k \in 0..n
    BY <1>1
  <2>2. R[k] \in Seq(T)
    BY <1>10, <2>1
  <2>3. Cat(Cat(FileText(db[k]), One(Newline)), R[k]) = Cat(FileText(db[k]), Cat(One(Newline), R[k]))
    BY <1>4, <1>5, <2>2, CatAssociative
  <2>4. Cat(One(Newline), R[k]) = Cons(Newline, R[k]) /\ Cons(Newline, R[k]) \in Seq(T)
    <3>1. Cat(One(Newline), R[k]) = Cons(Newline, R[k])
      BY <1>3, <2>2, CatCons
    <3>2. Cons(Newline, R[k]) \in Seq(T)
      BY <1>3, <2>2, ConsFacts
    <3> QED BY <3>1, <3>2
  <2>5. Cat(FileText(db[k]), Cons(Newline, R[k])) = FileThen(db[k], Cons(Newline, R[k]))
    BY <1>2, <2>4, FileTextThen
  <2> QED BY <1>5, <1>10, <2>3, <2>4, <2>5
<1>13. IsPublish(R, db, n, T)
  BY <1>10, <1>12 DEF IsPublish
<1> QED BY <1>10, <1>11, <1>13 DEF first

-----------------------------------------------------------------------------
(* What dm_filelistres prints.                                             *)

\* The peers as they are printed.
Hosts(peers) == [k \in 1..(3 * Len(peers) - 2) |->
                   IF k % 3 = 1 THEN peers[(k + 2) \div 3]
                   ELSE IF k % 3 = 2 THEN Semicolon ELSE Blank]

LEMMA HostsFacts ==
  ASSUME NEW T, IsTokens(T), NEW peers \in Seq(T), peers # <<>>
  PROVE  /\ Hosts(peers) \in Seq(T) /\ Len(peers) \in Nat \ {0}
         /\ Len(Hosts(peers)) = 3 * Len(peers) - 2
         /\ \A q \in 0..(Len(peers) - 1) : Hosts(peers)[3 * q + 1] = peers[q + 1]
         /\ \A q \in 1..(Len(peers) - 1) : /\ Hosts(peers)[3 * q - 1] = Semicolon
                                          /\ Hosts(peers)[3 * q] = Blank
         /\ \A k \in 1..Len(Hosts(peers)) :
              Hosts(peers)[k] \in ToSet(peers) \cup {Semicolon, Blank}
<1> DEFINE m == Len(peers)  H == Hosts(peers)  l == 3 * m - 2
<1>1. m \in Nat \ {0} /\ DOMAIN peers = 1..m /\ \A q \in 1..m : peers[q] \in T
  BY EmptySeq, LenProperties, ElementOfSeq
<1>2. Semicolon \in T /\ Blank \in T
  BY SeparatorTokens
<1>3. l \in Nat \ {0}
  BY <1>1
<1>4. \A k \in 1..l : H[k] = IF k % 3 = 1 THEN peers[(k + 2) \div 3]
                            ELSE IF k % 3 = 2 THEN Semicolon ELSE Blank
  BY DEF Hosts
<1>5. ASSUME NEW k \in 1..l PROVE k % 3 = 1 => (k + 2) \div 3 \in 1..m
  BY <1>1
<1>6. ASSUME NEW k \in 1..l PROVE H[k] \in T /\ H[k] \in ToSet(peers) \cup {Semicolon, Blank}
  <2>1. CASE k % 3 = 1
    <3>1. H[k] = peers[(k + 2) \div 3] /\ (k + 2) \div 3 \in 1..m
      BY <1>4, <1>5, <2>1
    <3>2. \A q \in 1..m : peers[q] \in ToSet(peers)
      BY <1>1 DEF ToSet
    <3> QED BY <1>1, <3>1, <3>2
  <2>2. CASE k % 3 # 1
    <3>1. H[k] = Semicolon \/ H[k] = Blank
      BY <1>4, <2>2
    <3> QED BY <1>2, <3>1
  <2> QED BY <2>1, <2>2
<1>7. H \in Seq(T) /\ Len(H) = l
  <2>1. H = [k \in 1..l |-> H[k]]
    BY DEF Hosts
  <2> HIDE DEF H
  <2>2. H \in [1..l -> T]
    BY <1>6, <2>1
  <2> QED BY <1>3, <2>2
<1>8. ASSUME NEW q \in 0..(m - 1) PROVE H[3 * q + 1] = peers[q + 1]
  <2>1. 3 * q + 1 \in 1..l /\ (3 * q + 1) % 3 = 1 /\ (3 * q + 1 + 2) \div 3 = q + 1
    BY <1>1
  <2> QED BY <1>4, <2>1
<1>9. ASSUME NEW q \in 1..(m - 1) PROVE H[3 * q - 1] = Semicolon /\ H[3 * q] = Blank
  <2>1. 3 * q - 1 \in 1..l /\ (3 * q - 1) % 3 = 2 /\ 3 * q \in 1..l /\ (3 * q) % 3 = 0
    BY <1>1
  <2> QED BY <1>4, <2>1
<1> QED BY <1>1, <1>6, <1>7, <1>8, <1>9

\* What is printed of them in the first i pieces.
HostsSoFar(peers, i) == Cut(Hosts(peers), i + i \div 2)

LEMMA HostsPieces ==
  ASSUME NEW T, IsTokens(T), NEW peers \in Seq(T), peers # <<>>,
         NEW i \in 1..(2 * Len(peers) - 1)
  PROVE  /\ PeerTexts(peers)[i] \in Seq(T)
         /\ HostsSoFar(peers, i - 1) \in Seq(T)
         /\ Cat(HostsSoFar(peers, i - 1), PeerTexts(peers)[i]) = HostsSoFar(peers, i)
<1> DEFINE m == Len(peers)  H == Hosts(peers)
<1>1. /\ H \in Seq(T) /\ m \in Nat \ {0} /\ Len(H) = 3 * m - 2
      /\ \A q \in 0..(m - 1) : H[3 * q + 1] = peers[q + 1]
      /\ \A q \in 1..(m - 1) : H[3 * q - 1] = Semicolon /\ H[3 * q] = Blank
  <2> DEFINE All == /\ H \in Seq(T) /\ m \in Nat \ {0} /\ Len(H) = 3 * m - 2
                    /\ \A q \in 0..(m - 1) : H[3 * q + 1] = peers[q + 1]
                    /\ \A q \in 1..(m - 1) : H[3 * q - 1] = Semicolon /\ H[3 * q] = Blank
  <2> QED BY HostsFacts
<1>2. Semicolon \in T /\ Blank \in T /\ \A q \in 1..m : peers[q] \in T
  BY SeparatorTokens, ElementOfSeq
<1>3. PeerTexts(peers)[i] = IF i % 2 = 1 THEN One(peers[(i + 1) \div 2]) ELSE Two(Semicolon, Blank)
  BY DEF PeerTexts, One, Two
<1> HIDE DEF H
\* A longer cut has one token more.
<1>4. ASSUME NEW j \in Nat, j + 1 <= 3 * m - 2
      PROVE  /\ Cut(H, j) \in Seq(T) /\ H[j + 1] \in T
             /\ Cat(Cut(H, j), One(H[j + 1])) = Cut(H, j + 1)
  <2>1. j \in Nat /\ j + 1 \in Nat /\ j <= Len(H) /\ j + 1 <= Len(H) /\ j + 1 \in 1..Len(H)
    BY <1>1, <1>4
  <2>2. /\ Cut(H, j) \in Seq(T) /\ Len(Cut(H, j)) = j
        /\ \A k \in 1..j : Cut(H, j)[k] = H[k]
    BY <1>1, <2>1, CutFacts
  <2>3. /\ Cut(H, j + 1) \in Seq(T) /\ Len(Cut(H, j + 1)) = j + 1
        /\ \A k \in 1..(j + 1) : Cut(H, j + 1)[k] = H[k]
    BY <1>1, <2>1, CutFacts
  <2>4. H[j + 1] \in T
    BY <1>1, <2>1, ElementOfSeq
  <2>5. /\ \A k \in 1..Len(Cut(H, j)) : Cut(H, j + 1)[k] = Cut(H, j)[k]
        /\ Cut(H, j + 1)[Len(Cut(H, j)) + 1] = H[j + 1]
    BY <2>1, <2>2, <2>3
  <2>6. Cat(Cut(H, j), <<H[j + 1]>>) = Cut(H, j + 1)
    <3> DEFINE s == Cut(H, j)  t == Cut(H, j + 1)  y == H[j + 1]
    <3>1. /\ s \in Seq(T) /\ t \in Seq(T) /\ y \in T /\ Len(t) = Len(s) + 1
          /\ (\A k \in 1..Len(s) : t[k] = s[k]) /\ t[Len(s) + 1] = y
      BY <2>2, <2>3, <2>4, <2>5
    <3> HIDE DEF s, t, y
    <3>2. Cat(s, <<y>>) = t
      BY <3>1, OneMore
    <3> QED BY <3>2 DEF s, t, y
  <2> QED BY <2>2, <2>4, <2>6 DEF One
<1>5. CASE i % 2 = 1
  <2>1. PICK q \in 0..(m - 1) : i = 2 * q + 1
    <3> DEFINE q == i \div 2
    <3>1. q \in 0..(m - 1) /\ i = 2 * q + 1
      BY <1>1, <1>5
    <3> QED BY <3>1
  <2>2. /\ (i + 1) \div 2 = q + 1 /\ i - 1 + (i - 1) \div 2 = 3 * q /\ i + i \div 2 = 3 * q + 1
        /\ 3 * q \in Nat /\ 3 * q + 1 <= 3 * m - 2 /\ q + 1 \in 1..m
    BY <1>1, <2>1
  <2>3. PeerTexts(peers)[i] = One(H[3 * q + 1]) /\ H[3 * q + 1] \in T
    BY <1>1, <1>2, <1>3, <1>5, <2>2
  <2>4. One(H[3 * q + 1]) \in Seq(T)
    BY <2>3 DEF One
  <2> QED BY <1>4, <2>2, <2>3, <2>4 DEF HostsSoFar, H
<1>6. CASE i % 2 # 1
  <2>1. PICK q \in 1..(m - 1) : i = 2 * q
    <3> DEFINE q == i \div 2
    <3>1. q \in 1..(m - 1) /\ i = 2 * q
      BY <1>1, <1>6
    <3> QED BY <3>1
  <2>2. /\ i - 1 + (i - 1) \div 2 = 3 * q - 2 /\ i + i \div 2 = 3 * q
        /\ 3 * q - 2 \in Nat /\ 3 * q - 2 + 1 <= 3 * m - 2 /\ 3 * q - 2 + 1 = 3 * q - 1
        /\ 3 * q - 1 \in Nat /\ 3 * q - 1 + 1 <= 3 * m - 2 /\ 3 * q - 1 + 1 = 3 * q
    BY <1>1, <2>1
  <2>3. /\ Cut(H, 3 * q - 2) \in Seq(T)
        /\ Cat(Cut(H, 3 * q - 2), One(Semicolon)) = Cut(H, 3 * q - 1)
    BY <1>1, <1>4, <2>2
  <2>4. Cat(Cut(H, 3 * q - 1), One(Blank)) = Cut(H, 3 * q)
    BY <1>1, <1>4, <2>2
  <2>5. /\ One(Semicolon) \in Seq(T) /\ One(Blank) \in Seq(T) /\ Two(Semicolon, Blank) \in Seq(T)
        /\ Cat(One(Semicolon), One(Blank)) = Two(Semicolon, Blank)
    BY <1>2, CatTuples
  <2>6. Cat(Cut(H, 3 * q - 2), Two(Semicolon, Blank)) = Cut(H, 3 * q)
    <3>1. Cat(Cat(Cut(H, 3 * q - 2), One(Semicolon)), One(Blank))
            = Cat(Cut(H, 3 * q - 2), Cat(One(Semicolon), One(Blank)))
      BY <2>3, <2>5, CatAssociative
    <3> QED BY <2>3, <2>4, <2>5, <3>1
  <2>7. PeerTexts(peers)[i] = Two(Semicolon, Blank)
    BY <1>3, <1>6
  <2> QED BY <2>2, <2>3, <2>5, <2>6, <2>7 DEF HostsSoFar, H
<1> QED BY <1>5, <1>6

\* A line of the list, and what is printed for it and u behind it.
Line(f) == Cat(Cat(Cat(FileText(f), Two(Semicolon, Blank)), Hosts(f.peers)), One(Newline))

LineThen(f, u) ==
  FileThen(f, Cons(Semicolon, Cons(Blank, Joined(Hosts(f.peers), Newline, u))))

\* A file that is on the list.
IsListed(f, T) == /\ f.hash \in Seq(T) /\ f.name \in Seq(T) /\ f.size \in T
                  /\ f.peers \in Seq(T) /\ f.peers # <<>>

LEMMA LineFacts ==
  ASSUME NEW T, IsTokens(T), NEW f, IsListed(f, T), NEW u \in Seq(T)
  PROVE  /\ FileText(f) \in Seq(T) /\ Two(Semicolon, Blank) \in Seq(T)
         /\ Cat(FileText(f), Two(Semicolon, Blank)) \in Seq(T)
         /\ Hosts(f.peers) \in Seq(T) /\ One(Newline) \in Seq(T)
         /\ Line(f) \in Seq(T)
         /\ Cat(Line(f), u) = LineThen(f, u)
         /\ Joined(Hosts(f.peers), Newline, u) \in Seq(T)
<1> DEFINE a == FileText(f)  b == Two(Semicolon, Blank)  c == Hosts(f.peers)  d == One(Newline)
<1>1. Semicolon \in T /\ Blank \in T /\ Newline \in T
  BY SeparatorTokens
<1>2. f.hash \in Seq(T) /\ f.name \in Seq(T) /\ f.size \in T /\ f.peers \in Seq(T) /\ f.peers # <<>>
  BY DEF IsListed
<1>3. a \in Seq(T)
  BY <1>2, FileTextThen
<1>4. b \in Seq(T) /\ d \in Seq(T)
  BY <1>1, CatTuples
<1>5. c \in Seq(T)
  <2> DEFINE p == f.peers
  <2>1. p \in Seq(T) /\ p # <<>>
    BY <1>2
  <2> HIDE DEF p
  <2>2. Hosts(p) \in Seq(T)
    BY <2>1, HostsFacts
  <2> QED BY <2>2 DEF p
<1>6. \A r \in Seq(T) : Cat(b, r) = Cons(Semicolon, Cons(Blank, r)) /\ Cat(d, r) = Cons(Newline, r)
  BY <1>1, CatCons
<1> HIDE DEF a, b, c, d
<1>7. Cat(a, b) \in Seq(T)
  BY <1>3, <1>4, CatFacts
<1>8. Cat(Cat(a, b), c) \in Seq(T)
  BY <1>5, <1>7, CatFacts
<1>9. Cat(Cat(Cat(a, b), c), d) \in Seq(T)
  BY <1>4, <1>8, CatFacts
<1>10. Cat(d, u) \in Seq(T)
  BY <1>4, CatFacts
<1>11. Cat(c, Cat(d, u)) \in Seq(T)
  BY <1>5, <1>10, CatFacts
<1>12. Cat(b, Cat(c, Cat(d, u))) \in Seq(T)
  BY <1>4, <1>11, CatFacts
<1>13. Cat(Cat(Cat(Cat(a, b), c), d), u) = Cat(Cat(Cat(a, b), c), Cat(d, u))
  BY <1>4, <1>8, CatAssociative
<1>14. Cat(Cat(Cat(a, b), c), Cat(d, u)) = Cat(Cat(a, b), Cat(c, Cat(d, u)))
  BY <1>5, <1>7, <1>10, CatAssociative
<1>15. Cat(Cat(a, b), Cat(c, Cat(d, u))) = Cat(a, Cat(b, Cat(c, Cat(d, u))))
  BY <1>3, <1>4, <1>11, CatAssociative
<1>16. Cat(c, Cat(d, u)) = Joined(c, Newline, u)
  BY <1>6, JoinedIsCat
<1>17. Cat(b, Cat(c, Cat(d, u))) = Cons(Semicolon, Cons(Blank, Joined(c, Newline, u)))
  BY <1>6, <1>11, <1>16
<1>18. Cat(a, Cat(b, Cat(c, Cat(d, u)))) = FileThen(f, Cat(b, Cat(c, Cat(d, u))))
  BY <1>2, <1>12, FileTextThen DEF a
<1>19. Cat(Line(f), u) = LineThen(f, u)
  BY <1>13, <1>14, <1>15, <1>17, <1>18 DEF Line, LineThen, a, b, c, d
<1>20. Line(f) \in Seq(T)
  BY <1>9 DEF Line, a, b, c, d
<1>21. Joined(c, Newline, u) \in Seq(T)
  BY <1>11, <1>16
<1> QED BY <1>3, <1>4, <1>5, <1>7, <1>19, <1>20, <1>21 DEF a, b, c, d

\* The pieces of a line.
IsPieces(L, f, m, T) ==
  /\ L \in Seq(Seq(T)) /\ Len(L) = 2 * m + 1
  /\ L[1] = Cat(FileText(f), Two(Semicolon, Blank))
  /\ \A i \in 1..(2 * m - 1) : L[i + 1] = PeerTexts(f.peers)[i]
  /\ L[2 * m + 1] = One(Newline)

LEMMA LinePieces ==
  ASSUME NEW T, IsTokens(T), NEW f, IsListed(f, T)
  PROVE  Len(f.peers) \in Nat \ {0} /\ IsPieces(LineTexts(f), f, Len(f.peers), T)
<1> DEFINE m == Len(f.peers)
           A == <<Cat(FileText(f), Two(Semicolon, Blank))>>  P == PeerTexts(f.peers)
           Z == <<One(Newline)>>  L == LineTexts(f)  l == 2 * m - 1
<1>1. f.peers \in Seq(T) /\ f.peers # <<>>
  BY DEF IsListed
<1>2. m \in Nat \ {0} /\ l \in Nat \ {0}
  <2>1. Len(f.peers) \in Nat \ {0}
    BY <1>1, EmptySeq
  <2> QED BY <2>1
<1>3. /\ A \in Seq(Seq(T)) /\ Len(A) = 1 /\ A[1] = Cat(FileText(f), Two(Semicolon, Blank))
      /\ Z \in Seq(Seq(T)) /\ Len(Z) = 1 /\ Z[1] = One(Newline)
  <2>1. <<>> \in Seq(T)
    BY EmptySeq
  <2>2. Cat(FileText(f), Two(Semicolon, Blank)) \in Seq(T) /\ One(Newline) \in Seq(T)
    BY <2>1, LineFacts
  <2> QED BY <2>2
<1>4. P \in Seq(Seq(T)) /\ Len(P) = l
  <2>1. ASSUME NEW i \in 1..l PROVE P[i] \in Seq(T)
    <3> DEFINE p == f.peers
    <3>1. p \in Seq(T) /\ p # <<>> /\ m = Len(p)
      BY <1>1
    <3> HIDE DEF p
    <3>2. i \in 1..(2 * Len(p) - 1)
      BY <3>1
    <3>3. PeerTexts(p)[i] \in Seq(T)
      BY <3>1, <3>2, HostsPieces
    <3> QED BY <3>3 DEF p
  <2>2. P = [i \in 1..l |-> P[i]]
    BY DEF PeerTexts
  <2> HIDE DEF P, l
  <2>3. P \in [1..l -> Seq(T)]
    BY <2>1, <2>2
  <2> QED BY <1>2, <2>3, FunctionIsSeq
<1>5. L = (A \o P) \o Z
  BY DEF LineTexts, Cat, One, Two
<1>a. 2 * m - 1 = l /\ 2 * m + 1 = l + 2
  BY <1>2
<1> HIDE DEF A, P, Z, L, l, m
<1> DEFINE AP == A \o P
<1>6. /\ AP \in Seq(Seq(T)) /\ Len(AP) = l + 1
      /\ \A i \in 1..(l + 1) : AP[i] = IF i <= 1 THEN A[i] ELSE P[i - 1]
  <2>1. /\ AP \in Seq(Seq(T)) /\ Len(AP) = Len(A) + Len(P)
        /\ \A i \in 1..(Len(A) + Len(P)) : AP[i] = IF i <= Len(A) THEN A[i] ELSE P[i - Len(A)]
    BY <1>3, <1>4, ConcatProperties
  <2>2. Len(A) + Len(P) = l + 1 /\ Len(A) = 1
    BY <1>2, <1>3, <1>4
  <2> HIDE DEF AP
  <2> QED BY <2>1, <2>2
<1>7. L = AP \o Z
  BY <1>5
<1> HIDE DEF AP
<1> DEFINE Q == AP \o Z
<1>8. /\ Q \in Seq(Seq(T)) /\ Len(Q) = l + 2
      /\ \A i \in 1..(l + 2) : Q[i] = IF i <= l + 1 THEN AP[i] ELSE Z[i - (l + 1)]
  <2>1. /\ Q \in Seq(Seq(T)) /\ Len(Q) = Len(AP) + Len(Z)
        /\ \A i \in 1..(Len(AP) + Len(Z)) : Q[i] = IF i <= Len(AP) THEN AP[i] ELSE Z[i - Len(AP)]
    BY <1>3, <1>6, ConcatProperties
  <2>2. Len(AP) + Len(Z) = l + 2 /\ Len(AP) = l + 1
    BY <1>2, <1>3, <1>6
  <2> HIDE DEF Q
  <2> QED BY <2>1, <2>2
<1>9. L = Q
  BY <1>7
<1> HIDE DEF Q
<1>10. Q[1] = Cat(FileText(f), Two(Semicolon, Blank))
  <2>1. 1 \in 1..(l + 2) /\ 1 <= l + 1 /\ 1 \in 1..(l + 1)
    BY <1>2
  <2> QED BY <1>3, <1>6, <1>8, <2>1
<1>11. ASSUME NEW i \in 1..l PROVE Q[i + 1] = P[i]
  <2>1. i + 1 \in 1..(l + 2) /\ i + 1 <= l + 1 /\ i + 1 \in 1..(l + 1) /\ ~ (i + 1 <= 1) /\ i + 1 - 1 = i
    BY <1>2
  <2>2. Q[i + 1] = AP[i + 1]
    BY <1>8, <2>1
  <2>3. AP[i + 1] = P[i]
    BY <1>6, <2>1
  <2> QED BY <2>2, <2>3
<1>12. Q[l + 2] = One(Newline)
  <2>1. l + 2 \in 1..(l + 2) /\ ~ (l + 2 <= l + 1) /\ l + 2 - (l + 1) = 1
    BY <1>2
  <2> DEFINE i == l + 2
  <2>2. i \in 1..(l + 2) /\ ~ (i <= l + 1) /\ i - (l + 1) = 1
    BY <1>2
  <2>3. i = l + 2
    OBVIOUS
  <2> HIDE DEF i
  <2>4. Q[i] = Z[i - (l + 1)]
    BY <1>8, <2>2
  <2> QED BY <1>3, <2>2, <2>3, <2>4
<1>13. IsPieces(L, f, m, T)
  BY <1>8, <1>9, <1>10, <1>11, <1>12, <1>a DEF IsPieces, P
<1> QED BY <1>2, <1>13 DEF L, m

LEMMA LineHolds ==
  ASSUME NEW T, IsTokens(T), NEW limit \in Nat \ {0}, NEW f, IsListed(f, T),
         NEW first \in Seq(T), NEW buff, Holds(buff, limit, first)
  PROVE  Holds(Printed(limit, buff, LineTexts(f)), limit, Cat(first, Line(f)))
<1> DEFINE L == LineTexts(f)  p == f.peers  m == Len(p)  n == 2 * m + 1
           a == Cat(FileText(f), Two(Semicolon, Blank))  H == Hosts(p)
<1>a. m \in Nat \ {0} /\ IsPieces(L, f, m, T)
  BY LinePieces
<1>1. /\ L \in Seq(Seq(T)) /\ Len(L) = n /\ L[1] = a
      /\ \A i \in 1..(2 * m - 1) : L[i + 1] = PeerTexts(p)[i]
      /\ L[n] = One(Newline)
  BY <1>a DEF IsPieces
<1>2. a \in Seq(T) /\ H \in Seq(T) /\ One(Newline) \in Seq(T)
  <2>1. <<>> \in Seq(T)
    BY EmptySeq
  <2> QED BY <2>1, LineFacts
<1>3. p \in Seq(T) /\ p # <<>>
  BY DEF IsListed
<1>4. Len(H) = 3 * m - 2
  <2> HIDE DEF p
  <2> QED BY <1>3, HostsFacts
<1>5. n \in Nat /\ 1 \in 1..n /\ n \in 1..n /\ n - 1 = 2 * m /\ 2 * m - 1 \in Nat
      /\ 2 * m - 1 + 1 = 2 * m /\ \A i \in 1..(2 * m - 1) : i + 1 \in 1..n
  <2> HIDE DEF m
  <2> QED BY <1>a
<1>b. m = Len(p)
  OBVIOUS
<1> HIDE DEF L, p, a, H, n, m
<1>6. PICK F : IsBefore(F, T, first, L, n)
  BY <1>1, TextsBefore
<1>7. /\ F \in [0..n -> Seq(T)] /\ F[0] = first /\ \A k \in 1..n : F[k] = Cat(F[k - 1], L[k])
  BY <1>6 DEF IsBefore
<1>8. Holds(Printed(limit, buff, L), limit, F[n])
  BY <1>1, <1>6, PrintedHolds
<1>9. F[1] = Cat(first, a) /\ F[1] \in Seq(T)
  <2>1. F[1] = Cat(F[1 - 1], L[1])
    BY <1>5, <1>7
  <2>2. F[1] = Cat(first, a)
    BY <1>1, <1>7, <2>1
  <2>3. F[1] \in Seq(T)
    BY <1>2, <2>2, CatFacts
  <2> QED BY <2>2, <2>3
<1> DEFINE S == {i \in 0..(2 * m - 1) : F[i + 1] = Cat(F[1], HostsSoFar(p, i))}
<1>10. 0 \in S
  <2>1. 0 + 0 \div 2 = 0 /\ 0 + 1 = 1 /\ 0 \in 0..(2 * m - 1)
    BY <1>5
  <2>2. Cut(H, 0) = <<>>
    <3>1. 0 <= Len(H)
      BY <1>2, LenProperties
    <3> QED BY <1>2, <3>1, SubSeqEmpty DEF Cut
  <2>3. HostsSoFar(p, 0) = <<>>
    BY <2>1, <2>2 DEF HostsSoFar, H
  <2>4. Cat(F[1], <<>>) = F[1]
    BY <1>9, CatEmpty
  <2> QED BY <2>1, <2>3, <2>4
<1>11. ASSUME NEW i \in 1..(2 * m - 1), i - 1 \in S PROVE i \in S
  <2>1. /\ i + 1 - 1 = i /\ i - 1 + 1 = i /\ i \in 0..(2 * m - 1)
        /\ i \in 1..(2 * Len(p) - 1)
    BY <1>b
  <2>2. F[i + 1] = Cat(F[i], PeerTexts(p)[i])
    <3>1. i + 1 \in 1..n /\ L[i + 1] = PeerTexts(p)[i]
      BY <1>1, <1>5
    <3>2. F[i + 1] = Cat(F[i + 1 - 1], L[i + 1])
      BY <1>7, <3>1
    <3> QED BY <2>1, <3>1, <3>2
  <2>3. F[i] = Cat(F[1], HostsSoFar(p, i - 1))
    <3>1. F[i - 1 + 1] = Cat(F[1], HostsSoFar(p, i - 1))
      BY <1>11
    <3> QED BY <2>1, <3>1
  <2>4. /\ PeerTexts(p)[i] \in Seq(T) /\ HostsSoFar(p, i - 1) \in Seq(T)
        /\ Cat(HostsSoFar(p, i - 1), PeerTexts(p)[i]) = HostsSoFar(p, i)
    BY <1>3, <2>1, HostsPieces
  <2>5. Cat(Cat(F[1], HostsSoFar(p, i - 1)), PeerTexts(p)[i])
          = Cat(F[1], Cat(HostsSoFar(p, i - 1), PeerTexts(p)[i]))
    BY <1>9, <2>4, CatAssociative
  <2> QED BY <2>1, <2>2, <2>3, <2>4, <2>5
<1>12. F[2 * m] = Cat(F[1], H)
  <2> DEFINE j == 2 * m - 1
  <2>1. j \in Nat /\ j \in 0..j /\ j + 1 = 2 * m
    BY <1>5
  <2>a. j + j \div 2 = 3 * m - 2
    BY <1>a
  <2>2. \A i \in 0..j : i \in S
    <3> HIDE DEF S
    <3> QED BY <1>10, <1>11, <2>1, InductionTo
  <2>3. F[j + 1] = Cat(F[1], HostsSoFar(p, j))
    BY <2>1, <2>2
  <2>4. HostsSoFar(p, j) = Cut(H, 3 * m - 2)
    BY <2>a DEF HostsSoFar, H
  <2>5. Cut(H, 3 * m - 2) = H
    <3>1. 3 * m - 2 \in Nat /\ 3 * m - 2 >= Len(H)
      BY <1>a, <1>4
    <3> QED BY <1>2, <3>1, CutFacts
  <2> QED BY <2>1, <2>3, <2>4, <2>5
<1>13. F[n] = Cat(F[2 * m], One(Newline))
  BY <1>1, <1>5, <1>7
<1>14. F[n] = Cat(Cat(Cat(first, a), H), One(Newline))
  BY <1>9, <1>12, <1>13
<1>15. Cat(Cat(Cat(first, a), H), One(Newline)) = Cat(first, Cat(Cat(a, H), One(Newline)))
  <2>1. Cat(a, H) \in Seq(T)
    BY <1>2, CatFacts
  <2>2. Cat(Cat(first, a), H) = Cat(first, Cat(a, H))
    BY <1>2, CatAssociative
  <2>3. Cat(Cat(first, Cat(a, H)), One(Newline)) = Cat(first, Cat(Cat(a, H), One(Newline)))
    BY <1>2, <2>1, CatAssociative
  <2> QED BY <2>2, <2>3
<1>16. Line(f) = Cat(Cat(a, H), One(Newline))
  BY DEF Line, a, H, p
<1> QED BY <1>8, <1>14, <1>15, <1>16 DEF L

\* The loop over files.
ListedAfter(limit, db, after, n) ==
  after = [k \in 0..n |-> IF k = 0 THEN Snprintf(limit, Unprinted, FirstLine("filelistres"))
                          ELSE Printed(limit, after[k - 1], LineTexts(db[k]))]

IsListing(limit, db, after, n) ==
  /\ dm_filelistres(db, limit) = after[n]
  /\ after[0] = Snprintf(limit, Unprinted, FirstLine("filelistres"))
  /\ \A k \in 1..n : after[k] = Printed(limit, after[k - 1], LineTexts(db[k]))

LEMMA ListLoop ==
  ASSUME NEW limit, NEW db, NEW n \in Nat, n = Len(db)
  PROVE  \E after : IsListing(limit, db, after, n)
<1> DEFINE Is(w, m) == ListedAfter(limit, db, w, m)
           S == {m \in 0..n : \E w : Is(w, m)}
           start == Snprintf(limit, Unprinted, FirstLine("filelistres"))
<1>1. 0 \in S
  <2>1. Is([k \in 0..0 |-> start], 0)
    BY DEF ListedAfter
  <2> HIDE DEF Is
  <2> QED BY <2>1
<1>2. ASSUME NEW m \in 1..n, m - 1 \in S PROVE m \in S
  <2>1. m \in 0..n /\ m \in Nat /\ m # 0
    OBVIOUS
  <2>2. PICK w : Is(w, m - 1)
    BY <1>2
  <2> DEFINE v == [k \in 0..m |-> IF k = m THEN Printed(limit, w[m - 1], LineTexts(db[m])) ELSE w[k]]
  <2>3. w = [k \in 0..(m - 1) |-> IF k = 0 THEN start ELSE Printed(limit, w[k - 1], LineTexts(db[k]))]
    BY <2>2 DEF ListedAfter
  <2>4. \A k \in 0..(m - 1) : w[k] = IF k = 0 THEN start ELSE Printed(limit, w[k - 1], LineTexts(db[k]))
    <3> HIDE DEF start
    <3> QED BY <2>3
  <2>5. ASSUME NEW k \in 0..m
        PROVE  v[k] = IF k = 0 THEN start ELSE Printed(limit, v[k - 1], LineTexts(db[k]))
    <3> HIDE DEF start
    <3>1. /\ k # m => k \in 0..(m - 1)
          /\ k # 0 => k - 1 \in 0..m /\ k - 1 # m
      BY <2>1
    <3>2. k # 0 => v[k - 1] = w[k - 1]
      BY <3>1
    <3>3. CASE k = m
      BY <2>1, <3>2, <3>3
    <3>4. CASE k # m
      BY <2>4, <3>1, <3>2, <3>4
    <3> QED BY <3>3, <3>4
  <2>6. v = [k \in 0..m |-> v[k]]
    OBVIOUS
  <2> HIDE DEF v
  <2>7. Is(v, m)
    BY <2>5, <2>6 DEF ListedAfter
  <2> HIDE DEF Is
  <2> QED BY <2>1, <2>7
<1>3. n \in S
  <2> HIDE DEF S
  <2>1. \A k \in 0..n : k \in S
    BY <1>1, <1>2, InductionTo
  <2> QED BY <2>1
<1> DEFINE after == CHOOSE w : Is(w, n)
<1>4. Is(after, n)
  <2> HIDE DEF Is
  <2> QED BY <1>3
<1>5. dm_filelistres(db, limit) = after[n]
  BY DEF dm_filelistres, ListedAfter
<1> HIDE DEF after, start
<1>6. \A k \in 0..n : after[k] = IF k = 0 THEN start ELSE Printed(limit, after[k - 1], LineTexts(db[k]))
  BY <1>4 DEF ListedAfter, start
<1>7. after[0] = start /\ \A k \in 1..n : after[k] = Printed(limit, after[k - 1], LineTexts(db[k]))
  BY <1>6
<1>8. IsListing(limit, db, after, n)
  BY <1>5, <1>7 DEF IsListing, start
<1> QED BY <1>8

\* What is printed for the lines from k + 1 on is R[k].
IsList(R, db, n, T) ==
  /\ R \in [0..n -> Seq(T)] /\ R[n] = <<>>
  /\ \A k \in 1..n : R[k - 1] = LineThen(db[k], R[k])

LEMMA ListPrinted ==
  ASSUME NEW T, IsTokens(T), NEW limit \in Nat \ {0}, NEW db, NEW n \in Nat, n = Len(db),
         \A k \in 1..n : IsListed(db[k], T)
  PROVE  \E R : /\ IsList(R, db, n, T)
                /\ Holds(dm_filelistres(db, limit), limit, Cat(FirstLine("filelistres"), R[0]))
<1> DEFINE texts == [k \in 1..n |-> Line(db[k])]  first == FirstLine("filelistres")
<1>1. ASSUME NEW k \in 1..n
      PROVE  /\ Line(db[k]) \in Seq(T)
             /\ \A u \in Seq(T) : Cat(Line(db[k]), u) = LineThen(db[k], u)
  <2>1. <<>> \in Seq(T)
    BY EmptySeq
  <2> DEFINE f == db[k]
  <2>2. IsListed(f, T)
    OBVIOUS
  <2> HIDE DEF f
  <2>3. Line(f) \in Seq(T)
    BY <2>1, <2>2, LineFacts
  <2>4. ASSUME NEW u \in Seq(T) PROVE Cat(Line(f), u) = LineThen(f, u)
    BY <2>2, LineFacts
  <2> QED BY <2>3, <2>4 DEF f
<1>2. texts \in Seq(Seq(T)) /\ Len(texts) = n /\ \A k \in 1..n : texts[k] = Line(db[k])
  <2>1. texts \in [1..n -> Seq(T)]
    BY <1>1
  <2>2. \A k \in 1..n : texts[k] = Line(db[k])
    OBVIOUS
  <2> HIDE DEF texts
  <2> QED BY <2>1, <2>2, FunctionIsSeq
<1>3. /\ first \in Seq(T)
      /\ Holds(Snprintf(limit, Unprinted, first), limit, first)
  <2>1. "filelistres" \in T
    BY SeparatorTokens
  <2> QED BY <2>1, FirstLineHolds
<1>4. PICK after : IsListing(limit, db, after, n)
  BY ListLoop
<1>5. /\ dm_filelistres(db, limit) = after[n]
      /\ after[0] = Snprintf(limit, Unprinted, first)
      /\ \A k \in 1..n : after[k] = Printed(limit, after[k - 1], LineTexts(db[k]))
  BY <1>4 DEF IsListing
<1> HIDE DEF texts, first
<1>6. PICK F : IsBefore(F, T, first, texts, n)
  BY <1>2, <1>3, TextsBefore
<1>7. PICK R : IsAfter(R, T, texts, n) /\ F[n] = Cat(first, R[0])
  <2>1. texts \in Seq(Seq(T)) /\ n = Len(texts) /\ first \in Seq(T)
    BY <1>2, <1>3
  <2> QED BY <1>6, <2>1, TextsAfter
<1>8. /\ F \in [0..n -> Seq(T)] /\ F[0] = first
      /\ \A k \in 1..n : F[k] = Cat(F[k - 1], texts[k])
  BY <1>6 DEF IsBefore
<1> DEFINE S == {k \in 0..n : Holds(after[k], limit, F[k])}
<1>9. 0 \in S
  BY <1>3, <1>5, <1>8
<1>10. ASSUME NEW k \in 1..n, k - 1 \in S PROVE k \in S
  <2>1. k \in 0..n /\ k - 1 \in 0..n /\ Holds(after[k - 1], limit, F[k - 1])
    BY <1>10
  <2>2. F[k - 1] \in Seq(T) /\ IsListed(db[k], T)
    BY <1>8, <2>1
  <2>3. Holds(Printed(limit, after[k - 1], LineTexts(db[k])), limit, Cat(F[k - 1], Line(db[k])))
    <3> DEFINE f == db[k]  first2 == F[k - 1]  buff == after[k - 1]
    <3>1. first2 \in Seq(T) /\ IsListed(f, T) /\ Holds(buff, limit, first2)
      BY <2>1, <2>2
    <3> HIDE DEF f, first2, buff
    <3>2. Holds(Printed(limit, buff, LineTexts(f)), limit, Cat(first2, Line(f)))
      BY <3>1, LineHolds
    <3> QED BY <3>2 DEF f, first2, buff
  <2>4. Holds(after[k], limit, F[k])
    BY <1>2, <1>5, <1>8, <2>3
  <2> QED BY <2>1, <2>4
<1>11. n \in S
  <2> HIDE DEF S
  <2>1. \A k \in 0..n : k \in S
    BY <1>9, <1>10, InductionTo
  <2> QED BY <2>1
<1>12. /\ R \in [0..n -> Seq(T)] /\ R[n] = <<>>
       /\ \A k \in 1..n : R[k - 1] = Cat(texts[k], R[k])
  BY <1>7 DEF IsAfter
<1>13. \A k \in 1..n : R[k - 1] = LineThen(db[k], R[k])
  <2>1. \A k \in 1..n : k \in 0..n
    OBVIOUS
  <2>2. \A k \in 1..n : R[k] \in Seq(T)
    BY <1>12, <2>1
  <2> QED BY <1>1, <1>2, <1>12, <2>2
<1>14. IsList(R, db, n, T)
  BY <1>12, <1>13 DEF IsList
<1> QED BY <1>5, <1>7, <1>11, <1>14 DEF first

-----------------------------------------------------------------------------
(* Reading behind the first line.                                          *)

LEMMA ReadBehind ==
  ASSUME NEW T, IsTokens(T), NEW oper \in {"publish", "filelistres"}, NEW u \in Seq(T),
         NEW limit \in Nat \ (0..5), NEW b, Holds(b, limit, Cat(FirstLine(oper), u))
  PROVE  /\ Has(b.text, {Newline}) /\ limit - 6 \in Nat
         /\ After(b.text, {Newline}) = Cut(u, limit - 6)
         /\ b.len = 5 + Len(u) /\ Len(u) \in Nat
<1> DEFINE a == <<"operation", Colon, Blank, oper>>  first == FirstLine(oper)
<1>1. /\ oper \in T /\ Newline \in T /\ Colon \in T /\ Blank \in T /\ "operation" \in T
      /\ oper # Newline
  <2>1. "publish" # Newline /\ "filelistres" # Newline
    BY SeparatorsDiffer
  <2> QED BY <2>1, SeparatorTokens
<1>2. /\ a \in Seq(T) /\ Len(a) = 4 /\ ~ Has(a, {Newline})
  <2>1. a \in Seq(T) /\ Len(a) = 4
    BY <1>1
  <2>2. \A k \in 1..4 : a[k] \in {"operation", Colon, Blank, oper}
    OBVIOUS
  <2>3. "operation" # Newline /\ Colon # Newline /\ Blank # Newline
    BY SeparatorsDiffer
  <2>4. DOMAIN a = 1..4
    OBVIOUS
  <2> HIDE DEF a
  <2> QED BY <1>1, <2>1, <2>2, <2>3, <2>4 DEF Has
<1>3. first = Cat(a, One(Newline)) /\ first \in Seq(T) /\ Len(first) = 5
  <2>1. first \in Seq(T) /\ Len(first) = 5 /\ first[5] = Newline /\ \A k \in 1..4 : first[k] = a[k]
    BY <1>1 DEF FirstLine
  <2> HIDE DEF first, a
  <2>2. /\ Len(first) = Len(a) + 1 /\ first[Len(a) + 1] = Newline
        /\ \A k \in 1..Len(a) : first[k] = a[k]
    BY <1>2, <2>1
  <2>3. Cat(a, <<Newline>>) = first
    BY <1>1, <1>2, <2>1, <2>2, OneMore
  <2> QED BY <2>1, <2>3 DEF One
<1> HIDE DEF a, first
<1>4. One(Newline) \in Seq(T)
  BY <1>1 DEF One
<1>5. Cat(first, u) = Joined(a, Newline, u)
  <2>1. Cat(Cat(a, One(Newline)), u) = Cat(a, Cat(One(Newline), u))
    BY <1>2, <1>4, CatAssociative
  <2>2. Cat(One(Newline), u) = Cons(Newline, u)
    BY <1>1, CatCons
  <2> QED BY <1>3, <2>1, <2>2, JoinedIsCat
<1>6. b.text = Cut(Joined(a, Newline, u), limit - 1) /\ b.len = Len(Cat(first, u))
  BY <1>5 DEF Holds, first
<1>7. limit - 1 \in Nat /\ limit - 1 > Len(a) /\ limit - 1 - Len(a) - 1 = limit - 6
      /\ limit - 6 \in Nat
  BY <1>2
<1> DEFINE t == Cut(Joined(a, Newline, u), limit - 1)
<1>8. Has(t, {Newline}) /\ After(t, {Newline}) = Cut(u, limit - 1 - Len(a) - 1)
  <2> DEFINE n == limit - 1  S == {Newline}
  <2>1. n \in Nat /\ n > Len(a) /\ Newline \in S /\ ~ Has(a, S)
    BY <1>2, <1>7
  <2> HIDE DEF n, S
  <2>2. IsSplit(Cut(Joined(a, Newline, u), n), a, Newline, u, n, S)
    BY <1>1, <1>2, <2>1, CutSplit
  <2>3. /\ Has(Cut(Joined(a, Newline, u), n), S)
        /\ After(Cut(Joined(a, Newline, u), n), S) = Cut(u, n - Len(a) - 1)
    BY <2>1, <2>2 DEF IsSplit
  <2> QED BY <2>3 DEF n, S
<1>9. Len(Cat(first, u)) = 5 + Len(u) /\ Len(u) \in Nat
  BY <1>3, CatFacts
<1> QED BY <1>6, <1>7, <1>8, <1>9

\* Reading on behind a token that was looked for, blanks left out: the text from
\* there is the rest of the line, cut as much further.
Less(n, d) == IF n >= d THEN n - d ELSE 0

IsRest(t, a, x, b, n, S) ==
  LET d == Len(b) - Len(Strip(b)) IN
  /\ Has(t, S) /\ Before(t, S) = a /\ t[Len(a) + 1] = x
  /\ d \in Nat /\ n - Len(a) - 1 \in Nat
  /\ Strip(After(t, S)) = Cut(Strip(b), Less(n - Len(a) - 1, d))

LEMMA StripAfter ==
  ASSUME NEW T, NEW a \in Seq(T), NEW x \in T, NEW b \in Seq(T), NEW n \in Nat,
         NEW S, x \in S, ~ Has(a, S), n > Len(a)
  PROVE  IsRest(Cut(Joined(a, x, b), n), a, x, b, n, S)
<1> DEFINE m == n - Len(a) - 1  t == Cut(Joined(a, x, b), n)
<1>a. IsSplit(t, a, x, b, n, S)
  BY CutSplit
<1>1. Has(t, S) /\ Before(t, S) = a /\ t[Len(a) + 1] = x /\ m \in Nat /\ After(t, S) = Cut(b, m)
  BY <1>a DEF IsSplit
<1> HIDE DEF m, t
<1>2. LET d == Len(b) - Len(Strip(b)) IN
      d \in Nat /\ Strip(Cut(b, m)) = Cut(Strip(b), IF m >= d THEN m - d ELSE 0)
  BY <1>1, StripCut
<1> QED BY <1>1, <1>2 DEF IsRest, Less, m, t

\* The fields of a line, whatever the name is that a is the beginning of: m is
\* how much is left of what is behind the name.
FieldsAre(t, h, a, w, n, total) ==
  LET m == Less(n, total - Len(Strip(w))) IN
  /\ total - Len(Strip(w)) \in Nat /\ m \in Nat
  /\ HasFields(t) => Fields(t) = [hash |-> h, name |-> Strip(a), rest |-> Cut(Strip(w), m)]
  /\ ~ HasFields(t) => m = 0

LEMMA FieldsRead ==
  ASSUME NEW T, IsTokens(T), NEW h \in Seq(T), ~ Has(h, {Colon}),
         NEW a \in Seq(T), ~ Has(Strip(a), {Semicolon}), NEW w \in Seq(T), NEW n \in Nat
  PROVE  LET line == Joined(h, Colon, Cons(Blank, Joined(a, Semicolon, w))) IN
         /\ line \in Seq(T)
         /\ FieldsAre(Cut(line, n), h, a, w, n, Len(line))
<1> DEFINE b == Cons(Blank, Joined(a, Semicolon, w))  line == Joined(h, Colon, b)
           t == Cut(line, n)  c == Strip(a)  total == Len(line)
           named == Strip(After(t, {Colon}))  m == Less(n, total - Len(Strip(w)))
<1>1. Colon \in T /\ Semicolon \in T /\ Blank \in T /\ Semicolon # Blank
  BY SeparatorTokens, SeparatorsDiffer
<1>2. c \in Seq(T)
  BY StripType
<1>3. /\ Joined(a, Semicolon, w) \in Seq(T) /\ Joined(c, Semicolon, w) \in Seq(T)
      /\ Len(Joined(c, Semicolon, w)) = Len(c) + 1 + Len(w)
      /\ Len(c) \in Nat /\ Len(w) \in Nat
  <2>1. /\ Joined(a, Semicolon, w) \in Seq(T)
        /\ Joined(c, Semicolon, w) \in Seq(T)
        /\ IsJoined(Joined(c, Semicolon, w), c, Semicolon, w)
    BY <1>1, <1>2, JoinFacts
  <2> QED BY <2>1 DEF IsJoined
<1>4. b \in Seq(T) /\ Strip(b) = Joined(c, Semicolon, w)
  <2>1. Strip(b) = Strip(Joined(a, Semicolon, w))
    BY <1>1, <1>3, StripCons
  <2>2. Strip(Joined(a, Semicolon, w)) = Joined(c, Semicolon, w)
    BY <1>1, StripUpTo
  <2>3. b \in Seq(T)
    BY <1>1, <1>3, ConsFacts
  <2> QED BY <2>1, <2>2, <2>3
<1> HIDE DEF b, c
<1>5. line \in Seq(T) /\ total = Len(h) + 1 + Len(b) /\ Len(h) \in Nat /\ Len(b) \in Nat
  <2>1. line \in Seq(T) /\ IsJoined(line, h, Colon, b)
    BY <1>1, <1>4, JoinFacts
  <2> QED BY <2>1 DEF IsJoined
<1>6. Len(Strip(w)) \in Nat /\ Len(Strip(w)) <= Len(w) /\ Len(Strip(b)) <= Len(b)
  <2>1. Strip(w) \in Seq(T) /\ Len(Strip(w)) <= Len(w) /\ Len(Strip(b)) <= Len(b)
    BY <1>4, StripType
  <2> QED BY <2>1, LenProperties
<1> DEFINE k == Len(h)  lb == Len(b)  lc == Len(c)  lw == Len(w)  ls == Len(Strip(w))
           d == lb - (lc + 1 + lw)
<1> HIDE DEF line
<1>7. /\ k \in Nat /\ lb \in Nat /\ lc \in Nat /\ lw \in Nat /\ ls \in Nat /\ ls <= lw
      /\ total = k + 1 + lb /\ d \in Nat /\ lb = d + lc + 1 + lw
      /\ Len(b) - Len(Strip(b)) = d
  <2>1. Len(Strip(b)) = lc + 1 + lw
    BY <1>3, <1>4
  <2>2. /\ k \in Nat /\ lb \in Nat /\ lc \in Nat /\ lw \in Nat /\ ls \in Nat /\ ls <= lw
        /\ total = k + 1 + lb /\ Len(Strip(b)) <= lb
    BY <1>3, <1>5, <1>6
  <2>3. Len(b) - Len(Strip(b)) = d
    BY <2>1
  <2> HIDE DEF k, lb, lc, lw, ls, total
  <2>4. d \in Nat /\ lb = d + lc + 1 + lw
    BY <2>1, <2>2
  <2> QED BY <2>2, <2>3, <2>4
<1> HIDE DEF k, lb, lc, lw, ls, d, total
<1>8. total - ls \in Nat /\ m \in Nat /\ m = IF n >= total - ls THEN n - (total - ls) ELSE 0
  BY <1>7 DEF m, Less, ls
<1> HIDE DEF m
<1>9. HasFields(t) <=> Has(t, {Colon}) /\ Has(named, {Semicolon})
  BY DEF HasFields
<1>10. Fields(t) = [hash |-> Before(t, {Colon}), name |-> Before(named, {Semicolon}),
                   rest |-> Strip(After(named, {Semicolon}))]
  BY DEF Fields
<1>11. ASSUME n <= k PROVE FieldsAre(t, h, a, w, n, total)
  <2>1. ~ Has(t, {Colon})
    <3> DEFINE S == {Colon}
    <3>1. Colon \in S /\ ~ Has(h, S)
      OBVIOUS
    <3> HIDE DEF S
    <3>2. IsSplit(Cut(Joined(h, Colon, b), n), h, Colon, b, n, S)
      BY <1>1, <1>4, <3>1, CutSplit
    <3>3. ~ Has(Cut(Joined(h, Colon, b), n), S)
      BY <1>11, <3>2 DEF IsSplit, k
    <3> QED BY <3>3 DEF S, line
  <2>2. m = 0
    BY <1>7, <1>8, <1>11
  <2> QED BY <1>5, <1>8, <1>9, <2>1, <2>2 DEF FieldsAre, m, ls, total
<1>12. ASSUME n > k PROVE FieldsAre(t, h, a, w, n, total)
  <2> DEFINE n1 == Less(n - k - 1, d)
  <2>1. IsRest(t, h, Colon, b, n, {Colon})
    <3> DEFINE S == {Colon}
    <3>1. Colon \in S /\ ~ Has(h, S) /\ n > Len(h)
      BY <1>12 DEF k
    <3> HIDE DEF S
    <3>2. IsRest(Cut(Joined(h, Colon, b), n), h, Colon, b, n, S)
      BY <1>1, <1>4, <3>1, StripAfter
    <3> QED BY <3>2 DEF S, line
  <2>2. /\ Has(t, {Colon}) /\ Before(t, {Colon}) = h /\ n - k - 1 \in Nat
        /\ named = Cut(Joined(c, Semicolon, w), n1)
    BY <1>4, <1>7, <2>1 DEF IsRest, k
  <2>3. n1 \in Nat /\ n1 = IF n - k - 1 >= d THEN n - k - 1 - d ELSE 0
    BY <1>7, <2>2 DEF Less
  <2> HIDE DEF n1, named, t
  <2>4. Semicolon \in {Semicolon} /\ ~ Has(c, {Semicolon})
    BY DEF c
  <2>5. CASE n1 <= lc
    <3>1. ~ Has(named, {Semicolon})
      <4> DEFINE S == {Semicolon}
      <4>1. Semicolon \in S /\ ~ Has(c, S)
        BY <2>4
      <4> HIDE DEF S
      <4>2. IsSplit(Cut(Joined(c, Semicolon, w), n1), c, Semicolon, w, n1, S)
        BY <1>1, <1>2, <2>3, <4>1, CutSplit DEF c
      <4>3. ~ Has(Cut(Joined(c, Semicolon, w), n1), S)
        BY <2>5, <4>2 DEF IsSplit, lc
      <4> QED BY <2>2, <4>3 DEF S
    <3>2. m = 0
      BY <1>7, <1>8, <1>12, <2>3, <2>5
    <3> QED BY <1>5, <1>8, <1>9, <3>1, <3>2 DEF FieldsAre, m, ls, total, t, named
  <2>6. CASE n1 > lc
    <3>1. IsRest(named, c, Semicolon, w, n1, {Semicolon})
      <4> DEFINE S == {Semicolon}
      <4>1. Semicolon \in S /\ ~ Has(c, S) /\ n1 > Len(c)
        BY <2>4, <2>6 DEF lc
      <4> HIDE DEF S
      <4>2. IsRest(Cut(Joined(c, Semicolon, w), n1), c, Semicolon, w, n1, S)
        BY <1>1, <1>2, <2>3, <4>1, StripAfter DEF c
      <4> QED BY <2>2, <4>2 DEF S
    <3>2. /\ Has(named, {Semicolon}) /\ Before(named, {Semicolon}) = c
          /\ lw - ls \in Nat /\ n1 - lc - 1 \in Nat
          /\ Strip(After(named, {Semicolon})) = Cut(Strip(w), Less(n1 - lc - 1, lw - ls))
      BY <3>1 DEF IsRest, lc, lw, ls
    <3>3. Less(n1 - lc - 1, lw - ls) = m
      BY <1>7, <1>8, <1>12, <2>3, <2>6, <3>2 DEF Less
    <3>4. Fields(t) = [hash |-> h, name |-> c, rest |-> Cut(Strip(w), m)]
      BY <1>10, <2>2, <3>2, <3>3
    <3>5. HasFields(t)
      BY <1>9, <2>2, <3>2
    <3> QED BY <1>5, <1>8, <3>4, <3>5 DEF FieldsAre, m, ls, total, t, c
  <2>7. lc \in Nat /\ n1 \in Nat
    BY <1>7, <2>3
  <2> QED BY <2>5, <2>6, <2>7
<1>13. FieldsAre(t, h, a, w, n, total)
  <2> HIDE DEF t
  <2> QED BY <1>7, <1>11, <1>12
<1> QED BY <1>5, <1>13 DEF total, b, line

LEMMA SplitAt ==
  ASSUME NEW T, NEW t \in Seq(T), NEW x, Has(t, {x})
  PROVE  /\ x \in T /\ Before(t, {x}) \in Seq(T) /\ After(t, {x}) \in Seq(T)
         /\ ~ Has(Before(t, {x}), {x})
         /\ t = Joined(Before(t, {x}), x, After(t, {x}))
<1> DEFINE S == {x}  p == Place(t, S)  a == Before(t, S)  b == After(t, S)  j == Joined(a, x, b)
<1>0. Has(t, S)
  OBVIOUS
<1>1. p \in 1..Len(t) /\ t[p] \in S
  <2> HIDE DEF S
  <2> QED BY <1>0, PlaceFacts
<1>2. t[p] = x /\ x \in T /\ Len(t) \in Nat
  BY <1>1, ElementOfSeq, LenProperties
<1>3. /\ a \in Seq(T) /\ b \in Seq(T) /\ Len(a) = p - 1 /\ Len(b) = Len(t) - p /\ ~ Has(a, S)
      /\ b = From(t, p) /\ \A i \in 1..Len(a) : a[i] = t[i]
  <2> HIDE DEF S
  <2> QED BY <1>0, BeforeAfterTexts
<1>4. p \in 0..Len(t)
  BY <1>1
<1>5. \A i \in 1..(Len(t) - p) : b[i] = t[p + i]
  <2> HIDE DEF p, b
  <2>1. \A i \in 1..(Len(t) - p) : From(t, p)[i] = t[p + i]
    BY <1>4, FromFacts
  <2> QED BY <1>3, <2>1
<1>6. j \in Seq(T) /\ IsJoined(j, a, x, b)
  BY <1>2, <1>3, JoinFacts
<1> HIDE DEF j, a, b, p
<1>7. /\ Len(j) = Len(a) + 1 + Len(b)
      /\ \A i \in 1..Len(a) : j[i] = a[i]
      /\ j[Len(a) + 1] = x
      /\ \A i \in 1..Len(b) : j[Len(a) + 1 + i] = b[i]
  BY <1>6 DEF IsJoined
<1>8. Len(j) = Len(t)
  BY <1>1, <1>2, <1>3, <1>7
<1>9. ASSUME NEW i \in 1..Len(t) PROVE t[i] = j[i]
  <2>1. CASE i < p
    <3>1. i \in 1..Len(a)
      BY <1>1, <1>3, <2>1
    <3> QED BY <1>3, <1>7, <3>1
  <2>2. CASE i = p
    <3>1. Len(a) + 1 = i
      BY <1>1, <1>3, <2>2
    <3> QED BY <1>2, <1>7, <2>2, <3>1
  <2>3. CASE i > p
    <3> DEFINE k == i - p
    <3>1. k \in 1..Len(b) /\ k \in 1..(Len(t) - p) /\ Len(a) + 1 + k = i /\ p + k = i
      BY <1>1, <1>2, <1>3, <2>3
    <3> HIDE DEF k
    <3>2. j[Len(a) + 1 + k] = b[k] /\ b[k] = t[p + k]
      BY <1>5, <1>7, <3>1
    <3> QED BY <3>1, <3>2
  <2>4. i \in Int /\ p \in Int
    BY <1>1
  <2> QED BY <2>1, <2>2, <2>3, <2>4
<1>10. t = j
  BY <1>6, <1>8, <1>9, SameTexts
<1> QED BY <1>2, <1>3, <1>10 DEF j, a, b

LEMMA JoinedAssociative ==
  ASSUME NEW T, NEW a \in Seq(T), NEW x \in T, NEW b \in Seq(T), NEW y \in T, NEW c \in Seq(T)
  PROVE  Joined(Joined(a, x, b), y, c) = Joined(a, x, Joined(b, y, c))
<1>1. /\ Cons(x, b) \in Seq(T) /\ Cons(y, c) \in Seq(T) /\ One(x) \in Seq(T)
      /\ Cat(b, Cons(y, c)) \in Seq(T)
  <2>1. Cons(x, b) \in Seq(T) /\ Cons(y, c) \in Seq(T)
    BY ConsFacts
  <2>2. One(x) \in Seq(T)
    BY DEF One
  <2> QED BY <2>1, <2>2, CatFacts
<1>2. Cat(Cat(a, Cons(x, b)), Cons(y, c)) = Cat(a, Cat(Cons(x, b), Cons(y, c)))
  BY <1>1, CatAssociative
<1>3. Cat(One(x), b) = Cons(x, b) /\ Cat(One(x), Cat(b, Cons(y, c))) = Cons(x, Cat(b, Cons(y, c)))
  BY <1>1, CatCons
<1>4. Cat(Cat(One(x), b), Cons(y, c)) = Cat(One(x), Cat(b, Cons(y, c)))
  BY <1>1, CatAssociative
<1> QED BY <1>2, <1>3, <1>4, JoinedIsCat

LEMMA JoinedHas ==
  ASSUME NEW T, NEW a \in Seq(T), NEW x \in T, NEW b \in Seq(T), NEW S,
         ~ Has(a, S), x \notin S, ~ Has(b, S)
  PROVE  ~ Has(Joined(a, x, b), S)
<1> DEFINE j == Joined(a, x, b)
<1>1. j \in Seq(T) /\ IsJoined(j, a, x, b)
  BY JoinFacts
<1> HIDE DEF j
<1>2. /\ Len(a) \in Nat /\ Len(b) \in Nat /\ Len(j) = Len(a) + 1 + Len(b)
      /\ \A i \in 1..Len(a) : j[i] = a[i]
      /\ j[Len(a) + 1] = x
      /\ \A i \in 1..Len(b) : j[Len(a) + 1 + i] = b[i]
  BY <1>1 DEF IsJoined
<1>3. DOMAIN a = 1..Len(a) /\ DOMAIN b = 1..Len(b) /\ DOMAIN j = 1..Len(j)
  BY <1>1, LenProperties
<1>4. (\A i \in 1..Len(a) : a[i] \notin S) /\ (\A i \in 1..Len(b) : b[i] \notin S)
  BY <1>3 DEF Has
<1>5. ASSUME NEW i \in 1..Len(j) PROVE j[i] \notin S
  <2>1. CASE i <= Len(a)
    <3>1. i \in 1..Len(a)
      BY <1>2, <2>1
    <3> QED BY <1>2, <1>4, <3>1
  <2>2. CASE i = Len(a) + 1
    BY <1>2, <2>2
  <2>3. CASE i > Len(a) + 1
    <3> DEFINE k == i - Len(a) - 1
    <3>1. k \in 1..Len(b) /\ Len(a) + 1 + k = i
      BY <1>2, <2>3
    <3> HIDE DEF k
    <3>2. j[Len(a) + 1 + k] = b[k] /\ b[k] \notin S
      BY <1>2, <1>4, <3>1
    <3> QED BY <3>1, <3>2
  <2> QED BY <1>2, <2>1, <2>2, <2>3
<1> QED BY <1>3, <1>5 DEF Has, j

LEMMA StripHas ==
  ASSUME NEW T, NEW u \in Seq(T), NEW S, ~ Has(u, S)
  PROVE  ~ Has(Strip(u), S)
<1>1. PICK d \in 0..Len(u) : Strip(u) = From(u, d)
  BY StripFacts
<1>2. /\ From(u, d) \in Seq(T) /\ Len(From(u, d)) = Len(u) - d /\ Len(u) \in Nat
      /\ \A i \in 1..(Len(u) - d) : From(u, d)[i] = u[d + i]
  BY FromFacts, LenProperties
<1>3. DOMAIN From(u, d) = 1..(Len(u) - d) /\ DOMAIN u = 1..Len(u)
  <2>1. DOMAIN From(u, d) = 1..Len(From(u, d)) /\ DOMAIN u = 1..Len(u)
    BY <1>2, LenProperties
  <2> QED BY <1>2, <2>1
<1>4. \A i \in 1..(Len(u) - d) : d + i \in 1..Len(u)
  BY <1>2
<1>5. \A i \in 1..(Len(u) - d) : From(u, d)[i] \notin S
  BY <1>2, <1>3, <1>4 DEF Has
<1> QED BY <1>1, <1>3, <1>5 DEF Has

LEMMA TupleHas ==
  ASSUME NEW T, NEW x \in T, NEW y \in T, NEW S, x \notin S
  PROVE  ~ Has(One(x), S) /\ (y \notin S => ~ Has(Two(x, y), S))
<1>1. DOMAIN <<x>> = 1..1 /\ <<x>>[1] = x
  OBVIOUS
<1>2. DOMAIN <<x, y>> = 1..2 /\ <<x, y>>[1] = x /\ <<x, y>>[2] = y
  OBVIOUS
<1>3. \A i \in 1..2 : i = 1 \/ i = 2
  OBVIOUS
<1> QED BY <1>1, <1>2, <1>3 DEF Has, One, Two

\* The size is the first token of the rest.
LEMMA SizeRead ==
  ASSUME NEW T, NEW z \in Numbers \cup {Zero}, z \in T, NEW x \in T, NEW u \in Seq(T), NEW m \in Nat, m > 1
  PROVE  strtoll(Cut(Joined(One(z), x, u), m)) = z
<1> DEFINE j == Joined(One(z), x, u)  c == Cut(j, m)
<1>1. One(z) \in Seq(T) /\ Len(One(z)) = 1 /\ One(z)[1] = z
  BY DEF One
<1>2. j \in Seq(T) /\ IsJoined(j, One(z), x, u)
  BY <1>1, JoinFacts
<1>3. j[1] = z /\ Len(j) \in Nat /\ Len(j) > 0
  BY <1>1, <1>2 DEF IsJoined
<1> HIDE DEF j
<1>4. /\ c \in Seq(T) /\ Len(c) = (IF m <= Len(j) THEN m ELSE Len(j))
      /\ \A i \in 1..Len(c) : c[i] = j[i]
  BY <1>2, CutFacts
<1> HIDE DEF c
<1>5. 1 \in 1..Len(c)
  BY <1>3, <1>4
<1>6. c # <<>>
  BY <1>5, EmptySeq
<1> QED BY <1>3, <1>4, <1>5, <1>6 DEF strtoll, c, j

-----------------------------------------------------------------------------
(* Reading a line of what dm_publish prints.                               *)

IsShared(f, T) == /\ f.hash \in Seq(T) /\ f.name \in Seq(T) /\ f.size \in Numbers \cup {Zero}
                  /\ ~ Has(f.hash, {Colon})

\* A name that does not break its line, and as what it is read.
IsTame(name) == ~ (Has(name, {Semicolon}) /\ Has(After(name, {Semicolon}), {Newline}))
NameOf(name) == Strip(IF Has(name, {Semicolon}) THEN Before(name, {Semicolon}) ELSE name)

\* The line is read as the name a; behind that comes w, and u after e of it.
IsShape(a, w, e, f, u, T) ==
  /\ a \in Seq(T) /\ w \in Seq(T) /\ e \in Seq(T)
  /\ FileThen(f, Cons(Newline, u)) = Joined(f.hash, Colon, Cons(Blank, Joined(a, Semicolon, w)))
  /\ ~ Has(Strip(a), {Semicolon}) /\ Strip(a) = NameOf(f.name)
  /\ Strip(w) = Joined(e, Newline, u) /\ ~ Has(e, {Newline})
  /\ ~ Has(f.name, {Semicolon}) => e = One(f.size)

LEMMA NumbersDiffer ==
  ASSUME NEW T, IsTokens(T), NEW z \in Numbers \cup {Zero}
  PROVE  z \in T /\ z \notin Separators
<1>1. Words \cap Separators = {} /\ Numbers \subseteq Words /\ Zero \notin Separators
  BY WordsAssumption, SeparatorsDiffer
<1>2. Words \subseteq T /\ Zero \in T
  BY SeparatorTokens DEF IsTokens
<1> QED BY <1>1, <1>2

LEMMA PublishShape ==
  ASSUME NEW T, IsTokens(T), NEW f, IsShared(f, T), IsTame(f.name), NEW u \in Seq(T)
  PROVE  \E a, w, e : IsShape(a, w, e, f, u, T)
<1> DEFINE q == f.name  z == f.size  v == Cons(Newline, u)  r == Cons(Blank, Cons(z, v))
           d == Two(Blank, z)
<1>1. f.hash \in Seq(T) /\ q \in Seq(T) /\ z \in Numbers \cup {Zero}
  BY DEF IsShared
<1>2. /\ Colon \in T /\ Semicolon \in T /\ Blank \in T /\ Newline \in T
      /\ Semicolon # Blank /\ Newline # Blank /\ Semicolon # Newline
  BY SeparatorTokens, SeparatorsDiffer
<1>3. z \in T /\ z # Blank /\ z # Newline
  <2> DEFINE y == z
  <2>1. y \in Numbers \cup {Zero}
    BY <1>1
  <2> HIDE DEF y
  <2>2. y \in T /\ y \notin Separators
    BY <2>1, NumbersDiffer
  <2>3. Blank \in Separators /\ Newline \in Separators
    BY SeparatorsDiffer
  <2> QED BY <2>2, <2>3 DEF y
<1>4. FileThen(f, v) = Joined(f.hash, Colon, Cons(Blank, Joined(q, Semicolon, r)))
  BY DEF FileThen
<1> HIDE DEF q, z
<1>5. v \in Seq(T) /\ Cons(z, v) \in Seq(T) /\ r \in Seq(T) /\ d \in Seq(T) /\ One(z) \in Seq(T)
  <2>1. v \in Seq(T)
    BY <1>2, ConsFacts
  <2> HIDE DEF v
  <2>2. Cons(z, v) \in Seq(T)
    BY <1>3, <2>1, ConsFacts
  <2>3. Cons(Blank, Cons(z, v)) \in Seq(T)
    BY <1>2, <2>2, ConsFacts
  <2>4. d \in Seq(T) /\ One(z) \in Seq(T)
    BY <1>2, <1>3, CatTuples
  <2> QED BY <2>1, <2>2, <2>3, <2>4
<1>6. /\ Cons(z, v) = Joined(One(z), Newline, u)
      /\ r = Joined(d, Newline, u)
  <2> HIDE DEF v
  <2>1. Cat(One(z), v) = Cons(z, v) /\ Cat(Two(Blank, z), v) = Cons(Blank, Cons(z, v))
    BY <1>2, <1>3, <1>5, CatCons
  <2> QED BY <2>1, JoinedIsCat DEF v
<1>7. Strip(r) = Cons(z, v)
  <2> HIDE DEF v
  <2>1. Strip(r) = Strip(Cons(z, v))
    BY <1>2, <1>5, StripCons
  <2>2. Cons(z, v)[1] = z
    BY <1>3, <1>5, ConsFacts
  <2>3. Strip(Cons(z, v)) = Cons(z, v)
    BY <1>3, <1>5, <2>2, StripNothing
  <2> QED BY <2>1, <2>3
<1>8. ~ Has(One(z), {Newline}) /\ ~ Has(d, {Newline})
  <2> DEFINE S == {Newline}
  <2>1. Blank \notin S /\ z \notin S
    BY <1>2, <1>3
  <2> HIDE DEF S
  <2>2. ~ Has(One(z), S) /\ ~ Has(Two(Blank, z), S)
    BY <1>2, <1>3, <2>1, TupleHas
  <2> QED BY <2>2 DEF S
<1> HIDE DEF v, r, d
<1>9. CASE ~ Has(q, {Semicolon})
  <2>1. NameOf(q) = Strip(q)
    BY <1>9 DEF NameOf
  <2>2. ~ Has(Strip(q), {Semicolon})
    <3> DEFINE S == {Semicolon}
    <3>1. ~ Has(q, S)
      BY <1>9
    <3> HIDE DEF S
    <3>2. ~ Has(Strip(q), S)
      BY <1>1, <3>1, StripHas
    <3> QED BY <3>2 DEF S
  <2>3. IsShape(q, r, One(z), f, u, T)
    BY <1>1, <1>4, <1>5, <1>6, <1>7, <1>8, <2>1, <2>2 DEF IsShape, q, z, v
  <2> QED BY <2>3
<1>10. CASE Has(q, {Semicolon})
  <2> DEFINE a == Before(q, {Semicolon})  b == After(q, {Semicolon})
             w == Joined(b, Semicolon, r)  e == Joined(Strip(b), Semicolon, d)
  <2>1. a \in Seq(T) /\ b \in Seq(T) /\ ~ Has(a, {Semicolon}) /\ q = Joined(a, Semicolon, b)
    BY <1>1, <1>10, SplitAt
  <2>2. ~ Has(b, {Newline}) /\ NameOf(q) = Strip(a)
    BY <1>10 DEF IsTame, NameOf, q
  <2> HIDE DEF a, b
  <2>3. Joined(q, Semicolon, r) = Joined(a, Semicolon, w)
    BY <1>2, <1>5, <2>1, JoinedAssociative
  <2>4. ~ Has(Strip(a), {Semicolon}) /\ ~ Has(Strip(b), {Newline}) /\ Strip(b) \in Seq(T)
    <3> DEFINE S == {Semicolon}  N == {Newline}
    <3>1. ~ Has(a, S) /\ ~ Has(b, N)
      BY <2>1, <2>2
    <3> HIDE DEF S, N
    <3>2. ~ Has(Strip(a), S) /\ ~ Has(Strip(b), N)
      BY <2>1, <3>1, StripHas
    <3>3. Strip(b) \in Seq(T)
      BY <2>1, StripType
    <3> QED BY <3>2, <3>3 DEF S, N
  <2>5. Strip(w) = Joined(Strip(b), Semicolon, r)
    BY <1>2, <1>5, <2>1, StripUpTo
  <2>6. Joined(Strip(b), Semicolon, r) = Joined(e, Newline, u)
    BY <1>2, <1>5, <1>6, <2>4, JoinedAssociative
  <2>7. ~ Has(e, {Newline})
    <3> DEFINE N == {Newline}
    <3>1. ~ Has(Strip(b), N) /\ ~ Has(d, N) /\ Semicolon \notin N
      BY <1>2, <1>8, <2>4
    <3> HIDE DEF N
    <3>2. ~ Has(e, N)
      BY <1>2, <1>5, <2>4, <3>1, JoinedHas
    <3> QED BY <3>2 DEF N
  <2>8. w \in Seq(T) /\ e \in Seq(T)
    BY <1>2, <1>5, <2>1, <2>4, JoinFacts
  <2> HIDE DEF w, e
  <2>9. IsShape(a, w, e, f, u, T)
    BY <1>4, <1>10, <2>1, <2>2, <2>3, <2>4, <2>5, <2>6, <2>7, <2>8 DEF IsShape, q, v
  <2> QED BY <2>9
<1> QED BY <1>9, <1>10

\* A line is read, and what is behind it is left, or the list ends there, with the
\* line or within it, as the text was cut.
PublishRead(s, r, f, u, n, l) ==
  /\ n >= l => /\ r.text = Cut(u, n - l)
               /\ \E z \in Numbers \cup {Zero} :
                    /\ ~ Has(f.name, {Semicolon}) => z = f.size
                    /\ r.list = Append(s.list, [hash |-> f.hash, name |-> NameOf(f.name), size |-> z])
  /\ n < l => r.text = <<>> /\ r.list = s.list

LEMMA PublishLineReads ==
  ASSUME NEW T, IsTokens(T), NEW f, IsShared(f, T), IsTame(f.name), NEW u \in Seq(T),
         NEW n \in Nat, NEW list
  PROVE  LET line == FileThen(f, Cons(Newline, u))
             l    == Len(line) - Len(u)
             s    == [text |-> Cut(line, n), list |-> list]
         IN  /\ line \in Seq(T) /\ l \in Nat \ {0}
             /\ PublishRead(s, PublishLine(s), f, u, n, l)
<1> DEFINE line == FileThen(f, Cons(Newline, u))  l == Len(line) - Len(u)
           t == Cut(line, n)  s == [text |-> t, list |-> list]
<1>1. PICK a, w, e : IsShape(a, w, e, f, u, T)
  BY PublishShape
<1>2. /\ a \in Seq(T) /\ w \in Seq(T) /\ e \in Seq(T)
      /\ line = Joined(f.hash, Colon, Cons(Blank, Joined(a, Semicolon, w)))
      /\ ~ Has(Strip(a), {Semicolon}) /\ Strip(a) = NameOf(f.name)
      /\ Strip(w) = Joined(e, Newline, u) /\ ~ Has(e, {Newline})
      /\ ~ Has(f.name, {Semicolon}) => e = One(f.size)
  BY <1>1 DEF IsShape
<1>3. Newline \in T /\ f.hash \in Seq(T) /\ ~ Has(f.hash, {Colon}) /\ f.size \in Numbers \cup {Zero}
  BY SeparatorTokens DEF IsShared
<1> HIDE DEF line
<1>4. line \in Seq(T) /\ FieldsAre(t, f.hash, a, w, n, Len(line))
  <2> DEFINE h == f.hash
  <2>1. h \in Seq(T) /\ ~ Has(h, {Colon})
    BY <1>3
  <2> HIDE DEF h
  <2>2. LET x == Joined(h, Colon, Cons(Blank, Joined(a, Semicolon, w))) IN
        x \in Seq(T) /\ FieldsAre(Cut(x, n), h, a, w, n, Len(x))
    BY <1>2, <2>1, FieldsRead
  <2> QED BY <1>2, <2>2 DEF h
<1> DEFINE j == Joined(e, Newline, u)  m == Less(n, Len(line) - Len(j))  rest == Cut(j, m)
<1>5. j \in Seq(T) /\ IsJoined(j, e, Newline, u)
  BY <1>2, <1>3, JoinFacts
<1>6. Len(j) = Len(e) + 1 + Len(u) /\ Len(e) \in Nat /\ Len(u) \in Nat /\ Len(line) \in Nat
  BY <1>4, <1>5, LenProperties DEF IsJoined
<1> HIDE DEF t
<1>7. /\ Len(line) - Len(j) \in Nat /\ m \in Nat
      /\ HasFields(t) => Fields(t) = [hash |-> f.hash, name |-> NameOf(f.name), rest |-> rest]
      /\ ~ HasFields(t) => m = 0
  BY <1>2, <1>4 DEF FieldsAre
<1>8. l \in Nat \ {0} /\ (n >= l <=> m > Len(e)) /\ (n >= l => m - Len(e) - 1 = n - l)
  <2> HIDE DEF j
  <2> QED BY <1>6, <1>7 DEF Less
<1>9. IsSplit(rest, e, Newline, u, m, {Newline})
  <2> DEFINE N == {Newline}
  <2>1. Newline \in N /\ ~ Has(e, N)
    BY <1>2
  <2> HIDE DEF N, m
  <2>2. IsSplit(Cut(Joined(e, Newline, u), m), e, Newline, u, m, N)
    BY <1>2, <1>3, <1>7, <2>1, CutSplit
  <2> QED BY <2>2 DEF N
<1> HIDE DEF m, rest, l
<1>10. ASSUME n >= l PROVE PublishRead(s, PublishLine(s), f, u, n, l)
  <2>1. Has(rest, {Newline}) /\ After(rest, {Newline}) = Cut(u, n - l)
    BY <1>8, <1>9, <1>10 DEF IsSplit
  <2>2. HasFields(t)
    BY <1>6, <1>7, <1>8, <1>10
  <2>3. PublishLine(s) = [text |-> Cut(u, n - l),
                          list |-> Append(list, [hash |-> f.hash, name |-> NameOf(f.name),
                                                 size |-> strtoll(rest)])]
    <3> DEFINE F == Fields(t)
    <3>1. F.hash = f.hash /\ F.name = NameOf(f.name) /\ F.rest = rest
      BY <1>7, <2>2
    <3>2. s.text = t /\ s.list = list
      OBVIOUS
    <3>3. HasFields(s.text) /\ Has(Fields(s.text).rest, {Newline}) /\ F = Fields(s.text)
      BY <2>1, <2>2, <3>1, <3>2
    <3> HIDE DEF F, s
    <3>4. PublishLine(s) = [text |-> After(F.rest, {Newline}),
                            list |-> Append(s.list, [hash |-> F.hash, name |-> F.name,
                                                     size |-> strtoll(F.rest)])]
      BY <3>3 DEF PublishLine
    <3> QED BY <2>1, <3>1, <3>2, <3>4
  <2>4. strtoll(rest) \in Numbers \cup {Zero}
    BY DEF strtoll
  <2>5. ~ Has(f.name, {Semicolon}) => strtoll(rest) = f.size
    <3>1. SUFFICES ASSUME ~ Has(f.name, {Semicolon}) PROVE strtoll(rest) = f.size
      OBVIOUS
    <3> DEFINE z == f.size
    <3>2. e = One(z) /\ z \in Numbers \cup {Zero}
      BY <1>2, <1>3, <3>1
    <3> HIDE DEF z
    <3>3. z \in T
      BY <3>2, NumbersDiffer
    <3>4. Len(e) = 1
      BY <3>2 DEF One
    <3>5. m > 1 /\ m \in Nat
      BY <1>7, <1>8, <1>10, <3>4
    <3>6. strtoll(Cut(Joined(One(z), Newline, u), m)) = z
      BY <1>3, <3>2, <3>3, <3>5, SizeRead
    <3> QED BY <3>2, <3>6 DEF rest, z
  <2>6. ~ (n < l)
    BY <1>8, <1>10
  <2> DEFINE r == PublishLine(s)
             g == [hash |-> f.hash, name |-> NameOf(f.name), size |-> strtoll(rest)]
  <2>7. r.text = Cut(u, n - l) /\ r.list = Append(list, g) /\ s.list = list
    BY <2>3
  <2> HIDE DEF r, s
  <2>8. r.list = Append(s.list, [hash |-> f.hash, name |-> NameOf(f.name), size |-> strtoll(rest)])
    BY <2>7
  <2>9. PublishRead(s, r, f, u, n, l)
    BY <2>4, <2>5, <2>6, <2>7, <2>8 DEF PublishRead
  <2> QED BY <2>9 DEF r
<1>11. ASSUME n < l PROVE PublishRead(s, PublishLine(s), f, u, n, l)
  <2>1. ~ (n >= l) /\ m <= Len(e)
    BY <1>6, <1>7, <1>8, <1>11
  <2>2. ~ Has(rest, {Newline})
    BY <1>9, <2>1 DEF IsSplit
  <2>3. PublishLine(s) = [s EXCEPT !.text = <<>>]
    BY <1>7, <2>2 DEF PublishLine
  <2> QED BY <2>1, <2>3 DEF PublishRead
<1>12. n >= l \/ n < l
  BY <1>8
<1> QED BY <1>4, <1>8, <1>10, <1>11, <1>12 DEF l, line, t

-----------------------------------------------------------------------------
(* Reading the lines of a publish.                                         *)

PublishAfter(text, after, n) ==
  after = [k \in 0..n |-> IF k = 0 THEN [text |-> text, list |-> <<>>] ELSE PublishLine(after[k - 1])]

IsPublishRead(text, after, n) ==
  /\ PublishLines(text) = after[n].list
  /\ after[0] = [text |-> text, list |-> <<>>]
  /\ \A k \in 1..n : after[k] = PublishLine(after[k - 1])

LEMMA PublishLoop ==
  ASSUME NEW text, NEW n \in Nat, n = Len(text)
  PROVE  \E after : IsPublishRead(text, after, n)
<1> DEFINE Is(w, m) == PublishAfter(text, w, m)
           S == {m \in 0..n : \E w : Is(w, m)}
           start == [text |-> text, list |-> <<>>]
<1>1. 0 \in S
  <2>1. Is([k \in 0..0 |-> start], 0)
    BY DEF PublishAfter
  <2> HIDE DEF Is
  <2> QED BY <2>1
<1>2. ASSUME NEW m \in 1..n, m - 1 \in S PROVE m \in S
  <2>1. m \in 0..n /\ m \in Nat /\ m # 0
    OBVIOUS
  <2>2. PICK w : Is(w, m - 1)
    BY <1>2
  <2> DEFINE v == [k \in 0..m |-> IF k = m THEN PublishLine(w[m - 1]) ELSE w[k]]
  <2>3. w = [k \in 0..(m - 1) |-> IF k = 0 THEN start ELSE PublishLine(w[k - 1])]
    BY <2>2 DEF PublishAfter
  <2> HIDE DEF start
  <2>4. \A k \in 0..(m - 1) : w[k] = IF k = 0 THEN start ELSE PublishLine(w[k - 1])
    BY <2>3
  <2>5. ASSUME NEW k \in 0..m
        PROVE  v[k] = IF k = 0 THEN start ELSE PublishLine(v[k - 1])
    <3>1. /\ k # m => k \in 0..(m - 1)
          /\ k # 0 => k - 1 \in 0..m /\ k - 1 # m
      BY <2>1
    <3>2. k # 0 => v[k - 1] = w[k - 1]
      BY <3>1
    <3>3. CASE k = m
      BY <2>1, <3>2, <3>3
    <3>4. CASE k # m
      BY <2>4, <3>1, <3>2, <3>4
    <3> QED BY <3>3, <3>4
  <2>6. v = [k \in 0..m |-> v[k]]
    OBVIOUS
  <2> HIDE DEF v
  <2>7. Is(v, m)
    BY <2>5, <2>6 DEF PublishAfter, start
  <2> HIDE DEF Is
  <2> QED BY <2>1, <2>7
<1>3. n \in S
  <2> HIDE DEF S
  <2>1. \A k \in 0..n : k \in S
    BY <1>1, <1>2, InductionTo
  <2> QED BY <2>1
<1> DEFINE after == CHOOSE w : Is(w, n)
<1>4. Is(after, n)
  <2> HIDE DEF Is
  <2> QED BY <1>3
<1>5. PublishLines(text) = after[n].list
  BY DEF PublishLines, PublishAfter
<1> HIDE DEF after, start
<1>6. \A k \in 0..n : after[k] = IF k = 0 THEN start ELSE PublishLine(after[k - 1])
  BY <1>4 DEF PublishAfter, start
<1>7. after[0] = start /\ \A k \in 1..n : after[k] = PublishLine(after[k - 1])
  BY <1>6
<1>8. IsPublishRead(text, after, n)
  BY <1>5, <1>7 DEF IsPublishRead, start
<1> QED BY <1>8

\* Whatever the text is, what is read of it can be printed and read again.
ReadFiles(T) == {f \in [hash : Seq(T), name : Seq(T), size : Numbers \cup {Zero}] :
                   /\ ~ Has(f.hash, {Colon}) /\ ~ Has(f.name, {Semicolon})
                   /\ Strip(f.name) = f.name}

LEMMA FieldsType ==
  ASSUME NEW T, NEW t \in Seq(T), HasFields(t)
  PROVE  /\ Fields(t).hash \in Seq(T) /\ ~ Has(Fields(t).hash, {Colon})
         /\ Fields(t).name \in Seq(T) /\ ~ Has(Fields(t).name, {Semicolon})
         /\ Strip(Fields(t).name) = Fields(t).name
         /\ Fields(t).rest \in Seq(T)
<1> DEFINE C == {Colon}  S == {Semicolon}  named == Strip(After(t, C))  q == Before(named, S)
<1>1. Has(t, C) /\ Has(named, S)
  BY DEF HasFields
<1>2. Fields(t).hash = Before(t, C) /\ Fields(t).name = q /\ Fields(t).rest = Strip(After(named, S))
  BY DEF Fields
<1> HIDE DEF C, S
<1>3. Before(t, C) \in Seq(T) /\ ~ Has(Before(t, C), C) /\ After(t, C) \in Seq(T)
  BY <1>1, BeforeAfterTexts
<1>4. named \in Seq(T) /\ (named # <<>> => named[1] # Blank)
  BY <1>3, StripType
<1> HIDE DEF named
<1>5. /\ q \in Seq(T) /\ ~ Has(q, S) /\ After(named, S) \in Seq(T)
      /\ \A i \in 1..Len(q) : q[i] = named[i]
  BY <1>1, <1>4, BeforeAfterTexts
<1>6. named # <<>>
  <2>1. DOMAIN <<>> = {}
    OBVIOUS
  <2> QED BY <1>1, <2>1 DEF Has
<1> HIDE DEF q
<1>7. q = <<>> \/ q[1] # Blank
  <2>1. q # <<>> => 1 \in 1..Len(q)
    <3>1. q # <<>> => Len(q) \in Nat \ {0}
      BY <1>5, EmptySeq, LenProperties
    <3> QED BY <3>1
  <2> QED BY <1>4, <1>5, <1>6, <2>1
<1>8. Strip(q) = q
  BY <1>5, <1>7, StripNothing
<1>9. Strip(After(named, S)) \in Seq(T)
  BY <1>5, StripType
<1> QED BY <1>2, <1>3, <1>5, <1>8, <1>9 DEF C, S

LEMMA PublishLineType ==
  ASSUME NEW T, NEW F, ReadFiles(T) \subseteq F, NEW s \in [text : Seq(T), list : Seq(F)]
  PROVE  PublishLine(s) \in [text : Seq(T), list : Seq(F)]
<1> DEFINE t == s.text  g == Fields(t)
           f == [hash |-> g.hash, name |-> g.name, size |-> strtoll(g.rest)]
<1>1. t \in Seq(T) /\ s.list \in Seq(F) /\ <<>> \in Seq(T)
  BY EmptySeq
<1>2. CASE HasFields(t) /\ Has(g.rest, {Newline})
  <2>1. /\ g.hash \in Seq(T) /\ ~ Has(g.hash, {Colon})
        /\ g.name \in Seq(T) /\ ~ Has(g.name, {Semicolon}) /\ Strip(g.name) = g.name
        /\ g.rest \in Seq(T)
    <3> HIDE DEF t
    <3> QED BY <1>1, <1>2, FieldsType
  <2>2. strtoll(g.rest) \in Numbers \cup {Zero}
    BY DEF strtoll
  <2> HIDE DEF g
  <2>3. f \in F
    <3>1. f \in ReadFiles(T)
      BY <2>1, <2>2 DEF ReadFiles
    <3> QED BY <3>1
  <2>4. After(g.rest, {Newline}) \in Seq(T)
    BY <1>2, <2>1, SplitAt
  <2>5. Append(s.list, f) \in Seq(F)
    <3> HIDE DEF f
    <3> QED BY <1>1, <2>3, AppendProperties
  <2>6. PublishLine(s) = [text |-> After(g.rest, {Newline}), list |-> Append(s.list, f)]
    BY <1>2 DEF PublishLine, g
  <2> HIDE DEF f
  <2> QED BY <2>4, <2>5, <2>6
<1>3. CASE ~ (HasFields(t) /\ Has(g.rest, {Newline}))
  <2>1. PublishLine(s) = [s EXCEPT !.text = <<>>]
    BY <1>3 DEF PublishLine
  <2> QED BY <1>1, <2>1
<1> QED BY <1>2, <1>3

LEMMA PublishType ==
  ASSUME NEW T, NEW text \in Seq(T)
  PROVE  PublishLines(text) \in Seq(ReadFiles(T))
<1> DEFINE F == ReadFiles(T)  A == [text : Seq(T), list : Seq(F)]
<1>1. Len(text) \in Nat /\ <<>> \in Seq(T) /\ <<>> \in Seq(F)
  BY LenProperties, EmptySeq
<1> DEFINE n == Len(text)
<1> HIDE DEF n
<1>n. n \in Nat /\ n = Len(text)
  BY <1>1 DEF n
<1>2. PICK after : IsPublishRead(text, after, n)
  BY <1>n, PublishLoop
<1>3. /\ PublishLines(text) = after[n].list /\ after[0] = [text |-> text, list |-> <<>>]
      /\ \A k \in 1..n : after[k] = PublishLine(after[k - 1])
  BY <1>2 DEF IsPublishRead
<1>4. ASSUME NEW s \in A PROVE PublishLine(s) \in A
  <2> HIDE DEF F
  <2>1. ReadFiles(T) \subseteq F
    BY DEF F
  <2> QED BY <2>1, PublishLineType
<1> DEFINE S == {k \in 0..n : after[k] \in A}
<1>5. 0 \in S
  <2> HIDE DEF F
  <2> DEFINE e == <<>>
  <2>1. e \in Seq(T) /\ e \in Seq(F) /\ after[0] = [text |-> text, list |-> e] /\ 0 \in 0..n
    BY <1>1, <1>3, <1>n
  <2> HIDE DEF e
  <2>2. [text |-> text, list |-> e] \in A
    BY <2>1
  <2> QED BY <2>1, <2>2
<1>6. ASSUME NEW k \in 1..n, k - 1 \in S PROVE k \in S
  <2> HIDE DEF A
  <2>1. after[k - 1] \in A /\ k \in 0..n
    BY <1>6
  <2> QED BY <1>3, <1>4, <2>1
<1>7. after[n] \in A
  <2> HIDE DEF S
  <2>1. \A k \in 0..n : k \in S
    BY <1>5, <1>6, <1>n, InductionTo
  <2> QED BY <1>n, <2>1 DEF S
<1> QED BY <1>3, <1>7

\* What was read so far are the first of the files, each as Rel says.
Follows(list, F, db, n, Rel) ==
  /\ list \in Seq(F) /\ Len(list) <= n
  /\ \A k \in 1..Len(list) : <<list[k], db[k]>> \in Rel

LEMMA FollowsMore ==
  ASSUME NEW F, NEW db, NEW n \in Nat, NEW Rel, NEW list, Follows(list, F, db, n, Rel),
         NEW g \in F, Len(list) + 1 <= n, <<g, db[Len(list) + 1]>> \in Rel
  PROVE  Follows(Append(list, g), F, db, n, Rel) /\ Len(Append(list, g)) = Len(list) + 1
<1> DEFINE a == Append(list, g)
<1>1. list \in Seq(F) /\ Len(list) \in Nat /\ \A k \in 1..Len(list) : <<list[k], db[k]>> \in Rel
  BY LenProperties DEF Follows
<1>2. /\ a \in Seq(F) /\ Len(a) = Len(list) + 1 /\ a[Len(list) + 1] = g
      /\ \A k \in 1..Len(list) : a[k] = list[k]
  BY <1>1, AppendProperties
<1> HIDE DEF a
<1>3. ASSUME NEW k \in 1..Len(a) PROVE <<a[k], db[k]>> \in Rel
  <2>1. k \in 1..Len(list) \/ k = Len(list) + 1
    BY <1>1, <1>2
  <2> QED BY <1>1, <1>2, <2>1
<1> QED BY <1>1, <1>2, <1>3 DEF Follows, a

\* A file as it is read from its line.
PublishedFiles(T) == [hash : Seq(T), name : Seq(T), size : Numbers \cup {Zero}]
ReadAs(g, f) == /\ g.hash = f.hash /\ g.name = NameOf(f.name)
                /\ ~ Has(f.name, {Semicolon}) => g.size = f.size
PublishedAs(T, db) == {p \in PublishedFiles(T) \X ToSet(db) : ReadAs(p[1], p[2])}

\* After k lines, of the text there is what is left of the rest of it; or all has
\* been read, or all up to where the text was cut.
PublishGoing(s, k, R, db, n, c, T) ==
  /\ k <= n /\ Len(s.list) = k /\ Len(R[0]) - Len(R[k]) >= k /\ c >= Len(R[0]) - Len(R[k])
  /\ s.text = Cut(R[k], c - (Len(R[0]) - Len(R[k])))

PublishDone(s, R, n, c) ==
  /\ s.text = <<>>
  /\ c >= Len(R[0]) => Len(s.list) = n

LEMMA NoFields ==
  ~ HasFields(<<>>)
<1>1. DOMAIN <<>> = {}
  OBVIOUS
<1> QED BY <1>1 DEF HasFields, Has

LEMMA TurnCount ==
  ASSUME NEW n \in Nat, NEW k \in 1..n, NEW c \in Nat, NEW before \in Nat, NEW now \in Nat,
         NEW next \in Nat, NEW l \in Nat \ {0}, before - now >= k - 1, now = l + next,
         c - (before - now) >= l
  PROVE  /\ k <= n /\ before - next >= k /\ c >= before - next
         /\ c - (before - now) - l = c - (before - next)
OBVIOUS

LEMMA PublishTurn ==
  ASSUME NEW T, IsTokens(T), NEW db, NEW n \in Nat, n = Len(db), DOMAIN db = 1..n,
         \A k \in 1..n : IsShared(db[k], T) /\ IsTame(db[k].name),
         NEW R, IsPublish(R, db, n, T), NEW c \in Nat, NEW k \in Nat \ {0},
         NEW s \in [text : Seq(T), list : Seq(PublishedFiles(T))],
         Follows(s.list, PublishedFiles(T), db, n, PublishedAs(T, db)),
         PublishGoing(s, k - 1, R, db, n, c, T)
  PROVE  /\ Follows(PublishLine(s).list, PublishedFiles(T), db, n, PublishedAs(T, db))
         /\ PublishGoing(PublishLine(s), k, R, db, n, c, T) \/ PublishDone(PublishLine(s), R, n, c)
<1> DEFINE F == PublishedFiles(T)  Rel == PublishedAs(T, db)  r == PublishLine(s)
<1>1. /\ R \in [0..n -> Seq(T)] /\ R[n] = <<>>
      /\ \A i \in 1..n : R[i - 1] = FileThen(db[i], Cons(Newline, R[i]))
  BY DEF IsPublish
<1>2. /\ k - 1 <= n /\ Len(s.list) = k - 1 /\ Len(R[0]) - Len(R[k - 1]) >= k - 1
      /\ c >= Len(R[0]) - Len(R[k - 1])
      /\ s.text = Cut(R[k - 1], c - (Len(R[0]) - Len(R[k - 1])))
  BY DEF PublishGoing
<1>3. /\ k - 1 \in 0..n /\ Len(R[0]) \in Nat /\ Len(R[k - 1]) \in Nat
      /\ c - (Len(R[0]) - Len(R[k - 1])) \in Nat
  <2>1. k - 1 \in 0..n /\ 0 \in 0..n
    BY <1>2
  <2>2. Len(R[0]) \in Nat /\ Len(R[k - 1]) \in Nat
    BY <1>1, <2>1, LenProperties
  <2> HIDE DEF F, Rel, r
  <2> QED BY <1>2, <2>1, <2>2
<1>4. CASE k - 1 = n
  <2>1. R[k - 1] = <<>> /\ Len(R[k - 1]) = 0
    BY <1>1, <1>4
  <2>2. s.text = <<>>
    <3>1. Cut(<<>>, c - (Len(R[0]) - Len(R[k - 1]))) = <<>>
      <4> DEFINE m == c - (Len(R[0]) - Len(R[k - 1]))  e == <<>>
      <4>1. m \in Nat /\ e \in Seq(T) /\ Len(e) = 0 /\ m >= Len(e)
        BY <1>3, EmptySeq
      <4> HIDE DEF m, e
      <4>2. Cut(e, m) = e
        BY <4>1, CutFacts
      <4> QED BY <4>2 DEF m, e
    <3> QED BY <1>2, <2>1, <3>1
  <2>3. r = [s EXCEPT !.text = <<>>]
    BY <2>2, NoFields DEF PublishLine
  <2>4. r.text = <<>> /\ r.list = s.list
    BY <2>3
  <2>5. PublishDone(r, R, n, c)
    BY <1>2, <1>4, <2>4 DEF PublishDone
  <2> QED BY <2>4, <2>5
<1>5. CASE k - 1 # n
  <2>1. k \in 1..n /\ k \in 0..n /\ k - 1 + 1 = k
    BY <1>2, <1>5
  <2> DEFINE f == db[k]  u == R[k]  m == c - (Len(R[0]) - Len(R[k - 1]))
             line == FileThen(f, Cons(Newline, u))  l == Len(line) - Len(u)
  <2>2. /\ IsShared(f, T) /\ IsTame(f.name) /\ u \in Seq(T) /\ R[k - 1] = line /\ m \in Nat
        /\ f \in ToSet(db)
    <3>1. f \in ToSet(db)
      BY <2>1 DEF ToSet
    <3> QED BY <1>1, <1>3, <2>1, <3>1
  <2>3. s = [text |-> Cut(line, m), list |-> s.list]
    BY <1>2, <2>2
  <2>4. l \in Nat \ {0} /\ PublishRead(s, r, f, u, m, l)
    <3> DEFINE g == f  v == u  list == s.list
    <3>1. IsShared(g, T) /\ IsTame(g.name) /\ v \in Seq(T) /\ m \in Nat
      BY <2>2
    <3> HIDE DEF g, v, m, list
    <3>2. LET x == FileThen(g, Cons(Newline, v))
              y == Len(x) - Len(v)
              z == [text |-> Cut(x, m), list |-> list]
          IN  /\ x \in Seq(T) /\ y \in Nat \ {0}
              /\ PublishRead(z, PublishLine(z), g, v, m, y)
      BY <3>1, PublishLineReads
    <3> QED BY <2>3, <3>2 DEF g, v, list
  <2>5. Len(u) \in Nat /\ Len(R[k - 1]) = l + Len(u)
    <3>1. Len(u) \in Nat /\ Len(line) = Len(R[k - 1])
      BY <2>2, LenProperties
    <3> HIDE DEF u, line
    <3> QED BY <1>3, <3>1
  <2> HIDE DEF f, l, m, line, r, u, F, Rel
  <2>6. CASE m >= l
    <3>1. PICK z \in Numbers \cup {Zero} :
            /\ ~ Has(f.name, {Semicolon}) => z = f.size
            /\ r.list = Append(s.list, [hash |-> f.hash, name |-> NameOf(f.name), size |-> z])
      BY <2>4, <2>6 DEF PublishRead
    <3>2. r.text = Cut(u, m - l)
      BY <2>4, <2>6 DEF PublishRead
    <3> DEFINE g == [hash |-> f.hash, name |-> NameOf(f.name), size |-> z]
    <3>3. NameOf(f.name) \in Seq(T) /\ f.hash \in Seq(T)
      <4> DEFINE q == f.name
      <4>1. q \in Seq(T) /\ f.hash \in Seq(T)
        BY <2>2 DEF IsShared
      <4> HIDE DEF q
      <4>2. Has(q, {Semicolon}) => Before(q, {Semicolon}) \in Seq(T)
        BY <4>1, SplitAt
      <4>3. NameOf(q) \in Seq(T)
        BY <4>1, <4>2, StripType DEF NameOf
      <4> QED BY <4>1, <4>3 DEF q
    <3>4. g \in F
      BY <3>3 DEF F, PublishedFiles
    <3>5. ReadAs(g, f)
      BY <3>1 DEF ReadAs
    <3>6. <<g, f>> \in Rel
      BY <2>2, <3>4, <3>5 DEF Rel, F, PublishedAs
    <3>7. r.list = Append(s.list, g)
      BY <3>1
    <3> HIDE DEF g
    <3>8. /\ Follows(Append(s.list, g), F, db, n, Rel)
          /\ Len(Append(s.list, g)) = Len(s.list) + 1
      <4>1. Follows(s.list, F, db, n, Rel)
        BY DEF F, Rel
      <4>2. Len(s.list) + 1 = k /\ Len(s.list) + 1 <= n /\ db[k] = f
        BY <1>2, <2>1 DEF f
      <4>3. <<g, db[Len(s.list) + 1]>> \in Rel
        BY <3>6, <4>2
      <4> QED BY <3>4, <4>1, <4>2, <4>3, FollowsMore
    <3>9. Len(r.list) = k
      BY <1>2, <2>1, <3>7, <3>8
    <3>10. /\ k <= n /\ Len(R[0]) - Len(R[k]) >= k /\ c >= Len(R[0]) - Len(R[k])
           /\ m - l = c - (Len(R[0]) - Len(R[k]))
      <4>1. Len(R[k]) = Len(u) /\ m = c - (Len(R[0]) - Len(R[k - 1]))
        BY DEF u, m
      <4> DEFINE before == Len(R[0])  now == Len(R[k - 1])  next == Len(R[k])
      <4>2. before \in Nat /\ now \in Nat /\ before - now >= k - 1
        BY <1>2, <1>3
      <4>3. next \in Nat /\ now = l + next
        BY <2>5, <4>1
      <4>4. l \in Nat \ {0} /\ k \in 1..n /\ m >= l
        BY <2>1, <2>4, <2>6
      <4> HIDE DEF before, now, next
      <4>5. /\ k <= n /\ before - next >= k /\ c >= before - next
            /\ c - (before - now) - l = c - (before - next)
        <5>1. c - (before - now) >= l
          BY <4>1, <4>4 DEF before, now
        <5> QED BY <4>2, <4>3, <4>4, <5>1, TurnCount
      <4> QED BY <4>1, <4>5 DEF before, now, next
    <3>11. r.text = Cut(R[k], c - (Len(R[0]) - Len(R[k])))
      BY <3>2, <3>10 DEF u
    <3>12. PublishGoing(r, k, R, db, n, c, T)
      BY <3>9, <3>10, <3>11 DEF PublishGoing
    <3> QED BY <3>7, <3>8, <3>12 DEF r, F, Rel
  <2>7. CASE m < l
    <3>1. r.text = <<>> /\ r.list = s.list
      BY <2>4, <2>7 DEF PublishRead
    <3>2. ~ (c >= Len(R[0]))
      <4>1. m = c - (Len(R[0]) - Len(R[k - 1]))
        BY DEF m
      <4> DEFINE x == Len(R[0])  y == Len(R[k - 1])  z == Len(u)
      <4>2. /\ x \in Nat /\ y \in Nat /\ z \in Nat /\ l \in Nat /\ y = l + z
            /\ m = c - (x - y) /\ m < l
        BY <1>3, <2>4, <2>5, <2>7, <4>1
      <4> HIDE DEF x, y, z
      <4>3. ~ (c >= x)
        BY <4>2
      <4> QED BY <4>3 DEF x
    <3>3. PublishDone(r, R, n, c)
      BY <3>1, <3>2 DEF PublishDone
    <3> QED BY <3>1, <3>3 DEF r, F, Rel
  <2>8. m >= l \/ m < l
    BY <2>2, <2>4
  <2> QED BY <2>6, <2>7, <2>8
<1> QED BY <1>4, <1>5

\* dm_deserialize_publish reads the first files that dm_publish printed, if their
\* names are tame, each under what is left of its name, and all of them if the text
\* was not cut.
THEOREM PublishReads ==
  ASSUME NEW T, IsTokens(T), NEW db, NEW n \in Nat, n = Len(db), DOMAIN db = 1..n,
         \A k \in 1..n : IsShared(db[k], T) /\ IsTame(db[k].name),
         NEW R, IsPublish(R, db, n, T), NEW c \in Nat
  PROVE  /\ Follows(PublishLines(Cut(R[0], c)), PublishedFiles(T), db, n, PublishedAs(T, db))
         /\ c >= Len(R[0]) => Len(PublishLines(Cut(R[0], c))) = n
<1> DEFINE text == Cut(R[0], c)  N == Len(text)  F == PublishedFiles(T)
           Rel == PublishedAs(T, db)  A == [text : Seq(T), list : Seq(F)]
<1>1. /\ R \in [0..n -> Seq(T)] /\ R[n] = <<>>
      /\ \A i \in 1..n : R[i - 1] = FileThen(db[i], Cons(Newline, R[i]))
  BY DEF IsPublish
<1>2. R[0] \in Seq(T) /\ Len(R[0]) \in Nat
  <2>1. 0 \in 0..n
    OBVIOUS
  <2> QED BY <1>1, <2>1, LenProperties
<1>3. text \in Seq(T) /\ N \in Nat /\ N = IF c <= Len(R[0]) THEN c ELSE Len(R[0])
  <2>1. text \in Seq(T) /\ Len(text) = IF c <= Len(R[0]) THEN c ELSE Len(R[0])
    BY <1>2, CutFacts
  <2> QED BY <2>1, LenProperties
<1>a. R[0] = R[0] /\ text = Cut(R[0], c)
  OBVIOUS
<1> HIDE DEF text
<1>b. N = Len(text)
  OBVIOUS
<1> HIDE DEF N
<1>4. PICK after : IsPublishRead(text, after, N)
  BY <1>3, <1>b, PublishLoop
<1>5. /\ PublishLines(text) = after[N].list /\ after[0] = [text |-> text, list |-> <<>>]
      /\ \A k \in 1..N : after[k] = PublishLine(after[k - 1])
  BY <1>4 DEF IsPublishRead
<1> DEFINE Good(s, k) == /\ s \in A /\ Follows(s.list, F, db, n, Rel)
                         /\ PublishGoing(s, k, R, db, n, c, T) \/ PublishDone(s, R, n, c)
           S == {k \in 0..N : Good(after[k], k)}
<1>6. 0 \in S
  <2> DEFINE e == <<>>  s == after[0]
  <2>1. /\ e \in Seq(T) /\ e \in Seq(F) /\ Len(e) = 0 /\ after[0] = [text |-> text, list |-> e]
        /\ 0 \in 0..N
    BY <1>3, <1>5, EmptySeq
  <2> HIDE DEF e, F, Rel
  <2>2. s.text = text /\ s.list = e /\ s \in [text : Seq(T), list : Seq(F)]
    BY <1>3, <2>1
  <2> HIDE DEF s
  <2>3. Follows(s.list, F, db, n, Rel)
    <3>1. \A k \in 1..Len(e) : FALSE
      BY <2>1
    <3> QED BY <2>1, <2>2, <3>1 DEF Follows
  <2>4. PublishGoing(s, 0, R, db, n, c, T)
    <3>1. c - (Len(R[0]) - Len(R[0])) = c /\ Len(R[0]) - Len(R[0]) = 0
      BY <1>2
    <3> QED BY <1>2, <1>a, <2>1, <2>2, <3>1 DEF PublishGoing
  <2>5. Good(s, 0)
    BY <2>2, <2>3, <2>4
  <2> HIDE DEF Good
  <2> QED BY <2>1, <2>5 DEF s
<1>7. ASSUME NEW k \in 1..N, k - 1 \in S PROVE k \in S
  <2> DEFINE s == after[k - 1]  r == PublishLine(s)
  <2>1. Good(s, k - 1) /\ after[k] = r /\ k \in 0..N /\ k \in Nat \ {0}
    BY <1>3, <1>5, <1>7
  <2>2. /\ s \in [text : Seq(T), list : Seq(F)] /\ Follows(s.list, F, db, n, Rel)
        /\ PublishGoing(s, k - 1, R, db, n, c, T) \/ PublishDone(s, R, n, c)
    BY <2>1
  <2> HIDE DEF s, F, Rel
  <2>3. r \in [text : Seq(T), list : Seq(F)]
    <3>1. ReadFiles(T) \subseteq F
      BY DEF F, ReadFiles, PublishedFiles
    <3> QED BY <2>2, <3>1, PublishLineType
  <2>4. /\ Follows(r.list, F, db, n, Rel)
        /\ PublishGoing(r, k, R, db, n, c, T) \/ PublishDone(r, R, n, c)
    <3>1. CASE PublishGoing(s, k - 1, R, db, n, c, T)
      <4>1. /\ Follows(PublishLine(s).list, PublishedFiles(T), db, n, PublishedAs(T, db))
            /\ \/ PublishGoing(PublishLine(s), k, R, db, n, c, T)
               \/ PublishDone(PublishLine(s), R, n, c)
        BY <2>1, <2>2, <3>1, PublishTurn DEF F, Rel
      <4> QED BY <4>1 DEF F, Rel
    <3>2. CASE PublishDone(s, R, n, c)
      <4>1. s.text = <<>> /\ (c >= Len(R[0]) => Len(s.list) = n)
        BY <3>2 DEF PublishDone
      <4>2. r = [s EXCEPT !.text = <<>>]
        BY <4>1, NoFields DEF PublishLine
      <4>3. r.text = <<>> /\ r.list = s.list
        BY <2>2, <4>2
      <4> HIDE DEF r
      <4> QED BY <2>2, <4>1, <4>3 DEF PublishDone
    <3> QED BY <2>2, <3>1, <3>2
  <2>5. Good(r, k)
    <3> HIDE DEF r
    <3> QED BY <2>3, <2>4
  <2> HIDE DEF Good, r
  <2> QED BY <2>1, <2>5
<1>8. Good(after[N], N)
  <2> HIDE DEF Good
  <2>1. \A k \in 0..N : k \in S
    <3> HIDE DEF S
    <3> QED BY <1>3, <1>6, <1>7, InductionTo
  <2> QED BY <1>3, <2>1
<1> DEFINE s == after[N]
<1>9. /\ Follows(s.list, F, db, n, Rel)
      /\ PublishGoing(s, N, R, db, n, c, T) \/ PublishDone(s, R, n, c)
  BY <1>8
<1> HIDE DEF s
<1>10. ASSUME c >= Len(R[0]), PublishGoing(s, N, R, db, n, c, T) PROVE Len(s.list) = n
  <2>1. N <= n /\ Len(s.list) = N /\ Len(R[0]) - Len(R[N]) >= N
    BY <1>10 DEF PublishGoing
  <2>2. N = Len(R[0]) /\ N \in 0..n
    BY <1>2, <1>3, <1>10, <2>1
  <2>3. Len(R[N]) \in Nat
    BY <1>1, <2>2, LenProperties
  <2>4. Len(R[N]) = 0
    <3> DEFINE x == Len(R[0])  y == Len(R[N])
    <3>1. x \in Nat /\ y \in Nat /\ N = x /\ x - y >= N
      BY <1>2, <2>1, <2>2, <2>3
    <3> HIDE DEF x, y
    <3>2. y = 0
      BY <3>1
    <3> QED BY <3>2 DEF y
  <2>5. CASE N < n
    <3> DEFINE i == N + 1
    <3>1. i \in 1..n /\ i \in 0..n /\ i - 1 = N
      BY <1>3, <2>5
    <3> HIDE DEF i
    <3>2. R[N] = FileThen(db[i], Cons(Newline, R[i])) /\ R[i] \in Seq(T)
      BY <1>1, <3>1
    <3> DEFINE f == db[i]  u == R[i]
    <3>3. IsShared(f, T) /\ IsTame(f.name) /\ u \in Seq(T)
      BY <3>1, <3>2
    <3> HIDE DEF f, u
    <3>4. Len(FileThen(f, Cons(Newline, u))) - Len(u) \in Nat \ {0}
      <4>1. 0 \in Nat
        OBVIOUS
      <4> QED BY <3>3, <4>1, PublishLineReads
    <3>5. Len(u) \in Nat
      BY <3>3, LenProperties
    <3> QED BY <2>4, <3>2, <3>4, <3>5 DEF f, u
  <2> QED BY <1>3, <2>1, <2>5
<1>11. c >= Len(R[0]) => Len(s.list) = n
  BY <1>9, <1>10 DEF PublishDone
<1> QED BY <1>5, <1>9, <1>11 DEF s, text

-----------------------------------------------------------------------------
(* Reading the hosts of a line.                                            *)

HostsAfter(text, after, n) ==
  after = [k \in 0..n |-> IF k = 0 THEN [text |-> text, hosts |-> <<>>, end |-> "more"]
                          ELSE NextHost(after[k - 1])]

IsHostsRead(text, after, n) ==
  /\ HostsOf(text) = after[n]
  /\ after[0] = [text |-> text, hosts |-> <<>>, end |-> "more"]
  /\ \A k \in 1..n : after[k] = NextHost(after[k - 1])

LEMMA HostsLoop ==
  ASSUME NEW text, NEW n \in Nat, n = Len(text) + 1
  PROVE  \E after : IsHostsRead(text, after, n)
<1> DEFINE Is(w, m) == HostsAfter(text, w, m)
           S == {m \in 0..n : \E w : Is(w, m)}
           start == [text |-> text, hosts |-> <<>>, end |-> "more"]
<1>1. 0 \in S
  <2>1. Is([k \in 0..0 |-> start], 0)
    BY DEF HostsAfter
  <2> HIDE DEF Is
  <2> QED BY <2>1
<1>2. ASSUME NEW m \in 1..n, m - 1 \in S PROVE m \in S
  <2>1. m \in 0..n /\ m \in Nat /\ m # 0
    OBVIOUS
  <2>2. PICK w : Is(w, m - 1)
    BY <1>2
  <2> DEFINE v == [k \in 0..m |-> IF k = m THEN NextHost(w[m - 1]) ELSE w[k]]
  <2>3. w = [k \in 0..(m - 1) |-> IF k = 0 THEN start ELSE NextHost(w[k - 1])]
    BY <2>2 DEF HostsAfter
  <2> HIDE DEF start
  <2>4. \A k \in 0..(m - 1) : w[k] = IF k = 0 THEN start ELSE NextHost(w[k - 1])
    BY <2>3
  <2>5. ASSUME NEW k \in 0..m
        PROVE  v[k] = IF k = 0 THEN start ELSE NextHost(v[k - 1])
    <3>1. /\ k # m => k \in 0..(m - 1)
          /\ k # 0 => k - 1 \in 0..m /\ k - 1 # m
      BY <2>1
    <3>2. k # 0 => v[k - 1] = w[k - 1]
      BY <3>1
    <3>3. CASE k = m
      BY <2>1, <3>2, <3>3
    <3>4. CASE k # m
      BY <2>4, <3>1, <3>2, <3>4
    <3> QED BY <3>3, <3>4
  <2>6. v = [k \in 0..m |-> v[k]]
    OBVIOUS
  <2> HIDE DEF v
  <2>7. Is(v, m)
    BY <2>5, <2>6 DEF HostsAfter, start
  <2> HIDE DEF Is
  <2> QED BY <2>1, <2>7
<1>3. n \in S
  <2> HIDE DEF S
  <2>1. \A k \in 0..n : k \in S
    BY <1>1, <1>2, InductionTo
  <2> QED BY <2>1
<1> DEFINE after == CHOOSE w : Is(w, n)
<1>4. Is(after, n)
  <2> HIDE DEF Is
  <2> QED BY <1>3
<1>5. HostsOf(text) = after[n]
  BY DEF HostsOf, HostsAfter
<1> HIDE DEF after, start
<1>6. \A k \in 0..n : after[k] = IF k = 0 THEN start ELSE NextHost(after[k - 1])
  BY <1>4 DEF HostsAfter, start
<1>7. after[0] = start /\ \A k \in 1..n : after[k] = NextHost(after[k - 1])
  BY <1>6
<1>8. IsHostsRead(text, after, n)
  BY <1>5, <1>7 DEF IsHostsRead, start
<1> QED BY <1>8

\* The loop may end in its first turn.
LEMMA HostsEnd ==
  ASSUME NEW text, Len(text) \in Nat, NEW r,
         r = NextHost([text |-> text, hosts |-> <<>>, end |-> "more"]), r.end # "more"
  PROVE  HostsOf(text) = r
<1> DEFINE n == Len(text) + 1  start == [text |-> text, hosts |-> <<>>, end |-> "more"]
<1>1. n \in Nat /\ n # 0 /\ n = Len(text) + 1 /\ r = NextHost(start)
  OBVIOUS
<1> HIDE DEF n
<1>2. PICK after : IsHostsRead(text, after, n)
  BY <1>1, HostsLoop
<1>3. /\ HostsOf(text) = after[n] /\ after[0] = start
      /\ \A k \in 1..n : after[k] = NextHost(after[k - 1])
  BY <1>2 DEF IsHostsRead
<1>4. NextHost(r) = r
  BY DEF NextHost
<1> HIDE DEF start
<1> DEFINE S == {k \in 0..n : IF k = 0 THEN after[k] = start ELSE after[k] = r}
<1>5. 0 \in S
  BY <1>1, <1>3
<1>6. ASSUME NEW k \in 1..n, k - 1 \in S PROVE k \in S
  <2>1. k \in 0..n /\ k # 0 /\ after[k] = NextHost(after[k - 1])
    BY <1>1, <1>3
  <2>2. after[k - 1] = start \/ after[k - 1] = r
    BY <1>6
  <2>3. after[k] = r
    BY <1>1, <1>4, <2>1, <2>2
  <2> QED BY <2>1, <2>3
<1>7. n \in S
  <2> HIDE DEF S
  <2>1. \A k \in 0..n : k \in S
    BY <1>1, <1>5, <1>6, InductionTo
  <2> QED BY <1>1, <2>1
<1> QED BY <1>1, <1>3, <1>7

HostsAre(r, n, h) ==
  /\ n > Len(h) => r.hosts = <<h>> /\ r.end = "line"
  /\ n <= Len(h) => r.hosts = <<>> /\ r.end \in {"none", "text"}

LEMMA HostsRead ==
  ASSUME NEW T, IsTokens(T), NEW h \in Seq(T), h # <<>>, ~ Has(h, {Comma, Newline}),
         NEW u \in Seq(T), NEW n \in Nat
  PROVE  HostsAre(HostsOf(Cut(Joined(h, Newline, u), n)), n, h)
<1> DEFINE j == Joined(h, Newline, u)  t == Cut(j, n)  S == {Comma, Newline}
           start == [text |-> t, hosts |-> <<>>, end |-> "more"]  r == NextHost(start)
<1>1. Newline \in T /\ Newline \in S /\ ~ Has(h, S)
  BY SeparatorTokens
<1>2. j \in Seq(T) /\ IsJoined(j, h, Newline, u)
  BY <1>1, JoinFacts
<1>3. Len(h) \in Nat /\ Len(h) > 0 /\ Len(j) \in Nat /\ Len(j) > Len(h)
  <2>1. Len(h) \in Nat /\ Len(u) \in Nat /\ Len(j) = Len(h) + 1 + Len(u)
    BY <1>2 DEF IsJoined
  <2>2. Len(h) # 0
    BY EmptySeq
  <2> HIDE DEF j
  <2> QED BY <2>1, <2>2
<1> HIDE DEF S
<1>4. IsSplit(t, h, Newline, u, n, S)
  BY <1>1, CutSplit
<1> HIDE DEF j
<1>5. t \in Seq(T) /\ Len(t) = IF n <= Len(j) THEN n ELSE Len(j)
  BY <1>2, CutFacts
<1> HIDE DEF t
<1>6. Len(t) \in Nat /\ (t = <<>> <=> n = 0)
  <2>1. t = <<>> <=> Len(t) = 0
    BY <1>5, EmptySeq
  <2> QED BY <1>3, <1>5, <2>1
<1>7. start.text = t /\ start.hosts = <<>> /\ start.end = "more"
  OBVIOUS
<1> HIDE DEF start
<1>8. CASE n > Len(h)
  <2>1. Has(t, S) /\ t[Len(h) + 1] = Newline /\ Before(t, S) = h
    BY <1>4, <1>8 DEF IsSplit
  <2>2. t # <<>>
    BY <1>3, <1>6, <1>8
  <2>3. r = [text  |-> Strip(After(start.text, S)),
             hosts |-> IF h = <<>> THEN start.hosts ELSE Append(start.hosts, h),
             end   |-> IF start.text[Len(h) + 1] = Newline THEN "line" ELSE "more"]
    BY <1>7, <2>1, <2>2 DEF NextHost, S
  <2>4. Append(<<>>, h) = <<h>>
    OBVIOUS
  <2>5. r.hosts = <<h>> /\ r.end = "line"
    BY <1>7, <2>1, <2>3, <2>4
  <2> HIDE DEF r
  <2>6. r = NextHost([text |-> t, hosts |-> <<>>, end |-> "more"])
    BY DEF r, start
  <2>7. HostsOf(t) = r
    BY <1>6, <2>5, <2>6, HostsEnd
  <2>8. ~ (n <= Len(h))
    BY <1>3, <1>8
  <2> QED BY <2>5, <2>7, <2>8 DEF HostsAre, t, j
<1>9. CASE n <= Len(h)
  <2>1. ~ Has(t, S)
    BY <1>4, <1>9 DEF IsSplit
  <2>2. r = [start EXCEPT !.end = "text"] \/ r = [start EXCEPT !.end = "none"]
    BY <1>7, <2>1 DEF NextHost, S
  <2>3. r.hosts = <<>> /\ r.end \in {"none", "text"}
    BY <1>7, <2>2 DEF start
  <2> HIDE DEF r
  <2>4. r = NextHost([text |-> t, hosts |-> <<>>, end |-> "more"])
    BY DEF r, start
  <2>5. HostsOf(t) = r
    BY <1>6, <2>3, <2>4, HostsEnd
  <2>6. ~ (n > Len(h))
    BY <1>3, <1>9
  <2> QED BY <2>3, <2>5, <2>6 DEF HostsAre, t, j
<1> QED BY <1>3, <1>8, <1>9

-----------------------------------------------------------------------------
(* Reading a line of what dm_filelistres prints.                           *)

IsReadable(f, T) ==
  /\ IsListed(f, T) /\ ~ Has(f.hash, {Colon}) /\ ~ Has(f.name, {Semicolon})
  /\ Strip(f.name) = f.name /\ f.size \in Numbers \cup {Zero}
  /\ \A p \in ToSet(f.peers) : p \notin Separators

LEMMA HostsClean ==
  ASSUME NEW T, IsTokens(T), NEW peers \in Seq(T), peers # <<>>,
         \A p \in ToSet(peers) : p \notin Separators
  PROVE  /\ Hosts(peers) \in Seq(T) /\ Hosts(peers) # <<>> /\ Hosts(peers)[1] # Blank
         /\ ~ Has(Hosts(peers), {Comma, Newline}) /\ ~ Has(Hosts(peers), {Newline})
<1> DEFINE H == Hosts(peers)
<1>1. /\ H \in Seq(T) /\ Len(peers) \in Nat \ {0} /\ Len(H) = 3 * Len(peers) - 2
      /\ \A q \in 0..(Len(peers) - 1) : H[3 * q + 1] = peers[q + 1]
  <2> DEFINE All == /\ H \in Seq(T) /\ Len(peers) \in Nat \ {0} /\ Len(H) = 3 * Len(peers) - 2
                    /\ \A q \in 0..(Len(peers) - 1) : H[3 * q + 1] = peers[q + 1]
  <2>1. All
    BY HostsFacts
  <2> QED BY <2>1
<1>2. \A k \in 1..Len(H) : H[k] \in ToSet(peers) \cup {Semicolon, Blank}
  BY HostsFacts
<1>3. /\ Comma \in Separators /\ Newline \in Separators /\ Blank \in Separators
      /\ Semicolon # Comma /\ Semicolon # Newline /\ Blank # Comma /\ Blank # Newline
  BY SeparatorsDiffer
<1> HIDE DEF H
<1>4. \A k \in 1..Len(H) : H[k] # Comma /\ H[k] # Newline
  BY <1>2, <1>3
<1>5. DOMAIN H = 1..Len(H)
  BY <1>1, LenProperties
<1>6. ~ Has(H, {Comma, Newline}) /\ ~ Has(H, {Newline})
  BY <1>4, <1>5 DEF Has
<1>7. H[1] = peers[1] /\ Len(H) # 0
  <2>1. 0 \in 0..(Len(peers) - 1) /\ 3 * 0 + 1 = 1 /\ 0 + 1 = 1
    BY <1>1
  <2>2. H[3 * 0 + 1] = peers[0 + 1]
    BY <1>1, <2>1
  <2> QED BY <1>1, <2>1, <2>2
<1>8. peers[1] \in ToSet(peers)
  <2>1. 1 \in DOMAIN peers
    BY <1>1, LenProperties
  <2> QED BY <2>1 DEF ToSet
<1>9. H # <<>>
  <2>1. Len(<<>>) = 0
    BY EmptySeq
  <2> QED BY <1>7, <2>1
<1> QED BY <1>1, <1>3, <1>6, <1>7, <1>8, <1>9 DEF H

ListRead(s, r, f, u, n, l) ==
  LET g(peers) == [hash |-> f.hash, name |-> f.name, size |-> f.size, peers |-> peers] IN
  /\ n >= l => /\ r.text = Cut(u, n - l) /\ r.null = FALSE
               /\ r.list = Append(s.list, g(<<Hosts(f.peers)>>))
  /\ n < l => r.text = <<>> /\ (r.list = s.list \/ r.list = Append(s.list, g(<<>>)))

LEMMA ListLineReads ==
  ASSUME NEW T, IsTokens(T), NEW f, IsReadable(f, T), NEW u \in Seq(T), NEW n \in Nat,
         NEW list, NEW null
  PROVE  LET line == LineThen(f, u)
             l    == Len(line) - Len(u)
             s    == [text |-> Cut(line, n), list |-> list, null |-> null]
         IN  /\ line \in Seq(T) /\ l \in Nat \ {0}
             /\ ListRead(s, ListLine(s), f, u, n, l)
<1> DEFINE line == LineThen(f, u)  l == Len(line) - Len(u)
           t == Cut(line, n)  s == [text |-> t, list |-> list, null |-> null]
           h == f.hash  q == f.name  z == f.size  H == Hosts(f.peers)
           j == Joined(H, Newline, u)  x == Cons(Blank, j)  v == Cons(Semicolon, x)
           w == Cons(Blank, Cons(z, v))
<1>1. /\ h \in Seq(T) /\ q \in Seq(T) /\ z \in Numbers \cup {Zero}
      /\ f.peers \in Seq(T) /\ f.peers # <<>> /\ \A p \in ToSet(f.peers) : p \notin Separators
      /\ ~ Has(h, {Colon}) /\ ~ Has(q, {Semicolon}) /\ Strip(q) = q
  BY DEF IsReadable, IsListed
<1>2. H \in Seq(T) /\ H # <<>> /\ H[1] # Blank /\ ~ Has(H, {Comma, Newline}) /\ ~ Has(H, {Newline})
  <2> DEFINE p == f.peers
  <2>1. p \in Seq(T) /\ p # <<>> /\ \A y \in ToSet(p) : y \notin Separators
    BY <1>1
  <2> HIDE DEF p
  <2>2. /\ Hosts(p) \in Seq(T) /\ Hosts(p) # <<>> /\ Hosts(p)[1] # Blank
        /\ ~ Has(Hosts(p), {Comma, Newline}) /\ ~ Has(Hosts(p), {Newline})
    BY <2>1, HostsClean
  <2> QED BY <2>2 DEF p
<1>3. /\ Colon \in T /\ Semicolon \in T /\ Blank \in T /\ Newline \in T /\ Semicolon # Blank
  BY SeparatorTokens, SeparatorsDiffer
<1> HIDE DEF H
<1>4. line = Joined(h, Colon, Cons(Blank, Joined(q, Semicolon, w)))
  BY DEF LineThen, FileThen, H
<1> HIDE DEF h, q, z
<1>5. z \in T /\ z # Semicolon /\ z # Blank
  <2>1. z \in T /\ z \notin Separators
    BY <1>1, NumbersDiffer
  <2>2. Semicolon \in Separators /\ Blank \in Separators
    BY SeparatorsDiffer
  <2> QED BY <2>1, <2>2
<1>6. /\ j \in Seq(T) /\ IsJoined(j, H, Newline, u) /\ j[1] # Blank
  <2>1. j \in Seq(T) /\ IsJoined(j, H, Newline, u)
    BY <1>2, <1>3, JoinFacts
  <2>2. 1 \in 1..Len(H)
    <3>1. Len(H) \in Nat /\ Len(H) # 0
      BY <1>2, EmptySeq, LenProperties
    <3> QED BY <3>1
  <2>3. j[1] = H[1]
    BY <2>1, <2>2 DEF IsJoined
  <2> QED BY <1>2, <2>1, <2>3
<1>7. Len(j) = Len(H) + 1 + Len(u) /\ Len(H) \in Nat /\ Len(u) \in Nat
  BY <1>6 DEF IsJoined
<1> HIDE DEF j, line
<1>8. x \in Seq(T) /\ Len(x) = Len(j) + 1 /\ Strip(x) = j
  <2>1. x \in Seq(T) /\ Len(x) = Len(j) + 1 /\ Strip(x) = Strip(j)
    BY <1>3, <1>6, ConsFacts, StripCons
  <2>2. Strip(j) = j
    BY <1>6, StripNothing
  <2> QED BY <2>1, <2>2
<1> HIDE DEF x
<1> DEFINE y == Joined(One(z), Semicolon, x)
<1>9. y = Cons(z, v) /\ y \in Seq(T) /\ Len(y) = Len(x) + 2 /\ Len(One(z)) = 1 /\ One(z) \in Seq(T)
  <2>1. v \in Seq(T) /\ Len(v) = Len(x) + 1
    BY <1>3, <1>8, ConsFacts
  <2>2. Cat(One(z), v) = Cons(z, v)
    BY <1>5, <2>1, CatCons
  <2>3. Cons(z, v) \in Seq(T) /\ Len(Cons(z, v)) = Len(v) + 1
    BY <1>5, <2>1, ConsFacts
  <2>4. Len(x) + 1 + 1 = Len(x) + 2
    BY <1>8, LenProperties
  <2>5. y = Cat(One(z), v)
    BY JoinedIsCat
  <2>6. Len(One(z)) = 1 /\ One(z) \in Seq(T)
    BY <1>5 DEF One
  <2> HIDE DEF y, v
  <2> QED BY <2>1, <2>2, <2>3, <2>4, <2>5, <2>6
<1>10. w \in Seq(T) /\ Strip(w) = y
  <2>1. w \in Seq(T) /\ Strip(w) = Strip(Cons(z, v))
    <3>1. Cons(z, v) \in Seq(T)
      BY <1>9
    <3> HIDE DEF v
    <3> QED BY <1>3, <3>1, ConsFacts, StripCons
  <2>2. v \in Seq(T)
    BY <1>3, <1>8, ConsFacts
  <2>3. Cons(z, v)[1] = z
    <3> HIDE DEF v
    <3> QED BY <1>5, <2>2, ConsFacts
  <2>4. Strip(Cons(z, v)) = Cons(z, v)
    <3>1. Cons(z, v) \in Seq(T)
      BY <1>9
    <3> HIDE DEF v
    <3> QED BY <1>5, <2>3, <3>1, StripNothing
  <2> QED BY <1>9, <2>1, <2>4
<1> HIDE DEF w, y, v
<1>11. line \in Seq(T) /\ FieldsAre(t, h, q, w, n, Len(line))
  <2>1. ~ Has(Strip(q), {Semicolon})
    BY <1>1
  <2>2. LET c == Joined(h, Colon, Cons(Blank, Joined(q, Semicolon, w))) IN
        c \in Seq(T) /\ FieldsAre(Cut(c, n), h, q, w, n, Len(c))
    BY <1>1, <1>10, <2>1, FieldsRead
  <2> QED BY <1>4, <2>2
<1> HIDE DEF t
<1> DEFINE m == Less(n, Len(line) - Len(y))  rest == Cut(y, m)
<1>12. /\ Len(line) - Len(y) \in Nat /\ m \in Nat /\ Len(line) \in Nat
       /\ HasFields(t) => Fields(t) = [hash |-> h, name |-> q, rest |-> rest]
       /\ ~ HasFields(t) => m = 0
  BY <1>1, <1>10, <1>11, LenProperties DEF FieldsAre
<1> DEFINE k == Less(m - 2, 1)  hosts == Cut(j, k)
<1>13. m = (IF n >= Len(line) - Len(y) THEN n - (Len(line) - Len(y)) ELSE 0)
  BY DEF Less
<1>14. k = (IF m - 2 >= 1 THEN m - 2 - 1 ELSE 0)
  BY DEF Less
<1>15. Len(y) = Len(u) + Len(H) + 4
  BY <1>7, <1>8, <1>9
<1> HIDE DEF m, k
<1>16. /\ l \in Nat \ {0} /\ (n >= l => m > 1 /\ k > Len(H) /\ k - Len(H) - 1 = n - l)
       /\ n < l => ~ (m > 1 /\ k > Len(H))
  <2> DEFINE a == Len(line)  b == Len(y)  c == Len(u)  d == Len(H)
  <2>1. /\ a \in Nat /\ c \in Nat /\ d \in Nat /\ b = c + d + 4 /\ a - b \in Nat /\ m \in Nat
        /\ m = (IF n >= a - b THEN n - (a - b) ELSE 0) /\ l = a - c
    BY <1>7, <1>12, <1>13, <1>15
  <2> HIDE DEF a, b, c, l
  <2>2. /\ l \in Nat \ {0} /\ (n >= l => m > 1 /\ k > d /\ k - d - 1 = n - l)
        /\ n < l => ~ (m > 1 /\ k > d)
    <3> HIDE DEF d
    <3> QED BY <1>14, <2>1
  <2> QED BY <2>2
<1>17. l \in Nat
  BY <1>16
<1> HIDE DEF l
<1>18. ASSUME m > 1
       PROVE  /\ Has(rest, {Semicolon}) /\ strtoll(rest) = z
              /\ k \in Nat /\ Strip(After(rest, {Semicolon})) = hosts
  <2> DEFINE S == {Semicolon}
  <2>1. Semicolon \in S /\ Semicolon \in {Semicolon} /\ ~ Has(One(z), S)
    <3>1. Semicolon \in S /\ z \notin S
      BY <1>5
    <3> HIDE DEF S
    <3>2. ~ Has(One(z), S)
      BY <1>5, <3>1, TupleHas
    <3> QED BY <3>1, <3>2
  <2> HIDE DEF S
  <2>2. m \in Nat /\ m > Len(One(z))
    BY <1>9, <1>12, <1>18
  <2>3. IsRest(Cut(Joined(One(z), Semicolon, x), m), One(z), Semicolon, x, m, S)
    BY <1>3, <1>8, <1>9, <2>1, <2>2, StripAfter
  <2>4. IsRest(rest, One(z), Semicolon, x, m, S)
    BY <2>3 DEF y
  <2>5. /\ Has(rest, S) /\ Len(x) - Len(Strip(x)) \in Nat
        /\ Strip(After(rest, S)) = Cut(Strip(x), Less(m - Len(One(z)) - 1, Len(x) - Len(Strip(x))))
    BY <2>4 DEF IsRest
  <2>6. Len(x) - Len(Strip(x)) = 1 /\ m - Len(One(z)) - 1 = m - 2
    <3>1. Len(x) = Len(j) + 1 /\ Len(Strip(x)) = Len(j) /\ Len(j) \in Nat
      BY <1>6, <1>8, LenProperties
    <3> QED BY <1>9, <1>12, <3>1
  <2>7. Strip(After(rest, S)) = hosts
    BY <1>8, <2>5, <2>6 DEF k
  <2>8. k \in Nat
    BY <1>12, <1>14, <1>18
  <2>9. strtoll(Cut(Joined(One(z), Semicolon, x), m)) = z
    BY <1>1, <1>3, <1>5, <1>8, <1>12, <1>18, SizeRead
  <2> QED BY <2>5, <2>7, <2>8, <2>9 DEF S, y
<1> HIDE DEF rest, hosts
<1> DEFINE peers == HostsOf(hosts)  r == ListLine(s)
           g(p) == [hash |-> h, name |-> q, size |-> z, peers |-> p]
<1>19. ASSUME m > 1
       PROVE  /\ r.text = IF peers.end = "line" THEN After(hosts, {Newline}) ELSE <<>>
              /\ r.null = (peers.end = "text")
              /\ r.list = Append(s.list, g(peers.hosts))
  <2> DEFINE F == Fields(t)
  <2>1. HasFields(t)
    BY <1>12, <1>19
  <2>2. F.hash = h /\ F.name = q /\ F.rest = rest
    BY <1>12, <2>1
  <2>3. s.text = t /\ s.list = list
    OBVIOUS
  <2>4. HasFields(s.text) /\ Has(Fields(s.text).rest, {Semicolon}) /\ F = Fields(s.text)
        /\ Strip(After(F.rest, {Semicolon})) = hosts /\ strtoll(F.rest) = z
    BY <1>18, <1>19, <2>1, <2>2, <2>3
  <2> HIDE DEF F, s
  <2>5. r = [text |-> IF peers.end = "line" THEN After(hosts, {Newline}) ELSE <<>>,
             list |-> Append(s.list, [hash |-> F.hash, name |-> F.name, size |-> strtoll(F.rest),
                                      peers |-> peers.hosts]),
             null |-> peers.end = "text"]
    BY <2>4 DEF ListLine
  <2> QED BY <2>2, <2>4, <2>5
<1>20. ASSUME m > 1 PROVE HostsAre(peers, k, H)
  BY <1>2, <1>18, <1>20, HostsRead DEF hosts, j
<1>21. ASSUME ~ (m > 1) PROVE r.text = <<>> /\ r.list = s.list
  <2>1. ~ (HasFields(t) /\ Has(Fields(t).rest, {Semicolon}))
    <3>1. SUFFICES ASSUME HasFields(t) PROVE ~ Has(rest, {Semicolon})
      BY <1>12
    <3> DEFINE S == {Semicolon}
    <3>2. Semicolon \in S /\ ~ Has(One(z), S)
      <4>1. Semicolon \in S /\ z \notin S
        BY <1>5
      <4> HIDE DEF S
      <4>2. ~ Has(One(z), S)
        BY <1>5, <4>1, TupleHas
      <4> QED BY <4>1, <4>2
    <3> HIDE DEF S
    <3>3. IsSplit(Cut(Joined(One(z), Semicolon, x), m), One(z), Semicolon, x, m, S)
      BY <1>3, <1>8, <1>9, <1>12, <3>2, CutSplit
    <3>4. m <= Len(One(z))
      BY <1>9, <1>12, <1>21
    <3>5. ~ Has(Cut(Joined(One(z), Semicolon, x), m), S)
      BY <3>3, <3>4 DEF IsSplit
    <3> QED BY <3>5 DEF S, rest, y
  <2>2. s.text = t
    OBVIOUS
  <2>3. r = [s EXCEPT !.text = <<>>]
    BY <2>1, <2>2 DEF ListLine
  <2> QED BY <2>3
<1> HIDE DEF r, peers, g
<1>22. ASSUME n >= l PROVE ListRead(s, r, f, u, n, l)
  <2>1. m > 1 /\ k > Len(H) /\ k - Len(H) - 1 = n - l /\ ~ (n < l)
    BY <1>16, <1>17, <1>22
  <2>2. peers.hosts = <<H>> /\ peers.end = "line"
    BY <1>20, <2>1 DEF HostsAre
  <2>3. After(hosts, {Newline}) = Cut(u, n - l)
    <3> DEFINE S == {Newline}
    <3>1. Newline \in S /\ ~ Has(H, S) /\ k \in Nat
      BY <1>2, <1>18, <2>1
    <3> HIDE DEF S
    <3>2. IsSplit(Cut(Joined(H, Newline, u), k), H, Newline, u, k, S)
      BY <1>2, <1>3, <3>1, CutSplit
    <3>3. After(Cut(Joined(H, Newline, u), k), S) = Cut(u, k - Len(H) - 1)
      BY <2>1, <3>2 DEF IsSplit
    <3> QED BY <2>1, <3>3 DEF S, hosts, j
  <2>4. r.text = Cut(u, n - l) /\ r.null = FALSE /\ r.list = Append(s.list, g(<<H>>))
    BY <1>19, <2>1, <2>2, <2>3
  <2> HIDE DEF s
  <2> QED BY <2>1, <2>4 DEF ListRead, g, h, q, z, H
<1>23. ASSUME n < l PROVE ListRead(s, r, f, u, n, l)
  <2>1. ~ (n >= l)
    BY <1>17, <1>23
  <2>2. CASE m > 1
    <3>1. k <= Len(H)
      BY <1>7, <1>16, <1>18, <1>23, <2>2
    <3>2. peers.hosts = <<>> /\ peers.end \in {"none", "text"}
      BY <1>20, <2>2, <3>1 DEF HostsAre
    <3>3. r.text = <<>> /\ r.list = Append(s.list, g(<<>>))
      BY <1>19, <2>2, <3>2
    <3> HIDE DEF s
    <3> QED BY <2>1, <3>3 DEF ListRead, g, h, q, z
  <2>3. CASE ~ (m > 1)
    <3> HIDE DEF s
    <3> QED BY <1>21, <2>1, <2>3 DEF ListRead
  <2> QED BY <2>2, <2>3
<1>24. n >= l \/ n < l
  BY <1>17
<1> QED BY <1>11, <1>16, <1>22, <1>23, <1>24 DEF l, line, t, r

-----------------------------------------------------------------------------
(* Reading the lines of a list.                                            *)

ListAfter(text, after, n) ==
  after = [k \in 0..n |-> IF k = 0 THEN [text |-> text, list |-> <<>>, null |-> FALSE]
                          ELSE ListLine(after[k - 1])]

IsListRead(text, after, n) ==
  /\ ListLines(text) = after[n]
  /\ after[0] = [text |-> text, list |-> <<>>, null |-> FALSE]
  /\ \A k \in 1..n : after[k] = ListLine(after[k - 1])

LEMMA ListLinesLoop ==
  ASSUME NEW text, NEW n \in Nat, n = Len(text)
  PROVE  \E after : IsListRead(text, after, n)
<1> DEFINE Is(w, m) == ListAfter(text, w, m)
           S == {m \in 0..n : \E w : Is(w, m)}
           start == [text |-> text, list |-> <<>>, null |-> FALSE]
<1>1. 0 \in S
  <2>1. Is([k \in 0..0 |-> start], 0)
    BY DEF ListAfter
  <2> HIDE DEF Is
  <2> QED BY <2>1
<1>2. ASSUME NEW m \in 1..n, m - 1 \in S PROVE m \in S
  <2>1. m \in 0..n /\ m \in Nat /\ m # 0
    OBVIOUS
  <2>2. PICK w : Is(w, m - 1)
    BY <1>2
  <2> DEFINE v == [k \in 0..m |-> IF k = m THEN ListLine(w[m - 1]) ELSE w[k]]
  <2>3. w = [k \in 0..(m - 1) |-> IF k = 0 THEN start ELSE ListLine(w[k - 1])]
    BY <2>2 DEF ListAfter
  <2> HIDE DEF start
  <2>4. \A k \in 0..(m - 1) : w[k] = IF k = 0 THEN start ELSE ListLine(w[k - 1])
    BY <2>3
  <2>5. ASSUME NEW k \in 0..m
        PROVE  v[k] = IF k = 0 THEN start ELSE ListLine(v[k - 1])
    <3>1. /\ k # m => k \in 0..(m - 1)
          /\ k # 0 => k - 1 \in 0..m /\ k - 1 # m
      BY <2>1
    <3>2. k # 0 => v[k - 1] = w[k - 1]
      BY <3>1
    <3>3. CASE k = m
      BY <2>1, <3>2, <3>3
    <3>4. CASE k # m
      BY <2>4, <3>1, <3>2, <3>4
    <3> QED BY <3>3, <3>4
  <2>6. v = [k \in 0..m |-> v[k]]
    OBVIOUS
  <2> HIDE DEF v
  <2>7. Is(v, m)
    BY <2>5, <2>6 DEF ListAfter, start
  <2> HIDE DEF Is
  <2> QED BY <2>1, <2>7
<1>3. n \in S
  <2> HIDE DEF S
  <2>1. \A k \in 0..n : k \in S
    BY <1>1, <1>2, InductionTo
  <2> QED BY <2>1
<1> DEFINE after == CHOOSE w : Is(w, n)
<1>4. Is(after, n)
  <2> HIDE DEF Is
  <2> QED BY <1>3
<1>5. ListLines(text) = after[n]
  BY DEF ListLines, ListAfter
<1> HIDE DEF after, start
<1>6. \A k \in 0..n : after[k] = IF k = 0 THEN start ELSE ListLine(after[k - 1])
  BY <1>4 DEF ListAfter, start
<1>7. after[0] = start /\ \A k \in 1..n : after[k] = ListLine(after[k - 1])
  BY <1>6
<1>8. IsListRead(text, after, n)
  BY <1>5, <1>7 DEF IsListRead, start
<1> QED BY <1>8

\* A file of the list as it is read from its line; a line that is cut may lack its
\* peers.
ListedFiles(T) == [hash : Seq(T), name : Seq(T), size : Numbers \cup {Zero}, peers : Seq(Seq(T))]
ListedAs(T, db) ==
  {p \in ListedFiles(T) \X ToSet(db) :
     /\ p[1].hash = p[2].hash /\ p[1].name = p[2].name /\ p[1].size = p[2].size
     /\ p[1].peers = <<>> \/ p[1].peers = <<Hosts(p[2].peers)>>}

ListGoing(s, k, R, n, c) ==
  /\ k <= n /\ Len(s.list) = k /\ Len(R[0]) - Len(R[k]) >= k /\ c >= Len(R[0]) - Len(R[k])
  /\ s.text = Cut(R[k], c - (Len(R[0]) - Len(R[k]))) /\ s.null = FALSE

ListDone(s, R, n, c) ==
  /\ s.text = <<>>
  /\ c >= Len(R[0]) => Len(s.list) = n /\ s.null = FALSE

IsListState(s) == s = [text |-> s.text, list |-> s.list, null |-> s.null]

LEMMA ListLineState ==
  ASSUME NEW s, IsListState(s)
  PROVE  IsListState(ListLine(s))
<1>1. ASSUME NEW a, NEW b, NEW c PROVE IsListState([text |-> a, list |-> b, null |-> c])
  BY DEF IsListState
<1>2. IsListState([s EXCEPT !.text = <<>>])
  <2>1. [s EXCEPT !.text = <<>>] = [text |-> <<>>, list |-> s.list, null |-> s.null]
    <3> DEFINE e == <<>>
    <3> HIDE DEF e
    <3>1. [s EXCEPT !.text = e] = [text |-> e, list |-> s.list, null |-> s.null]
      BY DEF IsListState
    <3> QED BY <3>1 DEF e
  <2> QED BY <1>1, <2>1
<1> QED BY <1>1, <1>2 DEF ListLine

LEMMA ListTurn ==
  ASSUME NEW T, IsTokens(T), NEW db, NEW n \in Nat, n = Len(db), DOMAIN db = 1..n,
         \A k \in 1..n : IsReadable(db[k], T),
         NEW R, IsList(R, db, n, T), NEW c \in Nat, NEW k \in Nat \ {0},
         NEW s, IsListState(s),
         Follows(s.list, ListedFiles(T), db, n, ListedAs(T, db)),
         ListGoing(s, k - 1, R, n, c)
  PROVE  /\ Follows(ListLine(s).list, ListedFiles(T), db, n, ListedAs(T, db))
         /\ ListGoing(ListLine(s), k, R, n, c) \/ ListDone(ListLine(s), R, n, c)
<1> DEFINE F == ListedFiles(T)  Rel == ListedAs(T, db)  r == ListLine(s)
<1>1. /\ R \in [0..n -> Seq(T)] /\ R[n] = <<>>
      /\ \A i \in 1..n : R[i - 1] = LineThen(db[i], R[i])
  BY DEF IsList
<1>2. /\ k - 1 <= n /\ Len(s.list) = k - 1 /\ Len(R[0]) - Len(R[k - 1]) >= k - 1
      /\ c >= Len(R[0]) - Len(R[k - 1]) /\ s.null = FALSE
      /\ s.text = Cut(R[k - 1], c - (Len(R[0]) - Len(R[k - 1])))
  BY DEF ListGoing
<1>3. /\ k - 1 \in 0..n /\ Len(R[0]) \in Nat /\ Len(R[k - 1]) \in Nat
      /\ c - (Len(R[0]) - Len(R[k - 1])) \in Nat
  <2>1. k - 1 \in 0..n /\ 0 \in 0..n
    BY <1>2
  <2>2. Len(R[0]) \in Nat /\ Len(R[k - 1]) \in Nat
    BY <1>1, <2>1, LenProperties
  <2> HIDE DEF F, Rel, r
  <2> QED BY <1>2, <2>1, <2>2
<1>4. CASE k - 1 = n
  <2>1. R[k - 1] = <<>> /\ Len(R[k - 1]) = 0
    BY <1>1, <1>4
  <2>2. s.text = <<>>
    <3>1. Cut(<<>>, c - (Len(R[0]) - Len(R[k - 1]))) = <<>>
      <4> DEFINE m == c - (Len(R[0]) - Len(R[k - 1]))  e == <<>>
      <4>1. m \in Nat /\ e \in Seq(T) /\ Len(e) = 0 /\ m >= Len(e)
        BY <1>3, EmptySeq
      <4> HIDE DEF m, e
      <4>2. Cut(e, m) = e
        BY <4>1, CutFacts
      <4> QED BY <4>2 DEF m, e
    <3> QED BY <1>2, <2>1, <3>1
  <2>3. r = [s EXCEPT !.text = <<>>]
    BY <2>2, NoFields DEF ListLine
  <2>4. r.text = <<>> /\ r.list = s.list /\ r.null = FALSE
    <3> DEFINE a == s.list  b == s.null  e == <<>>
    <3>1. s = [text |-> s.text, list |-> a, null |-> b] /\ b = FALSE /\ r = [s EXCEPT !.text = e]
      BY <1>2, <2>3 DEF IsListState
    <3> HIDE DEF a, b, e, r
    <3>2. r.text = e /\ r.list = a /\ r.null = FALSE
      BY <3>1
    <3> QED BY <3>2 DEF a, e
  <2>5. ListDone(r, R, n, c)
    BY <1>2, <1>4, <2>4 DEF ListDone
  <2> QED BY <2>4, <2>5
<1>5. CASE k - 1 # n
  <2>1. k \in 1..n /\ k \in 0..n /\ k - 1 + 1 = k
    BY <1>2, <1>5
  <2> DEFINE f == db[k]  u == R[k]  m == c - (Len(R[0]) - Len(R[k - 1]))
             line == LineThen(f, u)  l == Len(line) - Len(u)
  <2>2. /\ IsReadable(f, T) /\ u \in Seq(T) /\ R[k - 1] = line /\ m \in Nat
        /\ f \in ToSet(db)
    <3>1. f \in ToSet(db)
      BY <2>1 DEF ToSet
    <3> QED BY <1>1, <1>3, <2>1, <3>1
  <2>3. s = [text |-> Cut(line, m), list |-> s.list, null |-> s.null]
    BY <1>2, <2>2 DEF IsListState
  <2>4. l \in Nat \ {0} /\ ListRead(s, r, f, u, m, l)
    <3> DEFINE g == f  v == u  list == s.list  null == s.null
    <3>1. IsReadable(g, T) /\ v \in Seq(T) /\ m \in Nat
      BY <2>2
    <3> HIDE DEF g, v, m, list, null
    <3>2. LET x == LineThen(g, v)
              y == Len(x) - Len(v)
              z == [text |-> Cut(x, m), list |-> list, null |-> null]
          IN  /\ x \in Seq(T) /\ y \in Nat \ {0}
              /\ ListRead(z, ListLine(z), g, v, m, y)
      BY <3>1, ListLineReads
    <3> QED BY <2>3, <3>2 DEF g, v, list, null
  <2>5. Len(u) \in Nat /\ Len(R[k - 1]) = l + Len(u)
    <3>1. Len(u) \in Nat /\ Len(line) = Len(R[k - 1])
      BY <2>2, LenProperties
    <3> HIDE DEF u, line
    <3> QED BY <1>3, <3>1
  <2>a. /\ f.hash \in Seq(T) /\ f.name \in Seq(T) /\ f.size \in Numbers \cup {Zero}
        /\ Hosts(f.peers) \in Seq(T)
    <3>1. IsListed(f, T) /\ f.size \in Numbers \cup {Zero}
      BY <2>2 DEF IsReadable
    <3>2. f.hash \in Seq(T) /\ f.name \in Seq(T)
      BY <3>1 DEF IsListed
    <3> DEFINE g == f
    <3>3. IsListed(g, T) /\ <<>> \in Seq(T)
      BY <3>1, EmptySeq
    <3> HIDE DEF g
    <3>4. Hosts(g.peers) \in Seq(T)
      BY <3>3, LineFacts
    <3> QED BY <3>1, <3>2, <3>4 DEF g
  <2> DEFINE g(p) == [hash |-> f.hash, name |-> f.name, size |-> f.size, peers |-> p]
             P == {<<>>, <<Hosts(f.peers)>>}
  <2> HIDE DEF f, l, m, line, r, u, F, Rel
  \* A line more that is read.
  <2>b. ASSUME NEW p \in P
        PROVE  /\ Follows(Append(s.list, g(p)), F, db, n, Rel)
               /\ Len(Append(s.list, g(p))) = k
    <3>1. p \in Seq(Seq(T))
      <4>1. <<>> \in Seq(Seq(T)) /\ <<Hosts(f.peers)>> \in Seq(Seq(T))
        BY <2>a, EmptySeq
      <4> QED BY <4>1
    <3> DEFINE y == g(p)
    <3>2. y.hash = f.hash /\ y.name = f.name /\ y.size = f.size /\ y.peers = p
      OBVIOUS
    <3>3. y \in F
      <4> HIDE DEF P
      <4> QED BY <2>a, <3>1 DEF F, ListedFiles
    <3>4. p = <<>> \/ p = <<Hosts(f.peers)>>
      OBVIOUS
    <3> HIDE DEF y, P
    <3>5. <<y, f>> \in Rel
      BY <2>2, <3>2, <3>3, <3>4 DEF Rel, F, ListedAs
    <3>6. Follows(s.list, F, db, n, Rel)
      BY DEF F, Rel
    <3>7. Len(s.list) + 1 = k /\ Len(s.list) + 1 <= n /\ db[k] = f
      BY <1>2, <2>1 DEF f
    <3>8. <<y, db[Len(s.list) + 1]>> \in Rel
      BY <3>5, <3>7
    <3>9. Follows(Append(s.list, y), F, db, n, Rel) /\ Len(Append(s.list, y)) = Len(s.list) + 1
      BY <3>3, <3>6, <3>7, <3>8, FollowsMore
    <3> QED BY <3>7, <3>9 DEF y
  <2>c. <<>> \in P /\ <<Hosts(f.peers)>> \in P
    OBVIOUS
  <2> HIDE DEF P
  <2>6. CASE m >= l
    <3>1. /\ r.text = Cut(u, m - l) /\ r.null = FALSE
          /\ r.list = Append(s.list, g(<<Hosts(f.peers)>>))
      BY <2>4, <2>6 DEF ListRead
    <3>2. Follows(r.list, F, db, n, Rel) /\ Len(r.list) = k
      <4> DEFINE p == <<Hosts(f.peers)>>
      <4>1. p \in P /\ r.list = Append(s.list, g(p))
        BY <2>c, <3>1
      <4> HIDE DEF p, g
      <4> QED BY <2>b, <4>1
    <3> HIDE DEF g
    <3>3. /\ k <= n /\ Len(R[0]) - Len(R[k]) >= k /\ c >= Len(R[0]) - Len(R[k])
          /\ m - l = c - (Len(R[0]) - Len(R[k]))
      <4>1. Len(R[k]) = Len(u) /\ m = c - (Len(R[0]) - Len(R[k - 1]))
        BY DEF u, m
      <4> DEFINE x == Len(R[0])  y == Len(R[k - 1])  z == Len(R[k])
      <4>2. /\ x \in Nat /\ y \in Nat /\ z \in Nat /\ l \in Nat \ {0} /\ y = l + z
            /\ m = c - (x - y) /\ m >= l /\ x - y >= k - 1
        BY <1>2, <1>3, <2>4, <2>5, <2>6, <4>1
      <4> HIDE DEF x, y, z
      <4>3. x - z >= k /\ c >= x - z /\ m - l = c - (x - z)
        BY <4>2
      <4>4. /\ Len(R[0]) - Len(R[k]) >= k /\ c >= Len(R[0]) - Len(R[k])
            /\ m - l = c - (Len(R[0]) - Len(R[k]))
        BY <4>3 DEF x, z
      <4>5. k <= n
        <5>1. k \in 1..n
          BY <2>1
        <5> QED BY <5>1
      <4> QED BY <4>4, <4>5
    <3>4. r.text = Cut(R[k], c - (Len(R[0]) - Len(R[k])))
      BY <3>1, <3>3 DEF u
    <3>5. ListGoing(r, k, R, n, c)
      BY <3>1, <3>2, <3>3, <3>4 DEF ListGoing
    <3> QED BY <3>2, <3>5 DEF r, F, Rel
  <2>7. CASE m < l
    <3>1. r.text = <<>> /\ (r.list = s.list \/ r.list = Append(s.list, g(<<>>)))
      BY <2>4, <2>7 DEF ListRead
    <3>2. Follows(r.list, F, db, n, Rel)
      <4> DEFINE p == <<>>
      <4>1. p \in P /\ (r.list = s.list \/ r.list = Append(s.list, g(p)))
        BY <2>c, <3>1
      <4> HIDE DEF p, g
      <4>2. Follows(Append(s.list, g(p)), F, db, n, Rel)
        BY <2>b, <4>1
      <4>3. Follows(s.list, F, db, n, Rel)
        BY DEF F, Rel
      <4> QED BY <4>1, <4>2, <4>3
    <3> HIDE DEF g
    <3>3. ~ (c >= Len(R[0]))
      <4>1. m = c - (Len(R[0]) - Len(R[k - 1]))
        BY DEF m
      <4> DEFINE x == Len(R[0])  y == Len(R[k - 1])  z == Len(u)
      <4>2. /\ x \in Nat /\ y \in Nat /\ z \in Nat /\ l \in Nat /\ y = l + z
            /\ m = c - (x - y) /\ m < l
        BY <1>3, <2>4, <2>5, <2>7, <4>1
      <4> HIDE DEF x, y, z
      <4>3. ~ (c >= x)
        BY <4>2
      <4> QED BY <4>3 DEF x
    <3>4. ListDone(r, R, n, c)
      BY <3>1, <3>3 DEF ListDone
    <3> QED BY <3>2, <3>4 DEF r, F, Rel
  <2>8. m >= l \/ m < l
    BY <2>2, <2>4
  <2> QED BY <2>6, <2>7, <2>8
<1> QED BY <1>4, <1>5

\* The first lines of the list are read, and all of them if c is room for them.
AreRead(read, R, db, n, c, T) ==
  /\ Follows(read.list, ListedFiles(T), db, n, ListedAs(T, db))
  /\ c >= Len(R[0]) => Len(read.list) = n /\ read.null = FALSE

\* dm_deserialize_filelistres reads the first lines that dm_filelistres printed, as
\* they were but for the peers, and all of them if the text was not cut; it goes on
\* at NULL only if it was.
THEOREM ListReads ==
  ASSUME NEW T, IsTokens(T), NEW db, NEW n \in Nat, n = Len(db), DOMAIN db = 1..n,
         \A k \in 1..n : IsReadable(db[k], T),
         NEW R, IsList(R, db, n, T), NEW c \in Nat
  PROVE  AreRead(ListLines(Cut(R[0], c)), R, db, n, c, T)
<1> DEFINE text == Cut(R[0], c)  N == Len(text)  F == ListedFiles(T)  Rel == ListedAs(T, db)
<1>1. /\ R \in [0..n -> Seq(T)] /\ R[n] = <<>>
      /\ \A i \in 1..n : R[i - 1] = LineThen(db[i], R[i])
  BY DEF IsList
<1>2. R[0] \in Seq(T) /\ Len(R[0]) \in Nat
  <2>1. 0 \in 0..n
    OBVIOUS
  <2> QED BY <1>1, <2>1, LenProperties
<1>3. text \in Seq(T) /\ N \in Nat /\ N = IF c <= Len(R[0]) THEN c ELSE Len(R[0])
  <2>1. text \in Seq(T) /\ Len(text) = IF c <= Len(R[0]) THEN c ELSE Len(R[0])
    BY <1>2, CutFacts
  <2> QED BY <2>1, LenProperties
<1>a. text = Cut(R[0], c)
  OBVIOUS
<1> HIDE DEF text
<1>b. N = Len(text)
  OBVIOUS
<1> HIDE DEF N
<1>4. PICK after : IsListRead(text, after, N)
  BY <1>3, <1>b, ListLinesLoop
<1>5. /\ ListLines(text) = after[N] /\ after[0] = [text |-> text, list |-> <<>>, null |-> FALSE]
      /\ \A k \in 1..N : after[k] = ListLine(after[k - 1])
  BY <1>4 DEF IsListRead
<1> DEFINE Good(s, k) == /\ IsListState(s) /\ Follows(s.list, F, db, n, Rel)
                         /\ ListGoing(s, k, R, n, c) \/ ListDone(s, R, n, c)
           S == {k \in 0..N : Good(after[k], k)}
<1>6. 0 \in S
  <2> DEFINE e == <<>>  s == after[0]
  <2>1. /\ e \in Seq(T) /\ e \in Seq(F) /\ Len(e) = 0
        /\ after[0] = [text |-> text, list |-> e, null |-> FALSE]
        /\ 0 \in 0..N
    BY <1>3, <1>5, EmptySeq
  <2> HIDE DEF e, F, Rel
  <2>2. s.text = text /\ s.list = e /\ s.null = FALSE /\ IsListState(s)
    BY <2>1 DEF IsListState
  <2> HIDE DEF s
  <2>3. Follows(s.list, F, db, n, Rel)
    <3>1. \A k \in 1..Len(e) : FALSE
      BY <2>1
    <3> QED BY <2>1, <2>2, <3>1 DEF Follows
  <2>4. ListGoing(s, 0, R, n, c)
    <3>1. c - (Len(R[0]) - Len(R[0])) = c /\ Len(R[0]) - Len(R[0]) = 0
      BY <1>2
    <3> QED BY <1>2, <1>a, <2>1, <2>2, <3>1 DEF ListGoing
  <2>5. Good(s, 0)
    BY <2>2, <2>3, <2>4
  <2> HIDE DEF Good
  <2> QED BY <2>1, <2>5 DEF s
<1>7. ASSUME NEW k \in 1..N, k - 1 \in S PROVE k \in S
  <2> DEFINE s == after[k - 1]  r == ListLine(s)
  <2>1. Good(s, k - 1) /\ after[k] = r /\ k \in 0..N /\ k \in Nat \ {0}
    BY <1>3, <1>5, <1>7
  <2>2. /\ IsListState(s) /\ Follows(s.list, F, db, n, Rel)
        /\ ListGoing(s, k - 1, R, n, c) \/ ListDone(s, R, n, c)
    BY <2>1
  <2> HIDE DEF s, F, Rel
  <2>3. IsListState(r)
    BY <2>2, ListLineState
  <2>4. /\ Follows(r.list, F, db, n, Rel)
        /\ ListGoing(r, k, R, n, c) \/ ListDone(r, R, n, c)
    <3>1. CASE ListGoing(s, k - 1, R, n, c)
      <4>1. /\ Follows(ListLine(s).list, ListedFiles(T), db, n, ListedAs(T, db))
            /\ ListGoing(ListLine(s), k, R, n, c) \/ ListDone(ListLine(s), R, n, c)
        BY <2>1, <2>2, <3>1, ListTurn DEF F, Rel
      <4> QED BY <4>1 DEF F, Rel
    <3>2. CASE ListDone(s, R, n, c)
      <4>1. s.text = <<>> /\ (c >= Len(R[0]) => Len(s.list) = n /\ s.null = FALSE)
        BY <3>2 DEF ListDone
      <4>2. r = [s EXCEPT !.text = <<>>]
        BY <4>1, NoFields DEF ListLine
      <4>3. r.text = <<>> /\ r.list = s.list /\ r.null = s.null
        <5> DEFINE a == s.list  b == s.null  e == <<>>
        <5>1. s = [text |-> s.text, list |-> a, null |-> b] /\ r = [s EXCEPT !.text = e]
          BY <2>2, <4>2 DEF IsListState
        <5> HIDE DEF a, b, e, r
        <5>2. r.text = e /\ r.list = a /\ r.null = b
          BY <5>1
        <5> QED BY <5>2 DEF a, b, e
      <4> HIDE DEF r
      <4> QED BY <2>2, <4>1, <4>3 DEF ListDone
    <3> QED BY <2>2, <3>1, <3>2
  <2>5. Good(r, k)
    <3> HIDE DEF r
    <3> QED BY <2>3, <2>4
  <2> HIDE DEF Good, r
  <2> QED BY <2>1, <2>5
<1>8. Good(after[N], N)
  <2> HIDE DEF Good
  <2>1. \A k \in 0..N : k \in S
    <3> HIDE DEF S
    <3> QED BY <1>3, <1>6, <1>7, InductionTo
  <2> QED BY <1>3, <2>1
<1> DEFINE s == after[N]
<1>9. /\ Follows(s.list, F, db, n, Rel)
      /\ ListGoing(s, N, R, n, c) \/ ListDone(s, R, n, c)
  BY <1>8
<1> HIDE DEF s
<1>10. ASSUME c >= Len(R[0]), ListGoing(s, N, R, n, c) PROVE Len(s.list) = n /\ s.null = FALSE
  <2>1. N <= n /\ Len(s.list) = N /\ Len(R[0]) - Len(R[N]) >= N /\ s.null = FALSE
    BY <1>10 DEF ListGoing
  <2>2. N = Len(R[0]) /\ N \in 0..n
    BY <1>2, <1>3, <1>10, <2>1
  <2>3. Len(R[N]) \in Nat
    BY <1>1, <2>2, LenProperties
  <2>4. Len(R[N]) = 0
    <3> DEFINE x == Len(R[0])  y == Len(R[N])
    <3>1. x \in Nat /\ y \in Nat /\ N = x /\ x - y >= N
      BY <1>2, <2>1, <2>2, <2>3
    <3> HIDE DEF x, y
    <3>2. y = 0
      BY <3>1
    <3> QED BY <3>2 DEF y
  <2>5. ASSUME N < n PROVE FALSE
    <3> DEFINE i == N + 1
    <3>1. i \in 1..n /\ i \in 0..n /\ i - 1 = N
      BY <1>3, <2>5
    <3> HIDE DEF i
    <3>2. R[N] = LineThen(db[i], R[i]) /\ R[i] \in Seq(T)
      BY <1>1, <3>1
    <3> DEFINE f == db[i]  u == R[i]
    <3>3. IsReadable(f, T) /\ u \in Seq(T)
      BY <3>1, <3>2
    <3> HIDE DEF f, u
    <3>4. Len(LineThen(f, u)) - Len(u) \in Nat \ {0}
      <4>1. 0 \in Nat
        OBVIOUS
      <4> QED BY <3>3, <4>1, ListLineReads
    <3>5. Len(u) \in Nat
      BY <3>3, LenProperties
    <3> QED BY <2>4, <3>2, <3>4, <3>5 DEF f, u
  <2>6. N = n
    BY <1>3, <2>1, <2>5, <2>2
  <2> QED BY <2>1, <2>6
<1>11. c >= Len(R[0]) => Len(s.list) = n /\ s.null = FALSE
  BY <1>9, <1>10 DEF ListDone
<1> QED BY <1>5, <1>9, <1>11 DEF s, text, AreRead
=============================================================================
