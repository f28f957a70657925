---------------------------- MODULE FileDbProofs ----------------------------
(***************************************************************************)
(* Proofs about the scan of any shared directory, of any size and depth:   *)
(* a vector reaches past its block exactly when it has outgrown its first  *)
(* capacity; a scan crashes for no other reason than those that            *)
(* CrashNeedsCause names; and of one that has not outgrown it, the records *)
(* are true, and what is missing is below a subdirectory with trouble in   *)
(* it, or in a shared directory that could not be read on.                 *)
(***************************************************************************)
EXTENDS FileDb, SequenceTheorems, WellFoundedInduction, NaturalsInduction, TLAPS

-----------------------------------------------------------------------------
(* Vectors of elements of any width above one byte.                        *)

\* A vector is as it was made, or its block has as many bytes as it has room for
\* elements, and more than half of the room is taken.
Shape(v, width) ==
  /\ Len(v.items) <= v.capacity
  /\ \/ v.capacity = Initial /\ v.bytes = Initial * width
     \/ v.capacity >= 2 * Initial /\ v.bytes = v.capacity /\ 2 * Len(v.items) > v.capacity

LEMMA NewShape ==
  ASSUME NEW width \in Nat, NEW Item
  PROVE  New(width) \in Vector(Item) /\ Shape(New(width), width)
<1>1. Initial \in Nat /\ Initial * width \in Nat
  BY InitialAssumption
<1>2. <<>> \in Seq(Item) /\ Len(<<>>) = 0
  BY EmptySeq
<1> QED BY <1>1, <1>2 DEF New, Vector, Shape

LEMMA InsertShape ==
  ASSUME NEW width \in Nat, NEW Item, NEW v \in Vector(Item), NEW item \in Item,
         Shape(v, width)
  PROVE  /\ Insert(v, item) \in Vector(Item) /\ Shape(Insert(v, item), width)
         /\ Insert(v, item).items = Append(v.items, item)
<1> DEFINE n == Len(v.items)  w == Insert(v, item)
<1>1. n \in Nat /\ v.capacity \in Nat /\ v.bytes \in Nat /\ Initial \in Nat \ {0}
  BY LenProperties, InitialAssumption DEF Vector
<1>2. /\ Append(v.items, item) \in Seq(Item)
      /\ Len(Append(v.items, item)) = n + 1
  BY AppendProperties DEF Vector
<1>3. /\ w.items = Append(v.items, item)
      /\ n + 1 > v.capacity => w.capacity = 2 * v.capacity /\ w.bytes = 2 * v.capacity
      /\ ~ (n + 1 > v.capacity) => w.capacity = v.capacity /\ w.bytes = v.bytes
      /\ w = [items |-> w.items, capacity |-> w.capacity, bytes |-> w.bytes]
  <2>1. w = [items |-> Append(v.items, item), capacity |-> Grown(v).capacity,
             bytes |-> Grown(v).bytes]
    BY DEF Insert
  <2>2. /\ n + 1 > v.capacity =>
             Grown(v) = [items |-> v.items, capacity |-> 2 * v.capacity, bytes |-> 2 * v.capacity]
        /\ ~ (n + 1 > v.capacity) => Grown(v) = v
    BY DEF Grown
  <2> HIDE DEF n, w
  <2> QED BY <2>1, <2>2
<1>5. n <= v.capacity /\ Len(w.items) = n + 1
  BY <1>2, <1>3 DEF Shape
<1>6. \/ v.capacity = Initial /\ v.bytes = Initial * width
      \/ v.capacity >= 2 * Initial /\ v.bytes = v.capacity /\ 2 * n > v.capacity
  BY DEF Shape
<1> HIDE DEF n, w
<1>7. w.capacity \in Nat /\ w.bytes \in Nat
  BY <1>1, <1>3
<1>8. w \in Vector(Item)
  BY <1>2, <1>3, <1>7 DEF Vector
<1>9. CASE n + 1 > v.capacity
  <2>1. w.capacity >= 2 * Initial /\ w.bytes = w.capacity /\ 2 * (n + 1) > w.capacity
        /\ n + 1 <= w.capacity
    BY <1>1, <1>3, <1>5, <1>6, <1>9
  <2> QED BY <1>3, <1>5, <1>8, <2>1 DEF Shape, w
<1>10. CASE ~ (n + 1 > v.capacity)
  <2>1. n + 1 <= w.capacity
    BY <1>1, <1>3, <1>10
  <2>2. \/ w.capacity = Initial /\ w.bytes = Initial * width
        \/ w.capacity >= 2 * Initial /\ w.bytes = w.capacity /\ 2 * (n + 1) > w.capacity
    BY <1>1, <1>3, <1>6, <1>10
  <2> QED BY <1>3, <1>5, <1>8, <2>1, <2>2 DEF Shape, w
<1> QED BY <1>9, <1>10

\* With elements of two bytes or more, a vector is within its block exactly as long
\* as it has not grown.
LEMMA ShapeInBounds ==
  ASSUME NEW width \in Nat \ {0, 1}, NEW Item, NEW v \in Vector(Item), Shape(v, width)
  PROVE  InBounds(v, width) <=> Len(v.items) <= Initial
<1> DEFINE n == Len(v.items)
<1>1. n \in Nat /\ v.capacity \in Nat /\ v.bytes \in Nat /\ Initial \in Nat \ {0}
  BY LenProperties, InitialAssumption DEF Vector
<1>2. n <= v.capacity
  BY DEF Shape
<1>3. InBounds(v, width) <=> n * width <= v.bytes
  BY DEF InBounds
<1>4. CASE v.capacity = Initial /\ v.bytes = Initial * width
  <2>1. n * width <= Initial * width
    <3>1. (Initial - n) * width >= 0
      BY <1>1, <1>2, <1>4, Z3
    <3> HIDE DEF n
    <3> QED BY <1>1, <3>1, Z3
  <2> QED BY <1>2, <1>3, <1>4, <2>1
<1>5. CASE v.capacity >= 2 * Initial /\ v.bytes = v.capacity /\ 2 * n > v.capacity
  <2> HIDE DEF n
  <2>1. n * width >= 2 * n
    <3>1. n * (width - 2) >= 0
      BY <1>1, Z3
    <3> QED BY <1>1, <3>1, Z3
  <2>2. n * width \in Nat
    BY <1>1
  <2>3. ~ (n * width <= v.bytes) /\ ~ (n <= Initial)
    <3> DEFINE b == n * width
    <3> HIDE DEF b
    <3>1. b \in Nat /\ b >= 2 * n
      BY <2>1, <2>2 DEF b
    <3>2. ~ (b <= v.bytes) /\ ~ (n <= Initial)
      BY <1>1, <1>5, <3>1
    <3> QED BY <3>2 DEF b
  <2> QED BY <1>3, <2>3 DEF n
<1> QED BY <1>4, <1>5 DEF Shape

\* A damaged vector has the length and the block it had; one within its block is not
\* damaged.
LEMMA DamagedShape ==
  ASSUME NEW width, NEW Item, NEW v \in Vector(Item), NEW junk \in Item,
         NEW w \in Damaged(v, width, junk)
  PROVE  /\ w \in Vector(Item) /\ Len(w.items) = Len(v.items)
         /\ w.capacity = v.capacity /\ w.bytes = v.bytes
         /\ InBounds(v, width) => w = v
<1>1. PICK hit \in SUBSET (IF InBounds(v, width) THEN {} ELSE DOMAIN v.items) :
        w = [v EXCEPT !.items = [k \in DOMAIN @ |-> IF k \in hit THEN junk ELSE @[k]]]
  BY DEF Damaged
<1> DEFINE n == Len(v.items)
           s == [k \in DOMAIN v.items |-> IF k \in hit THEN junk ELSE v.items[k]]
<1>2. v.items \in Seq(Item) /\ v \in [items : Seq(Item), capacity : Nat, bytes : Nat]
  BY DEF Vector
<1>3. n \in Nat /\ DOMAIN v.items = 1..n /\ v.items \in [1..n -> Item]
  BY <1>2, LenProperties
<1>4. s \in [1..n -> Item]
  BY <1>3
<1>5. s \in Seq(Item) /\ Len(s) = n
  <2> HIDE DEF s, n
  <2>1. s \in Seq(Item)
    BY <1>3, <1>4, SeqDef
  <2>2. DOMAIN s = 1..n /\ DOMAIN s = 1..Len(s) /\ Len(s) \in Nat
    BY <1>4, <2>1, LenProperties
  <2> QED BY <1>3, <2>1, <2>2
<1>6. w.items = s /\ w.capacity = v.capacity /\ w.bytes = v.bytes
  BY <1>1, <1>2
<1>7. w \in Vector(Item)
  <2>1. w = [v EXCEPT !.items = s]
    BY <1>1
  <2> HIDE DEF s
  <2> QED BY <1>2, <1>5, <2>1 DEF Vector
<1>8. InBounds(v, width) => w = v
  <2> SUFFICES ASSUME InBounds(v, width) PROVE w = v
    OBVIOUS
  <2>1. hit = {}
    <3> HIDE DEF InBounds
    <3> QED BY <1>1
  <2>2. s = v.items
    BY <1>3, <2>1
  <2>3. w = [v EXCEPT !.items = s]
    BY <1>1
  <2> HIDE DEF s
  <2> QED BY <1>2, <2>2, <2>3
<1> HIDE DEF s
<1> QED BY <1>5, <1>6, <1>7, <1>8

-----------------------------------------------------------------------------
(* The invariant.                                                          *)

Item == Record \cup {Junk}

Frame == [dirpath : Dirs, todo : SUBSET Names]

\* A call is as deep as its directory, and what it has still to read is there.
GoodFrame(f, k) == /\ Len(f.dirpath) = k - 1
                   /\ \A name \in f.todo \ Dots : Append(f.dirpath, name) \in Paths

GoodFrames(fs) == /\ fs \in Seq(Frame)
                  /\ \A k \in 1..Len(fs) : GoodFrame(fs[k], k)

IInv == /\ pc \in {"start", "scan", "hash", "ready", "exit", "crashed"}
        /\ GoodFrames(frames)
        /\ pc \in {"scan", "hash"} => frames # <<>>
        /\ pc = "hash" => buff \in Files
        /\ buff \in Dirs \cup Files /\ size \in 0..(MaxEdits + 1) /\ errno \in BOOLEAN
        /\ db \in Vector(Item) /\ Shape(db, RecordSize)
        /\ now \in [Files -> 0..(MaxEdits + 1)] /\ edits \in 0..MaxEdits
        /\ denied \subseteq Dirs \cup Files /\ slash \in BOOLEAN
        /\ CrashNeedsCause

-----------------------------------------------------------------------------
(* Paths and calls.                                                        *)

\* The names of entries: to the provers, any set.
Strings == STRING \cup Dots

LEMMA WiderSeq ==
  ASSUME NEW S, NEW T, S \subseteq T, NEW s \in Seq(S)
  PROVE  s \in Seq(T)
<1>1. PICK n \in Nat : s \in [1..n -> S]
  BY SeqDef
<1>2. s \in [1..n -> T]
  BY <1>1
<1> QED BY <1>2, SeqDef

LEMMA PathsAreSequences ==
  /\ \A p \in Paths : p \in Seq(Strings) /\ p # <<>> /\ Front(p) \in Dirs /\ Last(p) \notin Dots
  /\ \A d \in Dirs : d \in Seq(Strings)
  /\ \A name \in Names \ Dots : name \in Strings
<1>1. \A p \in Paths : p \in Seq(Strings) /\ p # <<>> /\ Front(p) \in Dirs /\ Last(p) \notin Dots
  <2>1. \A p \in Paths : p \in Seq(STRING) /\ p # <<>> /\ Front(p) \in Dirs /\ Last(p) \notin Dots
    BY TreeAssumption
  <2>2. STRING \subseteq Strings
    BY DEF Strings
  <2>3. \A p \in Paths : p \in Seq(Strings)
    BY <2>1, <2>2, WiderSeq
  <2> QED BY <2>1, <2>3
<1>2. \A p \in Paths : Last(p) \in Strings
  <2> TAKE p \in Paths
  <2>1. p \in Seq(Strings) /\ Len(p) \in 1..Len(p)
    BY <1>1, EmptySeq
  <2> QED BY <2>1, ElementOfSeq DEF Last
<1>3. <<>> \in Seq(Strings)
  BY EmptySeq
<1>4. \A d \in Dirs : d \in Seq(Strings)
  BY <1>1, <1>3 DEF Dirs
<1>5. \A name \in Names \ Dots : name \in Strings
  BY <1>2 DEF Names
<1> QED BY <1>1, <1>4, <1>5

\* A path is its directory and its name.
LEMMA PathIsOfItsParts ==
  ASSUME NEW p \in Paths
  PROVE  p = Append(Front(p), Last(p)) /\ Len(p) = Len(Front(p)) + 1
<1> DEFINE n == Len(p)  f == Front(p)
<1>1. p \in Seq(Strings) /\ p # <<>>
  BY PathsAreSequences
<1>2. n \in Nat \ {0} /\ \A i \in 1..n : p[i] \in Strings
  BY <1>1, EmptySeq, ElementOfSeq
<1>3. /\ f \in Seq(Strings) /\ Len(f) = n - 1
      /\ \A i \in 1..(n - 1) : f[i] = p[i]
  <2>1. f = SubSeq(p, 1, n - 1)
    BY DEF Front
  <2>2. \A i \in 1..(n - 1) : p[i] \in Strings
    BY <1>2
  <2> HIDE DEF n, f
  <2>3. 1 \in Int /\ n - 1 \in Int
    BY <1>2
  <2>4. /\ SubSeq(p, 1, n - 1) \in Seq(Strings)
        /\ Len(SubSeq(p, 1, n - 1)) = IF 1 <= n - 1 THEN n - 1 - 1 + 1 ELSE 0
        /\ \A i \in 1..(n - 1 - 1 + 1) : SubSeq(p, 1, n - 1)[i] = p[1 + i - 1]
    BY <2>2, <2>3, SubSeqProperties
  <2> QED BY <1>2, <2>1, <2>4
<1>4. Last(p) = p[n] /\ p[n] \in Strings
  BY <1>2 DEF Last
<1>5. /\ Append(f, p[n]) \in Seq(Strings)
      /\ Len(Append(f, p[n])) = n - 1 + 1
      /\ \A i \in 1..(n - 1) : Append(f, p[n])[i] = f[i]
      /\ Append(f, p[n])[n - 1 + 1] = p[n]
  BY <1>3, <1>4, AppendProperties
<1> HIDE DEF n, f
<1>6. Len(Append(f, p[n])) = n /\ \A i \in 1..n : Append(f, p[n])[i] = p[i]
  <2>1. n - 1 + 1 = n /\ \A i \in 1..n : i \in 1..(n - 1) \/ i = n
    BY <1>2
  <2> QED BY <1>3, <1>5, <2>1
<1>7. Append(f, p[n]) = p
  BY <1>1, <1>5, <1>6, SeqEqual DEF n
<1>8. Len(p) = Len(f) + 1
  BY <1>2, <1>3 DEF n
<1> QED BY <1>4, <1>7, <1>8 DEF f

LEMMA CallIsGood ==
  ASSUME NEW d \in Dirs, NEW k \in Nat, Len(d) = k - 1
  PROVE  Call(d) \in Frame /\ GoodFrame(Call(d), k)
<1>1. Call(d) \in Frame
  BY DEF Call, Frame, Names
<1>2. \A name \in Call(d).todo \ Dots : Append(d, name) \in Paths
  BY PathIsOfItsParts DEF Call
<1> QED BY <1>1, <1>2 DEF Call, GoodFrame

LEMMA FrontIsGood ==
  ASSUME NEW fs, GoodFrames(fs), fs # <<>>
  PROVE  GoodFrames(Front(fs)) /\ Len(Front(fs)) = Len(fs) - 1 /\ Len(fs) \in Nat \ {0}
<1> DEFINE n == Len(fs)
<1>1. n \in Nat \ {0} /\ \A i \in 1..n : fs[i] \in Frame
  BY EmptySeq, ElementOfSeq DEF GoodFrames
<1>2. Front(fs) = SubSeq(fs, 1, n - 1)
  BY DEF Front
<1>3. \A k \in 1..n : GoodFrame(fs[k], k)
  BY DEF GoodFrames
<1> HIDE DEF n
<1>4. 1 \in Int /\ n - 1 \in Int /\ \A i \in 1..(n - 1) : fs[i] \in Frame
  BY <1>1
<1>5. /\ SubSeq(fs, 1, n - 1) \in Seq(Frame)
      /\ Len(SubSeq(fs, 1, n - 1)) = IF 1 <= n - 1 THEN n - 1 - 1 + 1 ELSE 0
      /\ \A i \in 1..(n - 1 - 1 + 1) : SubSeq(fs, 1, n - 1)[i] = fs[1 + i - 1]
  BY <1>4, SubSeqProperties
<1>6. /\ Len(Front(fs)) = n - 1
      /\ \A i \in 1..(n - 1) : Front(fs)[i] = fs[i] /\ i \in 1..n
  BY <1>1, <1>2, <1>5
<1> QED BY <1>1, <1>2, <1>3, <1>5, <1>6 DEF GoodFrames, n

LEMMA LastIsGood ==
  ASSUME NEW fs, GoodFrames(fs), fs # <<>>
  PROVE  /\ Last(fs) \in Frame /\ GoodFrame(Last(fs), Len(fs))
         /\ Len(fs) \in Nat \ {0}
<1>1. Len(fs) \in Nat \ {0}
  BY EmptySeq DEF GoodFrames
<1>2. Len(fs) \in 1..Len(fs)
  BY <1>1
<1> QED BY <1>1, <1>2, ElementOfSeq DEF GoodFrames, Last

LEMMA ConsumedIsGood ==
  ASSUME NEW fs, GoodFrames(fs), fs # <<>>, NEW name
  PROVE  /\ GoodFrames([fs EXCEPT ![Len(fs)].todo = @ \ {name}])
         /\ Len([fs EXCEPT ![Len(fs)].todo = @ \ {name}]) = Len(fs)
<1> DEFINE n == Len(fs)
           f == [fs[n] EXCEPT !.todo = @ \ {name}]
           gs == [fs EXCEPT ![n] = f]
<1>1. n \in Nat \ {0} /\ n \in 1..n /\ fs[n] \in Frame /\ GoodFrame(fs[n], n)
  BY LastIsGood DEF Last
<1>2. f \in Frame /\ f.dirpath = fs[n].dirpath /\ f.todo \subseteq fs[n].todo
  BY <1>1 DEF Frame
<1>3. GoodFrame(f, n)
  BY <1>1, <1>2 DEF GoodFrame
<1>4. fs \in Seq(Frame) /\ \A k \in 1..n : GoodFrame(fs[k], k)
  BY DEF GoodFrames
<1> HIDE DEF f
<1>5. /\ gs \in Seq(Frame) /\ Len(gs) = n
      /\ \A j \in 1..n : gs[j] = IF j = n THEN f ELSE fs[j]
  BY <1>1, <1>2, <1>4, ExceptSeq
<1>6. GoodFrames(gs)
  BY <1>3, <1>4, <1>5 DEF GoodFrames
<1> QED BY <1>5, <1>6 DEF f

LEMMA AppendIsGood ==
  ASSUME NEW fs, GoodFrames(fs), NEW f \in Frame, GoodFrame(f, Len(fs) + 1)
  PROVE  GoodFrames(Append(fs, f)) /\ Append(fs, f) # <<>>
<1> DEFINE n == Len(fs)
<1>1. fs \in Seq(Frame) /\ n \in Nat /\ \A k \in 1..n : GoodFrame(fs[k], k)
  BY LenProperties DEF GoodFrames
<1>2. /\ Append(fs, f) \in Seq(Frame) /\ Append(fs, f) # <<>>
      /\ Len(Append(fs, f)) = n + 1
      /\ \A i \in 1..n : Append(fs, f)[i] = fs[i]
      /\ Append(fs, f)[n + 1] = f
  BY <1>1, AppendProperties
<1>3. GoodFrame(f, n + 1)
  OBVIOUS
<1> HIDE DEF n
<1>4. \A k \in 1..(n + 1) : k \in 1..n \/ k = n + 1
  BY <1>1
<1> QED BY <1>1, <1>2, <1>3, <1>4 DEF GoodFrames

\* What an action that reads an entry of a directory or of a file finds.
LEMMA EntryRead ==
  ASSUME IInv, NEW name, Reads(name, {"dir", "reg"})
  PROVE  LET p == PathOf(Last(frames), name) IN
         /\ p \in Paths /\ Kind[p] = KindOf(name)
         /\ Len(p) = Len(frames) /\ Len(frames) \in Nat \ {0}
<1> DEFINE l == Last(frames)
<1>1. frames # <<>> /\ GoodFrames(frames)
  BY DEF IInv, Reads
<1>2. l \in Frame /\ GoodFrame(l, Len(frames)) /\ Len(frames) \in Nat \ {0}
  BY <1>1, LastIsGood
<1>3. name \in l.todo \ Dots /\ Kind[PathOf(l, name)] = KindOf(name)
  BY DEF Reads, KindOf
<1>4. PathOf(l, name) \in Paths
  BY <1>2, <1>3 DEF GoodFrame, PathOf
<1>5. l.dirpath \in Seq(Strings) /\ name \in Strings
  BY <1>2, <1>3, PathsAreSequences DEF Frame
<1>6. Len(PathOf(l, name)) = Len(l.dirpath) + 1 /\ Len(l.dirpath) = Len(frames) - 1
  BY <1>2, <1>5, AppendProperties DEF GoodFrame, PathOf
<1> QED BY <1>2, <1>3, <1>4, <1>6

-----------------------------------------------------------------------------
(* The steps.                                                              *)

LEMMA InitHolds == Init => IInv
<1> SUFFICES ASSUME Init PROVE IInv
  OBVIOUS
<1>1. RecordSize \in Nat /\ MaxEdits \in Nat
  BY RecordAssumption
<1>2. db \in Vector(Item) /\ Shape(db, RecordSize)
  BY <1>1, NewShape DEF Init
<1>3. GoodFrames(<<>>)
  BY EmptySeq DEF GoodFrames
<1>4. now \in [Files -> 0..(MaxEdits + 1)] /\ size \in 0..(MaxEdits + 1) /\ edits \in 0..MaxEdits
  BY <1>1 DEF Init
<1>5. buff \in Dirs \cup Files /\ errno \in BOOLEAN /\ denied \subseteq Dirs \cup Files
      /\ slash \in BOOLEAN
  BY DEF Init, Dirs
<1> QED BY <1>2, <1>3, <1>4, <1>5 DEF Init, IInv, CrashNeedsCause

LEMMA ReturnPreserves ==
  ASSUME IInv, pc = "scan", NEW result, Return(result),
         errno' \in BOOLEAN, UNCHANGED <<buff, size, db, fsVars>>
  PROVE  IInv'
<1>1. GoodFrames(frames) /\ frames # <<>>
  BY DEF IInv
<1>2. GoodFrames(Front(frames)) /\ Len(Front(frames)) = Len(frames) - 1 /\ Len(frames) \in Nat \ {0}
  BY <1>1, FrontIsGood
<1>3. pc' \in {"scan", "ready", "exit"} /\ frames' = Front(frames)
  BY DEF Return
<1>4. pc' = "scan" => frames' # <<>>
  <2> SUFFICES ASSUME pc' = "scan", Front(frames) = <<>> PROVE FALSE
    BY <1>3
  <2>1. Len(frames) > 1
    BY DEF Return
  <2>2. Len(Front(frames)) = 0
    BY EmptySeq
  <2> DEFINE n == Len(frames)  m == Len(Front(frames))
  <2>3. n > 1 /\ n \in Nat /\ m = n - 1 /\ m = 0
    BY <1>2, <2>1, <2>2
  <2> HIDE DEF n, m
  <2> QED BY <2>3
<1> QED BY <1>2, <1>3, <1>4 DEF IInv, CrashNeedsCause, fsVars

\* What the insertion of a record leaves.
LEMMA Inserted ==
  ASSUME IInv, NEW r \in Item, NEW w \in Damaged(Insert(db, r), RecordSize, Junk)
  PROVE  /\ w \in Vector(Item) /\ Shape(w, RecordSize)
         /\ Insert(db, r).items = Append(db.items, r)
         /\ Len(w.items) = Len(db.items) + 1 /\ Len(db.items) \in Nat
         /\ Len(w.items) <= Initial => w = Insert(db, r) /\ Len(db.items) <= Initial
<1> DEFINE v == Insert(db, r)
<1>1. RecordSize \in Nat \ {0, 1} /\ Junk \in Item
  BY RecordAssumption DEF Item
<1>2. v \in Vector(Item) /\ Shape(v, RecordSize) /\ v.items = Append(db.items, r)
  BY <1>1, InsertShape DEF IInv
<1>3. Len(v.items) = Len(db.items) + 1 /\ Len(db.items) \in Nat /\ Initial \in Nat
  <2>1. db.items \in Seq(Item)
    BY DEF IInv, Vector
  <2> QED BY <1>2, <2>1, AppendProperties, LenProperties, InitialAssumption
<1>4. InBounds(v, RecordSize) <=> Len(v.items) <= Initial
  BY <1>1, <1>2, ShapeInBounds
<1> HIDE DEF v
<1>5. /\ w \in Vector(Item) /\ Len(w.items) = Len(v.items)
      /\ w.capacity = v.capacity /\ w.bytes = v.bytes
      /\ InBounds(v, RecordSize) => w = v
  <2>1. w \in Damaged(v, RecordSize, Junk)
    BY DEF v
  <2> QED BY <1>1, <1>2, <2>1, DamagedShape
<1>6. Shape(w, RecordSize)
  BY <1>2, <1>5 DEF Shape
<1>7. Len(w.items) <= Initial => w = v /\ Len(db.items) <= Initial
  <2> DEFINE n == Len(db.items)  m == Len(w.items)
  <2>1. n \in Nat /\ m = n + 1
    BY <1>3, <1>5
  <2>2. m <= Initial => w = v
    <3> HIDE DEF InBounds
    <3> QED BY <1>4, <1>5
  <2> HIDE DEF n, m
  <2>3. m <= Initial => w = v /\ n <= Initial
    BY <1>3, <2>1, <2>2
  <2> QED BY <2>3 DEF n, m
<1> QED BY <1>2, <1>3, <1>5, <1>6, <1>7 DEF v

LEMMA HashPreserves ==
  ASSUME IInv, HashFile
  PROVE  IInv'
<1> DEFINE r == [name |-> buff, hash |-> now[buff], size |-> size]
<1>1. buff \in Files /\ frames # <<>> /\ MaxEdits \in Nat
  BY RecordAssumption DEF HashFile, IInv
<1>2. now[buff] \in 0..(MaxEdits + 1)
  BY <1>1 DEF IInv
<1>3. CASE /\ Readable(buff) /\ pc' = "scan"
           /\ db' \in Damaged(Insert(db, r), RecordSize, Junk)
  <2>1. now[buff] # Gone
    BY <1>3 DEF Readable, Exists
  <2>2. now[buff] \in 1..(MaxEdits + 1)
    <3> DEFINE x == now[buff]
    <3> HIDE DEF x
    <3>1. x \in 0..(MaxEdits + 1) /\ x # 0
      BY <1>2, <2>1 DEF x, Gone
    <3>2. x \in 1..(MaxEdits + 1)
      BY <1>1, <3>1
    <3> QED BY <3>2 DEF x
  <2>3. r \in Item
    BY <1>1, <2>2 DEF Record, Item, IInv
  <2> HIDE DEF r
  <2>4. db' \in Vector(Item) /\ Shape(db', RecordSize)
    BY <1>3, <2>3, Inserted
  <2> QED BY <1>1, <1>3, <2>4 DEF HashFile, IInv, CrashNeedsCause, fsVars
<1>4. CASE ~ Readable(buff) /\ pc' = "crashed" /\ UNCHANGED db
  <2>1. \/ ~ slash
        \/ now[buff] = Gone
        \/ buff \in denied \cap Files
    BY <1>1, <1>4 DEF Readable, Exists, Resolves
  <2> QED BY <1>1, <1>4, <2>1 DEF HashFile, IInv, CrashNeedsCause, fsVars
<1> QED BY <1>3, <1>4 DEF HashFile

LEMMA BreakPreserves ==
  ASSUME IInv, HeapBreaks
  PROVE  IInv'
<1>1. InBounds(db, RecordSize) <=> Len(db.items) <= Initial
  BY ShapeInBounds, RecordAssumption DEF IInv
<1>2. Len(db.items) \in Nat /\ Initial \in Nat
  BY LenProperties, InitialAssumption DEF IInv, Vector
<1>3. Len(db.items) > Initial
  <2>1. ~ (Len(db.items) <= Initial)
    <3> HIDE DEF InBounds
    <3> QED BY <1>1 DEF HeapBreaks
  <2> QED BY <1>2, <2>1
<1> QED BY <1>3 DEF HeapBreaks, IInv, CrashNeedsCause, fsVars

LEMMA StepPreserves == IInv /\ [Next]_vars => IInv'
<1> SUFFICES ASSUME IInv, [Next]_vars PROVE IInv'
  OBVIOUS
<1>0. MaxEdits \in Nat
  BY RecordAssumption
<1>1. CASE Start
  <2>1. <<>> \in Dirs /\ Len(<<>>) = 0 /\ 1 \in Nat /\ 0 = 1 - 1
    BY EmptySeq DEF Dirs
  <2>2. Call(<<>>) \in Frame /\ GoodFrame(Call(<<>>), 1)
    BY <2>1, CallIsGood
  <2>3. /\ <<Call(<<>>)>> \in Seq(Frame) /\ Len(<<Call(<<>>)>>) = 1
        /\ <<Call(<<>>)>>[1] = Call(<<>>) /\ <<Call(<<>>)>> # <<>>
    BY <2>2
  <2>4. GoodFrames(<<Call(<<>>)>>)
    BY <2>2, <2>3 DEF GoodFrames
  <2> HIDE DEF Call
  <2> QED BY <1>1, <2>3, <2>4 DEF Start, IInv, CrashNeedsCause, fsVars
<1>2. CASE Abort
  BY <1>2, ReturnPreserves DEF Abort, IInv
<1>3. CASE EndOfDirectory
  BY <1>3, ReturnPreserves DEF EndOfDirectory, IInv
<1>10. CASE ReadFails
  BY <1>10, ReturnPreserves DEF ReadFails
<1>11. CASE HeapBreaks
  BY <1>11, BreakPreserves
<1>4. CASE HashFile
  BY <1>4, HashPreserves
<1>5. ASSUME NEW name \in Names, Skip(name) PROVE IInv'
  <2>1. GoodFrames(frames) /\ frames # <<>>
    BY <1>5 DEF IInv, Skip, Reads
  <2>2. GoodFrames(Consumed(name)) /\ Len(Consumed(name)) = Len(frames) /\ Len(frames) \in Nat \ {0}
    BY <2>1, ConsumedIsGood, LastIsGood DEF Consumed
  <2>3. Consumed(name) # <<>>
    BY <2>2, EmptySeq
  <2> QED BY <1>5, <2>2, <2>3 DEF Skip, Reads, IInv, CrashNeedsCause, fsVars
<1>6. ASSUME NEW name \in Names, Directory(name) PROVE IInv'
  <2> DEFINE d == PathOf(Last(frames), name)
  <2>1. GoodFrames(frames) /\ frames # <<>> /\ Reads(name, {"dir"}) /\ Reads(name, {"dir", "reg"})
    BY <1>6 DEF IInv, Directory, Reads
  <2>2. d \in Paths /\ Kind[d] = "dir" /\ Len(d) = Len(frames) /\ Len(frames) \in Nat \ {0}
    BY <2>1, EntryRead DEF Reads
  <2>3. d \in Dirs
    BY <2>2 DEF Dirs
  <2>4. GoodFrames(Consumed(name)) /\ Len(Consumed(name)) = Len(frames)
    BY <2>1, ConsumedIsGood DEF Consumed
  <2>5. Call(d) \in Frame /\ GoodFrame(Call(d), Len(frames) + 1)
    <3>1. Len(frames) + 1 \in Nat /\ Len(d) = Len(frames) + 1 - 1
      BY <2>2
    <3> QED BY <2>3, <3>1, CallIsGood
  <2>6. GoodFrames(Append(Consumed(name), Call(d))) /\ Append(Consumed(name), Call(d)) # <<>>
    BY <2>4, <2>5, AppendIsGood
  <2>7. Consumed(name) # <<>>
    BY <2>2, <2>4, EmptySeq
  <2>8. /\ pc' = "scan" /\ buff' = d /\ errno' \in BOOLEAN
        /\ GoodFrames(frames') /\ frames' # <<>>
        /\ UNCHANGED <<size, db, fsVars>>
    <3>1. pc = "scan" /\ errno \in BOOLEAN
      BY <2>1 DEF Reads, IInv
    <3> HIDE DEF d
    <3> QED BY <1>6, <2>4, <2>6, <2>7, <3>1 DEF Directory, d
  <2> HIDE DEF d
  <2> QED BY <2>3, <2>8 DEF IInv, CrashNeedsCause, fsVars
<1>7. ASSUME NEW name \in Names, StatFile(name) PROVE IInv'
  <2> DEFINE f == PathOf(Last(frames), name)
  <2>1. GoodFrames(frames) /\ frames # <<>> /\ Reads(name, {"reg"}) /\ Reads(name, {"dir", "reg"})
    BY <1>7 DEF IInv, StatFile, Reads
  <2>2. f \in Files /\ Len(frames) \in Nat \ {0}
    BY <2>1, EntryRead DEF Reads, Files
  <2>3. GoodFrames(Consumed(name)) /\ Len(Consumed(name)) = Len(frames)
    BY <2>1, ConsumedIsGood DEF Consumed
  <2>4. Consumed(name) # <<>>
    BY <2>2, <2>3, EmptySeq
  <2>5. now[f] \in 0..(MaxEdits + 1) /\ 0 \in 0..(MaxEdits + 1)
    BY <1>0, <2>2 DEF IInv
  <2>6. /\ pc' = "hash" /\ frames' = Consumed(name) /\ buff' = f
        /\ size' \in 0..(MaxEdits + 1) /\ errno' \in BOOLEAN
        /\ UNCHANGED <<db, fsVars>>
    <3>1. errno \in BOOLEAN
      BY DEF IInv
    <3> HIDE DEF f
    <3> QED BY <1>7, <2>5, <3>1 DEF StatFile, f
  <2> HIDE DEF f
  <2> QED BY <2>2, <2>3, <2>4, <2>6 DEF IInv, CrashNeedsCause, fsVars
<1>8. ASSUME NEW f \in Files, Edit(f) PROVE IInv'
  <2>1. /\ pc \in {"scan", "hash"} /\ UNCHANGED <<pc, frames, buff, size, errno, db, denied, slash>>
        /\ edits' \in 0..MaxEdits
    BY <1>0, <1>8 DEF Edit, IInv
  <2>2. PICK contents \in {edits + 2, Gone} : now' = [now EXCEPT ![f] = contents]
    BY <1>8 DEF Edit
  <2>3. contents \in 0..(MaxEdits + 1)
    <3>1. edits \in 0..MaxEdits /\ edits < MaxEdits
      BY <1>8 DEF Edit, IInv
    <3> QED BY <1>0, <2>2, <3>1 DEF Gone
  <2>4. now' \in [Files -> 0..(MaxEdits + 1)]
    BY <2>2, <2>3 DEF IInv
  <2> QED BY <2>1, <2>4 DEF IInv, CrashNeedsCause
<1>9. CASE UNCHANGED vars
  BY <1>9 DEF vars, fsVars, IInv, CrashNeedsCause
<1> QED
  BY <1>1, <1>2, <1>3, <1>4, <1>5, <1>6, <1>7, <1>8, <1>9, <1>10, <1>11 DEF Next, Over

-----------------------------------------------------------------------------
(* The theorems.                                                           *)

LEMMA Invariance == Spec => []IInv
BY InitHolds, StepPreserves, PTL DEF Spec

\* The state of a scan stays well formed, for every tree: calls nest along the path
\* being read, and vectors grow before they are full (filedb_scan, filedb_insert).
THEOREM TypeCorrect == Spec => []TypeOK
<1>1. IInv => TypeOK
  <2> SUFFICES ASSUME IInv PROVE TypeOK
    OBVIOUS
  <2>1. \A k \in DOMAIN frames : /\ frames[k].dirpath \in Dirs
                                 /\ Len(frames[k].dirpath) = k - 1
                                 /\ frames[k].todo \subseteq Names
    <3> TAKE k \in DOMAIN frames
    <3>1. frames \in Seq(Frame) /\ \A j \in 1..Len(frames) : GoodFrame(frames[j], j)
      BY DEF IInv, GoodFrames
    <3>2. k \in 1..Len(frames)
      BY <3>1, LenProperties
    <3>3. frames[k] \in Frame /\ GoodFrame(frames[k], k)
      BY <3>1, <3>2, ElementOfSeq
    <3> QED BY <3>3 DEF Frame, GoodFrame
  <2>2. WellFormed(db)
    <3>1. Initial \in Nat /\ db.capacity \in Nat
      BY InitialAssumption DEF IInv, Vector
    <3> QED BY <3>1 DEF IInv, Shape, WellFormed
  <2> QED BY <2>1, <2>2 DEF IInv, TypeOK, Item
<1> QED BY <1>1, Invariance, PTL

\* A scan crashes for no other reason than those named, whatever the tree and
\* whatever others do to it (filedb_scan).
THEOREM CrashesCaused == Spec => []CrashNeedsCause
<1>1. IInv => CrashNeedsCause
  BY DEF IInv
<1> QED BY <1>1, Invariance, PTL

\* The records lie within their block exactly as long as there are no more of them
\* than filedb_new made room for: growing never makes room (filedb_insert).
THEOREM GrowthOverruns == Spec => [](InBounds(db, RecordSize) <=> Len(db.items) <= Initial)
<1>1. IInv => (InBounds(db, RecordSize) <=> Len(db.items) <= Initial)
  BY ShapeInBounds, RecordAssumption DEF IInv
<1> QED BY <1>1, Invariance, PTL

-----------------------------------------------------------------------------
(* What is still to be read.  A path is ahead as long as a call has to     *)
(* read the entry that leads to it; calls nest along the path being read,  *)
(* so that an entry that was taken never comes up again.                   *)

\* The first k names of a path.
Up(p, k) == SubSeq(p, 1, k)

Ahead(fs, p) == \E k \in 1..Len(fs) : /\ k <= Len(p) /\ Up(p, k - 1) = fs[k].dirpath
                                      /\ p[k] \in fs[k].todo

Nested(fs) == \A k \in 1..Len(fs) : \A j \in 1..(k - 1) :
  Up(fs[k].dirpath, j - 1) = fs[j].dirpath /\ fs[k].dirpath[j] \notin fs[j].todo

LEMMA UpFacts ==
  ASSUME NEW S, NEW p \in Seq(S), NEW k \in 0..Len(p)
  PROVE  /\ Up(p, k) \in Seq(S) /\ Len(Up(p, k)) = k
         /\ \A i \in 1..k : Up(p, k)[i] = p[i] /\ p[i] \in S
<1> DEFINE n == Len(p)
<1>1. n \in Nat /\ \A i \in 1..n : p[i] \in S
  BY ElementOfSeq, LenProperties
<1>2. k \in 0..n
  OBVIOUS
<1> HIDE DEF n
<1>3. 1 \in Int /\ k \in Int /\ \A i \in 1..k : i \in 1..n
  BY <1>1, <1>2
<1>4. \A i \in 1..k : p[i] \in S
  BY <1>1, <1>3
<1>5. /\ SubSeq(p, 1, k) \in Seq(S)
      /\ Len(SubSeq(p, 1, k)) = IF 1 <= k THEN k - 1 + 1 ELSE 0
      /\ \A i \in 1..(k - 1 + 1) : SubSeq(p, 1, k)[i] = p[1 + i - 1]
  BY <1>3, <1>4, SubSeqProperties
<1>6. k - 1 + 1 = k /\ (~ (1 <= k) => k = 0) /\ \A i \in 1..k : 1 + i - 1 = i
  BY <1>1, <1>2
<1> QED BY <1>4, <1>5, <1>6 DEF Up

LEMMA UpUp ==
  ASSUME NEW S, NEW p \in Seq(S), NEW k \in 0..Len(p), NEW j \in 0..k
  PROVE  Up(Up(p, k), j) = Up(p, j)
<1>1. Len(p) \in Nat
  BY LenProperties
<1>2. j \in 0..Len(p) /\ \A i \in 1..j : i \in 1..k
  BY <1>1
<1>3. /\ Up(p, k) \in Seq(S) /\ Len(Up(p, k)) = k
      /\ \A i \in 1..k : Up(p, k)[i] = p[i]
  BY UpFacts
<1>4. /\ Up(p, j) \in Seq(S) /\ Len(Up(p, j)) = j
      /\ \A i \in 1..j : Up(p, j)[i] = p[i]
  BY <1>2, UpFacts
<1>5. /\ Up(Up(p, k), j) \in Seq(S) /\ Len(Up(Up(p, k), j)) = j
      /\ \A i \in 1..j : Up(Up(p, k), j)[i] = Up(p, k)[i]
  BY <1>3, UpFacts
<1> HIDE DEF Up
<1> QED BY <1>2, <1>3, <1>4, <1>5, SeqEqual

LEMMA UpEnds ==
  ASSUME NEW S, NEW p \in Seq(S)
  PROVE  Up(p, 0) = <<>> /\ Up(p, Len(p)) = p
<1>1. Len(p) \in Nat
  BY LenProperties
<1>2. 0 \in 0..Len(p) /\ Len(p) \in 0..Len(p)
  BY <1>1
<1>3. Up(p, 0) \in Seq(S) /\ Len(Up(p, 0)) = 0
  BY <1>2, UpFacts
<1>4. /\ Up(p, Len(p)) \in Seq(S) /\ Len(Up(p, Len(p))) = Len(p)
      /\ \A i \in 1..Len(p) : Up(p, Len(p))[i] = p[i]
  BY <1>2, UpFacts
<1> QED BY <1>3, <1>4, EmptySeq, SeqEqual

\* A path leads through an entry when it leads through the directory and has the
\* entry's name there.
LEMMA UpEntry ==
  ASSUME NEW S, NEW p \in Seq(S), NEW k \in 1..Len(p), NEW d \in Seq(S),
         Len(d) = k - 1, NEW name \in S
  PROVE  Up(p, k) = Append(d, name) <=> Up(p, k - 1) = d /\ p[k] = name
<1>1. Len(p) \in Nat
  BY LenProperties
<1>2. k \in Nat \ {0} /\ k \in 0..Len(p) /\ k - 1 \in 0..Len(p) /\ k - 1 \in 0..k
  BY <1>1
<1>3. /\ Up(p, k) \in Seq(S) /\ Len(Up(p, k)) = k
      /\ \A i \in 1..k : Up(p, k)[i] = p[i]
  BY <1>2, UpFacts
<1>4. /\ Up(p, k - 1) \in Seq(S) /\ Len(Up(p, k - 1)) = k - 1
      /\ \A i \in 1..(k - 1) : Up(p, k - 1)[i] = p[i]
  BY <1>2, UpFacts
<1>5. /\ Append(d, name) \in Seq(S) /\ Len(Append(d, name)) = k - 1 + 1
      /\ \A i \in 1..(k - 1) : Append(d, name)[i] = d[i]
      /\ Append(d, name)[k - 1 + 1] = name
  <2>1. /\ Append(d, name) \in Seq(S) /\ Len(Append(d, name)) = Len(d) + 1
        /\ \A i \in 1..Len(d) : Append(d, name)[i] = d[i]
        /\ Append(d, name)[Len(d) + 1] = name
    BY AppendProperties
  <2> QED BY <2>1
<1>6. /\ k - 1 + 1 = k /\ k \in 1..k
      /\ \A i \in 1..k : i \in 1..(k - 1) \/ i = k
      /\ \A i \in 1..(k - 1) : i \in 1..k
  BY <1>2
<1>7. ASSUME Up(p, k) = Append(d, name) PROVE Up(p, k - 1) = d /\ p[k] = name
  <2>1. \A i \in 1..(k - 1) : Up(p, k - 1)[i] = d[i]
    BY <1>3, <1>4, <1>5, <1>6, <1>7
  <2>2. Up(p, k - 1) = d
    BY <1>4, <2>1, SeqEqual
  <2> QED BY <1>3, <1>5, <1>6, <1>7, <2>2
<1>8. ASSUME Up(p, k - 1) = d, p[k] = name PROVE Up(p, k) = Append(d, name)
  <2>1. \A i \in 1..k : Up(p, k)[i] = Append(d, name)[i]
    BY <1>3, <1>4, <1>5, <1>6, <1>8
  <2> QED BY <1>3, <1>5, <1>6, <2>1, SeqEqual
<1> QED BY <1>7, <1>8

\* The least of a set of natural numbers.
LEMMA LeastElement ==
  ASSUME NEW T, T \subseteq Nat, T # {}
  PROVE  \E n \in T : \A m \in T : n <= m
<1> DEFINE R == OpToRel(<, Nat)
<1>1. IsWellFoundedOn(R, Nat)
  BY NatLessThanWellFounded
<1>2. \A x, y \in Nat : <<y, x>> \in R <=> y < x
  BY DEF OpToRel
<1> HIDE DEF R
<1>3. PICK x \in T : \A y \in T : ~ (<<y, x>> \in R)
  BY <1>1, WFMin
<1>4. ASSUME NEW y \in T PROVE x <= y
  <2>1. x \in Nat /\ y \in Nat /\ ~ (y < x)
    BY <1>2, <1>3
  <2> QED BY <2>1
<1> QED BY <1>4

\* All directories above a path are in the tree.
LEMMA PrefixIsPath ==
  ASSUME NEW p \in Paths, NEW k \in 1..Len(p)
  PROVE  Up(p, k) \in Paths /\ (k # Len(p) => Kind[Up(p, k)] = "dir")
<1> DEFINE n == Len(p)  T == {j \in 0..(n - 1) : Up(p, n - j) \notin Paths}
<1>1. p \in Seq(Strings) /\ n \in Nat
  BY PathsAreSequences, LenProperties
<1>2. ASSUME NEW i \in 1..(n - 1), Up(p, i + 1) \in Paths
      PROVE  Up(p, i) \in Paths /\ Kind[Up(p, i)] = "dir"
  <2>1. i \in Nat /\ i + 1 \in 0..n /\ i \in 0..(i + 1) /\ i \in 0..n
    BY <1>1
  <2>2. Up(p, i + 1) \in Seq(Strings) /\ Len(Up(p, i + 1)) = i + 1
    BY <1>1, <2>1, UpFacts
  <2>3. Front(Up(p, i + 1)) = Up(Up(p, i + 1), i)
    <3>1. i + 1 - 1 = i
      BY <2>1
    <3> QED BY <2>2, <3>1 DEF Front, Up
  <2>4. Front(Up(p, i + 1)) = Up(p, i)
    BY <1>1, <2>1, <2>3, UpUp
  <2>5. Up(p, i) \in Dirs
    BY <1>2, <2>4, PathsAreSequences
  <2>6. Up(p, i) # <<>>
    <3>1. Len(Up(p, i)) = i
      BY <1>1, <2>1, UpFacts
    <3> QED BY <3>1, <2>1, EmptySeq
  <2> HIDE DEF Up
  <2> QED BY <2>5, <2>6 DEF Dirs
<1>3. T = {}
  <2>1. SUFFICES ASSUME T # {} PROVE FALSE
    OBVIOUS
  <2>2. PICK t \in T : \A s \in T : t <= s
    <3>1. T \subseteq Nat
      BY <1>1
    <3> HIDE DEF T
    <3> QED BY <2>1, <3>1, LeastElement
  <2>3. t \in 0..(n - 1) /\ Up(p, n - t) \notin Paths
    BY <2>2
  <2>4. CASE t = 0
    <3>1. n - t = n
      BY <1>1, <2>4
    <3> QED BY <1>1, <2>3, <3>1, UpEnds
  <2>5. CASE t # 0
    <3> HIDE DEF T
    <3>1. t - 1 \in 0..(n - 1) /\ ~ (t <= t - 1) /\ n - t \in 1..(n - 1) /\ n - (t - 1) = (n - t) + 1
      BY <1>1, <2>3, <2>5
    <3>2. t - 1 \notin T
      BY <2>2, <3>1
    <3>3. Up(p, n - (t - 1)) \in Paths
      BY <3>1, <3>2 DEF T
    <3>4. Up(p, (n - t) + 1) \in Paths
      BY <3>1, <3>3
    <3> QED BY <1>2, <2>3, <3>1, <3>4
  <2> QED BY <2>4, <2>5
<1>4. \A i \in 1..n : Up(p, i) \in Paths
  <2> TAKE i \in 1..n
  <2>1. n - i \in 0..(n - 1) /\ n - (n - i) = i
    BY <1>1
  <2>2. Up(p, n - (n - i)) \in Paths
    BY <1>3, <2>1
  <2> QED BY <2>1, <2>2
<1>5. k # n => k \in 1..(n - 1) /\ k + 1 \in 1..n
  BY <1>1
<1> HIDE DEF T
<1> QED BY <1>2, <1>4, <1>5

\* Path p leads through q.
Through(p, q) == Len(q) <= Len(p) /\ Up(p, Len(q)) = q

LEMMA ThroughIsPrefix ==
  ASSUME NEW S, NEW p \in Seq(S), NEW q \in Seq(S)
  PROVE  /\ q \in Prefixes(p) <=> Through(p, q)
         /\ Through(p, q) => \A i \in 1..Len(q) : p[i] = q[i]
<1>1. Len(p) \in Nat /\ Len(q) \in Nat
  BY LenProperties
<1>2. ASSUME NEW l \in 0..Len(p), q = SubSeq(p, 1, l) PROVE Through(p, q)
  <2>1. Len(q) = l
    BY <1>2, UpFacts DEF Up
  <2> QED BY <1>1, <1>2, <2>1 DEF Through, Up
<1>3. ASSUME Through(p, q) PROVE q \in Prefixes(p) /\ \A i \in 1..Len(q) : p[i] = q[i]
  <2>1. Len(q) \in 0..Len(p) /\ Up(p, Len(q)) = q
    BY <1>1, <1>3 DEF Through
  <2>2. \A i \in 1..Len(q) : Up(p, Len(q))[i] = p[i]
    BY <2>1, UpFacts
  <2>3. q = SubSeq(p, 1, Len(q))
    BY <2>1 DEF Up
  <2>4. q \in Prefixes(p)
    BY <2>1, <2>3 DEF Prefixes
  <2> HIDE DEF Up
  <2> QED BY <2>1, <2>2, <2>4
<1> QED BY <1>2, <1>3 DEF Prefixes

LEMMA ThroughTrans ==
  ASSUME NEW S, NEW p \in Seq(S), NEW q \in Seq(S), NEW d \in Seq(S),
         Through(p, q), Through(q, d)
  PROVE  Through(p, d)
<1>1. Len(p) \in Nat /\ Len(q) \in Nat /\ Len(d) \in Nat
  BY LenProperties
<1>2. Len(q) \in 0..Len(p) /\ Len(d) \in 0..Len(q) /\ Len(d) <= Len(p)
  BY <1>1 DEF Through
<1>3. Up(Up(p, Len(q)), Len(d)) = Up(p, Len(d))
  BY <1>2, UpUp
<1> HIDE DEF Up
<1> QED BY <1>2, <1>3 DEF Through

\* What a call of a well-formed stack is.
LEMMA FrameFacts ==
  ASSUME NEW fs, GoodFrames(fs), NEW k \in 1..Len(fs)
  PROVE  /\ k \in Nat \ {0} /\ fs[k] \in Frame /\ fs[k].dirpath \in Dirs
         /\ fs[k].dirpath \in Seq(Strings)
         /\ Len(fs[k].dirpath) = k - 1 /\ fs[k].todo \subseteq Strings
<1>1. fs \in Seq(Frame) /\ GoodFrame(fs[k], k)
  BY DEF GoodFrames
<1>2. fs[k] \in Frame /\ Len(fs) \in Nat
  BY <1>1, ElementOfSeq, LenProperties
<1>3. Dots \subseteq Strings
  BY DEF Strings
<1>4. Names \subseteq Strings
  BY <1>3, PathsAreSequences
<1>5. fs[k].dirpath \in Dirs /\ fs[k].todo \subseteq Names
  BY <1>2 DEF Frame
<1>6. k \in Nat \ {0} /\ Len(fs[k].dirpath) = k - 1
  BY <1>1, <1>2 DEF GoodFrame
<1> QED BY <1>2, <1>4, <1>5, <1>6, PathsAreSequences

\* A path is ahead by a call as far as the call's directory is above it.
LEMMA AheadThrough ==
  ASSUME NEW fs, GoodFrames(fs), NEW k \in 1..Len(fs), NEW p \in Seq(Strings),
         k <= Len(p), Up(p, k - 1) = fs[k].dirpath
  PROVE  Through(p, fs[k].dirpath) /\ k \in 1..Len(p)
         /\ \A i \in 1..(k - 1) : p[i] = fs[k].dirpath[i]
<1>1. k \in Nat \ {0} /\ Len(fs[k].dirpath) = k - 1 /\ Len(p) \in Nat
  BY FrameFacts, LenProperties
<1>2. k - 1 \in 0..Len(p) /\ k \in 1..Len(p) /\ k - 1 <= Len(p)
  BY <1>1
<1>3. \A i \in 1..(k - 1) : Up(p, k - 1)[i] = p[i]
  BY <1>2, UpFacts
<1> HIDE DEF Up
<1> QED BY <1>1, <1>2, <1>3 DEF Through

\* The calls when the last has taken an entry.
Took(fs, name) == [fs EXCEPT ![Len(fs)].todo = @ \ {name}]

LEMMA ConsumedIs ==
  ASSUME NEW fs, GoodFrames(fs), fs # <<>>, NEW name
  PROVE  /\ GoodFrames(Took(fs, name)) /\ Len(Took(fs, name)) = Len(fs)
         /\ \A j \in 1..Len(fs) :
              /\ Took(fs, name)[j].dirpath = fs[j].dirpath
              /\ Took(fs, name)[j].todo \subseteq fs[j].todo
              /\ j # Len(fs) => Took(fs, name)[j].todo = fs[j].todo
         /\ Took(fs, name)[Len(fs)].todo = fs[Len(fs)].todo \ {name}
<1> DEFINE cs == Took(fs, name)
<1>1. GoodFrames(cs) /\ Len(cs) = Len(fs)
  BY ConsumedIsGood DEF Took
<1>2. Len(fs) \in Nat \ {0}
  BY LastIsGood
<1>3. \A j \in 1..Len(fs) : fs[j] \in Frame
  BY FrameFacts
<1>4. DOMAIN fs = 1..Len(fs) /\ Len(fs) \in 1..Len(fs)
  BY <1>2, LenProperties DEF GoodFrames
<1>5. \A j \in 1..Len(fs) : cs[j] = IF j = Len(fs) THEN [fs[j] EXCEPT !.todo = @ \ {name}]
                                    ELSE fs[j]
  BY <1>4 DEF Took
<1>6. /\ \A j \in 1..Len(fs) :
           /\ cs[j].dirpath = fs[j].dirpath
           /\ cs[j].todo \subseteq fs[j].todo
           /\ j # Len(fs) => cs[j].todo = fs[j].todo
      /\ cs[Len(fs)].todo = fs[Len(fs)].todo \ {name}
  <2> HIDE DEF cs
  <2> QED BY <1>3, <1>4, <1>5 DEF Frame
<1> QED BY <1>1, <1>6

\* After an entry is taken, the paths through it are not ahead any more; all
\* others are as before.
LEMMA ConsumedAhead ==
  ASSUME NEW fs, GoodFrames(fs), Nested(fs), fs # <<>>, NEW name \in Last(fs).todo
  PROVE  /\ Nested(Took(fs, name))
         /\ \A p \in Paths : Ahead(Took(fs, name), p) => Ahead(fs, p)
         /\ \A p \in Paths : Ahead(fs, p) =>
              Ahead(Took(fs, name), p) \/ Through(p, PathOf(Last(fs), name))
         /\ \A p \in Paths : Through(p, PathOf(Last(fs), name)) =>
              Ahead(fs, p) /\ ~ Ahead(Took(fs, name), p)
<1> DEFINE cs == Took(fs, name)  q == PathOf(Last(fs), name)  n == Len(fs)
<1>1. n \in Nat \ {0} /\ n \in 1..n /\ Last(fs) = fs[n]
  BY LastIsGood DEF Last
<1>2. /\ Len(cs) = n
      /\ \A j \in 1..n : /\ cs[j].dirpath = fs[j].dirpath
                         /\ cs[j].todo \subseteq fs[j].todo
                         /\ j # n => cs[j].todo = fs[j].todo
      /\ cs[n].todo = fs[n].todo \ {name}
  BY ConsumedIs
<1> HIDE DEF cs
<1>3. /\ fs[n].dirpath \in Seq(Strings) /\ Len(fs[n].dirpath) = n - 1 /\ name \in Strings
      /\ q = Append(fs[n].dirpath, name)
  BY <1>1, FrameFacts DEF PathOf
<1>4. Len(q) = n
  <2>1. Len(q) = n - 1 + 1
    BY <1>3, AppendProperties
  <2> QED BY <1>1, <2>1
<1> HIDE DEF n, q
<1>5. Nested(cs)
  <2>1. \A k \in 1..n : \A j \in 1..(k - 1) : j \in 1..n
    BY <1>1
  <2> QED BY <1>2, <2>1 DEF Nested, n
<1>6. ASSUME NEW p \in Paths PROVE Ahead(cs, p) => Ahead(fs, p)
  BY <1>2 DEF Ahead, n
<1>7. ASSUME NEW p \in Paths
      PROVE  Through(p, q) <=> n <= Len(p) /\ Up(p, n - 1) = fs[n].dirpath /\ p[n] = name
  <2>1. p \in Seq(Strings) /\ Len(p) \in Nat
    BY PathsAreSequences, LenProperties
  <2>2. n <= Len(p) => n \in 1..Len(p)
    BY <1>1, <2>1
  <2>3. n <= Len(p) => (Up(p, n) = q <=> Up(p, n - 1) = fs[n].dirpath /\ p[n] = name)
    <3>1. ASSUME n \in 1..Len(p)
          PROVE  Up(p, n) = Append(fs[n].dirpath, name) <=>
                   Up(p, n - 1) = fs[n].dirpath /\ p[n] = name
      <4> DEFINE e == fs[n].dirpath
      <4>1. e \in Seq(Strings) /\ Len(e) = n - 1 /\ name \in Strings /\ p \in Seq(Strings)
        BY <1>3, <2>1
      <4> HIDE DEF e, Up
      <4>2. Up(p, n) = Append(e, name) <=> Up(p, n - 1) = e /\ p[n] = name
        BY <3>1, <4>1, UpEntry
      <4> QED BY <4>2 DEF e
    <3> QED BY <1>3, <2>2, <3>1
  <2> QED BY <1>4, <2>3 DEF Through
<1>8. ASSUME NEW p \in Paths, Ahead(fs, p) PROVE Ahead(cs, p) \/ Through(p, q)
  <2>1. PICK k \in 1..n : k <= Len(p) /\ Up(p, k - 1) = fs[k].dirpath /\ p[k] \in fs[k].todo
    BY <1>8 DEF Ahead, n
  <2> QED BY <1>2, <1>7, <2>1 DEF Ahead
<1>9. ASSUME NEW p \in Paths, Through(p, q) PROVE Ahead(fs, p) /\ ~ Ahead(cs, p)
  <2>1. n <= Len(p) /\ Up(p, n - 1) = fs[n].dirpath /\ p[n] = name
    BY <1>7, <1>9
  <2>2. Ahead(fs, p)
    BY <1>1, <2>1 DEF Ahead, n
  <2>3. ASSUME NEW k \in 1..n, p[k] \in cs[k].todo PROVE FALSE
    <3>1. CASE k = n
      BY <1>2, <2>1, <2>3, <3>1
    <3>2. CASE k # n
      <4>1. k \in 1..(n - 1) /\ p \in Seq(Strings)
        BY <1>1, <2>3, <3>2, PathsAreSequences
      <4>2. p[k] = fs[n].dirpath[k]
        <5>1. \A i \in 1..(n - 1) : p[i] = fs[n].dirpath[i]
          BY <1>1, <2>1, <4>1, AheadThrough DEF n
        <5> QED BY <4>1, <5>1
      <4>3. fs[n].dirpath[k] \notin fs[k].todo
        BY <1>1, <4>1 DEF Nested, n
      <4> QED BY <1>2, <2>3, <4>2, <4>3
    <3> QED BY <3>1, <3>2
  <2> QED BY <1>2, <2>2, <2>3 DEF Ahead
<1> QED BY <1>5, <1>6, <1>8, <1>9 DEF cs, q

\* The next entry on the way to a path is one that a call for d has to read.
LEMMA EntryOfCall ==
  ASSUME NEW d \in Dirs, NEW p \in Paths, Through(p, d), p # d
  PROVE  Len(d) + 1 <= Len(p) /\ Up(p, Len(d)) = d /\ p[Len(d) + 1] \in Call(d).todo
<1> DEFINE n == Len(d)  q == Up(p, n + 1)
<1>1. /\ p \in Seq(Strings) /\ d \in Seq(Strings) /\ Len(p) \in Nat /\ n \in Nat
      /\ n <= Len(p) /\ Up(p, n) = d
  BY PathsAreSequences, LenProperties DEF Through
<1>2. n # Len(p)
  BY <1>1, UpEnds
<1> HIDE DEF n
<1>3. n + 1 \in 1..Len(p) /\ n + 1 \in 0..Len(p) /\ n \in 0..(n + 1) /\ n + 1 \in 1..(n + 1)
  BY <1>1, <1>2
<1>4. q \in Paths
  BY <1>3, PrefixIsPath
<1>5. Len(q) = n + 1 /\ q[n + 1] = p[n + 1]
  <2> DEFINE m == n + 1
  <2>1. p \in Seq(Strings) /\ m \in 0..Len(p)
    BY <1>1, <1>3
  <2> HIDE DEF m
  <2>2. Len(Up(p, m)) = m
    BY <2>1, UpFacts
  <2>3. \A i \in 1..m : Up(p, m)[i] = p[i]
    BY <2>1, UpFacts
  <2> QED BY <1>3, <2>2, <2>3 DEF m
<1>6. Up(q, n) = d
  BY <1>1, <1>3, UpUp
<1>7. Front(q) = d /\ Last(q) = p[n + 1]
  <2>1. Front(q) = Up(q, n)
    BY <1>1, <1>5 DEF Front, Up
  <2>2. Last(q) = p[n + 1]
    BY <1>5 DEF Last
  <2> HIDE DEF q
  <2> QED BY <1>6, <2>1, <2>2
<1>8. p[n + 1] \in Call(d).todo
  <2> HIDE DEF q
  <2> QED BY <1>4, <1>7 DEF Call
<1> QED BY <1>1, <1>3, <1>8 DEF n

\* A call for the directory that an entry names puts the paths below it ahead.
LEMMA CalledAhead ==
  ASSUME NEW cs, GoodFrames(cs), Nested(cs), cs # <<>>, NEW d \in Dirs, Len(d) = Len(cs),
         Up(d, Len(cs) - 1) = cs[Len(cs)].dirpath, d[Len(cs)] \notin cs[Len(cs)].todo,
         NEW as, as = Append(cs, Call(d))
  PROVE  /\ Nested(as)
         /\ \A p \in Paths : Ahead(cs, p) => Ahead(as, p)
         /\ \A p \in Paths : Ahead(as, p) => Ahead(cs, p) \/ Through(p, d)
         /\ \A p \in Paths : Through(p, d) /\ p # d => Ahead(as, p)
<1> DEFINE n == Len(cs)
<1>1. /\ n \in Nat \ {0} /\ n \in 1..n /\ cs \in Seq(Frame) /\ d \in Seq(Strings)
      /\ \A k \in 1..(n + 1) : k \in 1..n \/ k = n + 1
      /\ n + 1 - 1 = n
  BY LastIsGood, PathsAreSequences DEF GoodFrames
<1>2. Call(d) \in Frame /\ Call(d).dirpath = d
  BY DEF Call, Frame, Names
<1>3. /\ Len(as) = n + 1 /\ as[n + 1] = Call(d)
      /\ \A k \in 1..n : as[k] = cs[k]
  BY <1>1, <1>2, AppendProperties
<1>4. Len(d) = n /\ Up(d, n - 1) = cs[n].dirpath /\ d[n] \notin cs[n].todo
  OBVIOUS
<1>5. cs[n].dirpath \in Seq(Strings) /\ Len(cs[n].dirpath) = n - 1
  BY <1>1, FrameFacts
<1> HIDE DEF n
<1>6. ASSUME NEW k \in 1..n, NEW j \in 1..(k - 1)
      PROVE  Up(cs[k].dirpath, j - 1) = cs[j].dirpath /\ cs[k].dirpath[j] \notin cs[j].todo
  BY <1>6 DEF Nested, n
<1>7. ASSUME NEW j \in 1..n
      PROVE  Up(d, j - 1) = cs[j].dirpath /\ d[j] \notin cs[j].todo
  <2>1. CASE j = n
    BY <1>4, <2>1
  <2>2. CASE j # n
    <3>1. j \in 1..(n - 1) /\ n - 1 \in 0..Len(d) /\ j - 1 \in 0..(n - 1)
      BY <1>1, <1>4, <1>7, <2>2
    <3>2. Up(Up(d, n - 1), j - 1) = Up(d, j - 1)
      BY <1>1, <3>1, UpUp
    <3>3. Up(d, n - 1)[j] = d[j]
      <4>1. \A i \in 1..(n - 1) : Up(d, n - 1)[i] = d[i]
        <5> DEFINE m == n - 1
        <5>1. d \in Seq(Strings) /\ m \in 0..Len(d)
          BY <1>1, <3>1
        <5> HIDE DEF m
        <5>2. \A i \in 1..m : Up(d, m)[i] = d[i]
          BY <5>1, UpFacts
        <5> QED BY <5>2 DEF m
      <4> QED BY <3>1, <4>1
    <3>4. Up(cs[n].dirpath, j - 1) = cs[j].dirpath /\ cs[n].dirpath[j] \notin cs[j].todo
      BY <1>1, <1>6, <3>1
    <3> HIDE DEF Up
    <3> QED BY <1>4, <3>2, <3>3, <3>4
  <2> QED BY <2>1, <2>2
<1>8. Nested(as)
  <2>1. \A k \in 1..n : \A j \in 1..(k - 1) : j \in 1..n
    BY <1>1
  <2>2. \A k \in 1..n : \A j \in 1..(k - 1) :
          Up(as[k].dirpath, j - 1) = as[j].dirpath /\ as[k].dirpath[j] \notin as[j].todo
    BY <1>3, <1>6, <2>1
  <2>3. \A j \in 1..n :
          Up(as[n + 1].dirpath, j - 1) = as[j].dirpath /\ as[n + 1].dirpath[j] \notin as[j].todo
    BY <1>2, <1>3, <1>7
  <2> HIDE DEF Up
  <2> QED BY <1>1, <1>3, <2>2, <2>3 DEF Nested
<1>9. ASSUME NEW p \in Paths, Ahead(cs, p) PROVE Ahead(as, p)
  <2>1. PICK k \in 1..n : k <= Len(p) /\ Up(p, k - 1) = cs[k].dirpath /\ p[k] \in cs[k].todo
    BY <1>9 DEF Ahead, n
  <2>2. k \in 1..(n + 1)
    BY <1>1
  <2> QED BY <1>3, <2>1, <2>2 DEF Ahead
<1>10. ASSUME NEW p \in Paths, Ahead(as, p) PROVE Ahead(cs, p) \/ Through(p, d)
  <2>1. PICK k \in 1..(n + 1) : k <= Len(p) /\ Up(p, k - 1) = as[k].dirpath /\ p[k] \in as[k].todo
    BY <1>3, <1>10 DEF Ahead
  <2>2. CASE k \in 1..n
    BY <1>3, <2>1, <2>2 DEF Ahead, n
  <2>3. CASE k = n + 1
    <3>1. Len(p) \in Nat
      BY PathsAreSequences, LenProperties
    <3>2. n <= Len(p) /\ Up(p, n) = d
      <4>1. n + 1 <= Len(p) /\ Up(p, n + 1 - 1) = d
        <5>1. as[k].dirpath = d
          BY <1>2, <1>3, <2>3
        <5> HIDE DEF Up
        <5> QED BY <1>1, <2>1, <2>3, <5>1
      <4> QED BY <1>1, <3>1, <4>1
    <3> QED BY <1>4, <3>2 DEF Through
  <2> QED BY <1>1, <2>1, <2>2, <2>3
<1>11. ASSUME NEW p \in Paths, Through(p, d), p # d PROVE Ahead(as, p)
  <2>1. n + 1 <= Len(p) /\ Up(p, n) = d /\ p[n + 1] \in Call(d).todo
    BY <1>4, <1>11, EntryOfCall
  <2>2. n + 1 <= Len(p) /\ Up(p, n + 1 - 1) = d
    BY <1>1, <2>1
  <2>3. n + 1 \in 1..(n + 1)
    BY <1>1
  <2>4. p[n + 1] \in Call(d).todo
    BY <2>1
  <2> DEFINE k == n + 1
  <2>5. /\ k \in 1..Len(as) /\ k <= Len(p)
        /\ Up(p, k - 1) = as[k].dirpath /\ p[k] \in as[k].todo
    <3>1. as[k].dirpath = d /\ as[k].todo = Call(d).todo /\ Len(as) = k
      BY <1>2, <1>3
    <3>2. k \in 1..k /\ k <= Len(p) /\ p[k] \in Call(d).todo
      BY <2>2, <2>3, <2>4
    <3>3. Up(p, k - 1) = d
      <4>1. k - 1 = n
        BY <1>1
      <4> HIDE DEF k
      <4> QED BY <2>1, <4>1
    <3> HIDE DEF k
    <3> QED BY <3>1, <3>2, <3>3
  <2> HIDE DEF k
  <2> QED BY <2>5 DEF Ahead
<1> QED BY <1>8, <1>9, <1>10, <1>11

\* When a call returns, only paths that it had still to read are no longer ahead.
LEMMA ReturnedAhead ==
  ASSUME NEW fs, GoodFrames(fs), Nested(fs), fs # <<>>, NEW rs, rs = Front(fs)
  PROVE  /\ Nested(rs) /\ Len(rs) = Len(fs) - 1
         /\ \A k \in 1..(Len(fs) - 1) : rs[k] = fs[k]
         /\ \A p \in Paths : Ahead(rs, p) => Ahead(fs, p)
         /\ \A p \in Paths : Ahead(fs, p) =>
              \/ Ahead(rs, p)
              \/ Through(p, Last(fs).dirpath) /\ Last(fs).todo # {}
<1> DEFINE n == Len(fs)
<1>1. n \in Nat \ {0} /\ n \in 1..n /\ Last(fs) = fs[n] /\ fs \in Seq(Frame)
  BY LastIsGood DEF Last, GoodFrames
<1>2. Len(rs) = n - 1
  BY FrontIsGood
<1>3. \A k \in 1..(n - 1) : rs[k] = fs[k]
  <2>1. rs = Up(fs, n - 1) /\ n - 1 \in 0..Len(fs)
    BY <1>1 DEF Front, Up
  <2> DEFINE m == n - 1
  <2>2. rs = Up(fs, m) /\ m \in 0..Len(fs) /\ fs \in Seq(Frame)
    BY <1>1, <2>1
  <2> HIDE DEF m
  <2>3. \A k \in 1..m : rs[k] = fs[k]
    BY <2>2, UpFacts
  <2> QED BY <2>3 DEF m
<1>4. \A p \in Paths : p \in Seq(Strings)
  BY PathsAreSequences
<1> HIDE DEF n
<1>5. /\ \A k \in 1..(n - 1) : k \in 1..n
      /\ \A k \in 1..(n - 1) : \A j \in 1..(k - 1) : j \in 1..(n - 1)
      /\ \A k \in 1..n : k \in 1..(n - 1) \/ k = n
  BY <1>1
<1>6. Nested(rs)
  <2>1. \A k \in 1..(n - 1) : \A j \in 1..(k - 1) :
          Up(fs[k].dirpath, j - 1) = fs[j].dirpath /\ fs[k].dirpath[j] \notin fs[j].todo
    BY <1>5 DEF Nested, n
  <2>2. \A k \in 1..(n - 1) : \A j \in 1..(k - 1) :
          Up(rs[k].dirpath, j - 1) = rs[j].dirpath /\ rs[k].dirpath[j] \notin rs[j].todo
    BY <1>3, <1>5, <2>1
  <2> QED BY <1>2, <2>2 DEF Nested
<1>7. \A p \in Paths : Ahead(rs, p) => Ahead(fs, p)
  BY <1>2, <1>3, <1>5 DEF Ahead, n
<1>8. ASSUME NEW p \in Paths, Ahead(fs, p)
      PROVE  Ahead(rs, p) \/ (Through(p, fs[n].dirpath) /\ fs[n].todo # {})
  <2>1. PICK k \in 1..n : k <= Len(p) /\ Up(p, k - 1) = fs[k].dirpath /\ p[k] \in fs[k].todo
    BY <1>8 DEF Ahead, n
  <2>2. CASE k \in 1..(n - 1)
    BY <1>2, <1>3, <2>1, <2>2 DEF Ahead
  <2>3. CASE k = n
    BY <1>1, <1>4, <2>1, <2>3, AheadThrough DEF n
  <2> QED BY <1>5, <2>2, <2>3
<1> QED BY <1>1, <1>2, <1>3, <1>6, <1>7, <1>8 DEF n

-----------------------------------------------------------------------------
(* What has been found.                                                    *)

Bad(p) == IF p \in Dirs THEN Broken(p) ELSE now[p] # 1

TroubleBelow(d) == \E p \in Dirs \cup Files : Through(p, d) /\ Bad(p)

\* A file that may be missing: there is trouble in a subdirectory above it, or the
\* shared directory itself may fail to be read.
Excused(f) == \E d \in Dirs : (d # <<>> \/ d \in denied) /\ Through(f, d) /\ TroubleBelow(d)

\* Records are of different files, and of what an unchanged file holds.
GoodRecords ==
  Undamaged => \A k \in DOMAIN db.items :
    /\ db.items[k].name \in Files
    /\ \A j \in DOMAIN db.items : db.items[j].name = db.items[k].name => j = k
    /\ now[db.items[k].name] = 1 => db.items[k].hash = 1 /\ db.items[k].size = 1
    /\ ~ Ahead(frames, db.items[k].name)

\* The file being hashed.
GoodBuff ==
  pc = "hash" => /\ Through(buff, Last(frames).dirpath)
                 /\ ~ Ahead(frames, buff) /\ (Undamaged => buff \notin Listed)
                 /\ Exists(buff) /\ now[buff] = 1 => size = 1
                 /\ errno => ~ slash \/ now[buff] # 1

\* A file that is neither listed nor to come was left out for a trouble nearby.
AllFound ==
  pc \in {"scan", "hash", "ready"} /\ Undamaged =>
    \A f \in Files \ Listed : \/ Ahead(frames, f) \/ Excused(f)
                              \/ pc = "hash" /\ f = buff

ScanInv ==
  /\ IInv /\ Nested(frames)
  /\ GoodRecords /\ GoodBuff /\ AllFound
  /\ pc = "start" => db.items = <<>> /\ ~ errno
  /\ pc = "ready" => Len(frames) = 0
  /\ errno /\ pc = "scan" => TroubleBelow(Last(frames).dirpath)

\* What a path to a file leads through: directories, and the file.
LEMMA WayToFile ==
  ASSUME NEW f \in Files, NEW q, Through(f, q), Len(q) \in Nat \ {0}
  PROVE  q \in Paths /\ (q = f \/ Kind[q] = "dir") /\ Kind[f] = "reg" /\ f \in Paths
<1>1. f \in Paths /\ Kind[f] = "reg" /\ f \in Seq(Strings)
  BY PathsAreSequences DEF Files
<1>2. Len(f) \in Nat
  BY <1>1, LenProperties
<1>3. Len(q) \in 1..Len(f) /\ Up(f, Len(q)) = q
  BY <1>2 DEF Through
<1>4. Up(f, Len(q)) \in Paths /\ (Len(q) # Len(f) => Kind[Up(f, Len(q))] = "dir")
  BY <1>1, <1>3, PrefixIsPath
<1>5. Up(f, Len(f)) = f
  BY <1>1, UpEnds
<1> QED BY <1>1, <1>3, <1>4, <1>5

LEMMA FilesAreNotDirs == Files \cap Dirs = {}
BY PathsAreSequences DEF Files, Dirs

LEMMA ThroughSelf ==
  ASSUME NEW p \in Dirs \cup Files
  PROVE  p \in Seq(Strings) /\ Through(p, p)
<1>1. p \in Seq(Strings)
  BY PathsAreSequences DEF Files
<1> QED BY <1>1, UpEnds, LenProperties DEF Through

\* A step of the scan that inserts no record and reads no file.
LEMMA ScanStep ==
  ASSUME ScanInv, IInv', Nested(frames'), pc = "scan", pc' \in {"scan", "ready", "exit"},
         UNCHANGED <<db, fsVars>>,
         \A f \in Files : Ahead(frames', f) => Ahead(frames, f),
         pc' # "exit" => \A f \in Files : Ahead(frames, f) => Ahead(frames', f) \/ Excused(f),
         errno' /\ pc' = "scan" => TroubleBelow(Last(frames').dirpath),
         pc' = "ready" => Len(frames') = 0
  PROVE  ScanInv'
<1>1. /\ \A p : Bad(p)' = Bad(p)
      /\ \A d : TroubleBelow(d)' = TroubleBelow(d)
      /\ \A f : Excused(f)' = Excused(f)
      /\ Listed' = Listed /\ Undamaged' = Undamaged
  BY DEF fsVars, Bad, Broken, Resolves, TroubleBelow, Excused, Listed, Undamaged
<1>3. GoodRecords'
  BY <1>1 DEF ScanInv, GoodRecords, fsVars
<1>4. AllFound'
  BY <1>1 DEF ScanInv, AllFound
<1>5. (errno /\ pc = "scan" => TroubleBelow(Last(frames).dirpath))'
  BY <1>1 DEF TroubleBelow, Bad, Broken, Resolves, fsVars
<1> QED BY <1>3, <1>4, <1>5 DEF ScanInv, GoodBuff

\* What reading an entry of a kind leaves, whatever is done with it.
LEMMA EntryTaken ==
  ASSUME ScanInv, NEW name, NEW kinds, Reads(name, kinds)
  PROVE  LET cs == Consumed(name)
             q == PathOf(Last(frames), name)
         IN  /\ GoodFrames(cs) /\ Nested(cs) /\ cs # <<>> /\ Len(cs) = Len(frames)
             /\ Last(cs).dirpath = Last(frames).dirpath
             /\ Last(cs).dirpath \in Seq(Strings)
             /\ Len(q) = Len(frames) /\ q \in Seq(Strings)
             /\ Through(q, Last(cs).dirpath)
             /\ Up(q, Len(cs) - 1) = cs[Len(cs)].dirpath
             /\ q[Len(cs)] \notin cs[Len(cs)].todo
             /\ Len(frames) \in Nat \ {0}
             /\ \A f \in Files : Ahead(cs, f) => Ahead(frames, f)
             /\ \A f \in Files : Ahead(frames, f) => Ahead(cs, f) \/ Through(f, q)
             /\ \A f \in Files : Through(f, q) => Ahead(frames, f) /\ ~ Ahead(cs, f)
<1> DEFINE cs == Consumed(name)  q == PathOf(Last(frames), name)  n == Len(frames)
<1>1. GoodFrames(frames) /\ frames # <<>> /\ Nested(frames) /\ name \in Last(frames).todo
  BY DEF ScanInv, IInv, Reads
<1>2. /\ GoodFrames(cs) /\ Len(cs) = n
      /\ cs[n].dirpath = frames[n].dirpath /\ cs[n].todo = frames[n].todo \ {name}
      /\ n \in Nat \ {0} /\ n \in 1..n
  <2>1. n \in Nat \ {0}
    BY <1>1, LastIsGood
  <2>2. n \in 1..n
    BY <2>1
  <2>3. cs = Took(frames, name)
    BY DEF Consumed, Took
  <2> HIDE DEF cs
  <2> QED BY <1>1, <2>1, <2>2, <2>3, ConsumedIs
<1>3. cs # <<>>
  BY <1>2, EmptySeq
<1>4. Last(frames) = frames[n] /\ Last(cs) = cs[n]
  BY <1>2 DEF Last
<1>5. /\ Nested(cs)
      /\ \A p \in Paths : Ahead(cs, p) => Ahead(frames, p)
      /\ \A p \in Paths : Ahead(frames, p) => Ahead(cs, p) \/ Through(p, q)
      /\ \A p \in Paths : Through(p, q) => Ahead(frames, p) /\ ~ Ahead(cs, p)
  <2>1. cs = Took(frames, name)
    BY DEF Consumed, Took
  <2>2. q = PathOf(Last(frames), name)
    OBVIOUS
  <2> HIDE DEF cs, q
  <2> QED BY <1>1, <2>1, <2>2, ConsumedAhead
<1>6. /\ frames[n].dirpath \in Seq(Strings) /\ Len(frames[n].dirpath) = n - 1
      /\ name \in Strings /\ q = Append(frames[n].dirpath, name)
  BY <1>1, <1>2, <1>4, FrameFacts DEF PathOf
<1>7. Len(q) = n /\ q \in Seq(Strings)
  <2>1. Len(q) = n - 1 + 1 /\ q \in Seq(Strings)
    BY <1>6, AppendProperties
  <2> QED BY <1>2, <2>1
<1>8. Up(q, n - 1) = frames[n].dirpath /\ q[n] = name
  <2> DEFINE e == frames[n].dirpath
  <2>1. /\ q \in Seq(Strings) /\ n \in 1..Len(q) /\ e \in Seq(Strings) /\ Len(e) = n - 1
        /\ name \in Strings
    BY <1>2, <1>6, <1>7
  <2>2. Up(q, n) = q
    BY <1>7, UpEnds
  <2> HIDE DEF e, q, n
  <2>3. Up(q, n) = Append(e, name) <=> Up(q, n - 1) = e /\ q[n] = name
    BY <2>1, UpEntry
  <2> QED BY <1>6, <2>2, <2>3 DEF e
<1>9. Through(q, frames[n].dirpath)
  <2>1. n - 1 <= n
    BY <1>2
  <2> QED BY <1>6, <1>7, <1>8, <2>1 DEF Through
<1> HIDE DEF cs, q, n
<1>10. \A f \in Files : f \in Paths
  BY DEF Files
<1>11. cs[n].todo = frames[n].todo \ {name} /\ q[n] \notin cs[n].todo
  BY <1>2, <1>8
<1> QED BY <1>1, <1>2, <1>3, <1>4, <1>5, <1>6, <1>7, <1>8, <1>9, <1>10, <1>11 DEF cs, q, n

LEMMA ScanInit == Init => ScanInv
<1> SUFFICES ASSUME Init PROVE ScanInv
  OBVIOUS
<1>1. IInv
  BY InitHolds
<1>2. frames = <<>> /\ db.items = <<>> /\ pc = "start" /\ ~ errno
  BY DEF Init, New
<1>3. Len(frames) = 0 /\ DOMAIN db.items = {}
  BY <1>2, EmptySeq
<1>4. Nested(frames)
  BY <1>3 DEF Nested
<1> QED BY <1>1, <1>2, <1>3, <1>4 DEF ScanInv, GoodRecords, GoodBuff, AllFound

LEMMA SkipScans ==
  ASSUME ScanInv, IInv', NEW name, Skip(name)
  PROVE  ScanInv'
<1> DEFINE cs == Consumed(name)  q == PathOf(Last(frames), name)
<1>1. Reads(name, {"dots", "other"}) /\ pc = "scan" /\ pc' = "scan" /\ frames' = cs
      /\ errno' = errno /\ UNCHANGED <<db, fsVars>> /\ ~ errno
  BY DEF Skip, Reads
<1>2. /\ Nested(cs) /\ Len(q) \in Nat \ {0}
      /\ \A f \in Files : Ahead(cs, f) => Ahead(frames, f)
      /\ \A f \in Files : Ahead(frames, f) => Ahead(cs, f) \/ Through(f, q)
  BY <1>1, EntryTaken
<1>3. ASSUME NEW f \in Files, Through(f, q) PROVE FALSE
  <2>1. q \in Paths /\ (q = f \/ Kind[q] = "dir") /\ Kind[f] = "reg"
    BY <1>2, <1>3, WayToFile
  <2>2. Last(frames).dirpath \in Seq(Strings) /\ name \in Strings
    <3>1. GoodFrames(frames) /\ frames # <<>> /\ name \in Last(frames).todo
      BY DEF ScanInv, IInv, Skip, Reads
    <3>2. Len(frames) \in 1..Len(frames) /\ Last(frames) = frames[Len(frames)]
      BY <3>1, LastIsGood DEF Last
    <3> QED BY <3>1, <3>2, FrameFacts
  <2>3. Last(q) = name
    <3> DEFINE e == Last(frames).dirpath
    <3>1. q = Append(e, name) /\ e \in Seq(Strings) /\ name \in Strings
      BY <2>2 DEF PathOf
    <3> HIDE DEF e, q
    <3>2. Append(e, name)[Len(e) + 1] = name
      BY <3>1, AppendProperties
    <3>3. Len(Append(e, name)) = Len(e) + 1
      BY <3>1, AppendProperties
    <3> QED BY <3>1, <3>2, <3>3 DEF Last
  <2>4. name \notin Dots
    BY <2>1, <2>3, PathsAreSequences
  <2>5. Kind[q] \in {"dots", "other"}
    BY <2>4 DEF Skip, Reads, KindOf
  <2> QED BY <2>1, <2>5
<1> HIDE DEF cs, q
<1> QED BY <1>1, <1>2, <1>3, ScanStep

LEMMA DirectoryScans ==
  ASSUME ScanInv, IInv', NEW name, Directory(name)
  PROVE  ScanInv'
<1> DEFINE cs == Consumed(name)  d == PathOf(Last(frames), name)
<1>1. /\ Reads(name, {"dir"}) /\ pc = "scan" /\ pc' = "scan"
      /\ UNCHANGED <<db, fsVars>> /\ ~ errno
      /\ \/ Resolves(d) /\ frames' = Append(cs, Call(d)) /\ UNCHANGED errno
         \/ Broken(d) /\ frames' = cs /\ errno' = TRUE
  BY DEF Directory, Reads
<1>2. d \in Paths /\ Kind[d] = "dir"
  <2>1. Reads(name, {"dir", "reg"}) /\ IInv
    BY DEF Directory, Reads, ScanInv
  <2> QED BY <1>1, <2>1, EntryRead DEF Reads
<1>3. /\ GoodFrames(cs) /\ Nested(cs) /\ cs # <<>> /\ Len(cs) = Len(frames)
      /\ Last(cs).dirpath = Last(frames).dirpath
      /\ Len(d) = Len(cs) /\ Len(d) \in Nat \ {0}
      /\ Through(d, Last(cs).dirpath)
      /\ Up(d, Len(cs) - 1) = cs[Len(cs)].dirpath
      /\ d[Len(cs)] \notin cs[Len(cs)].todo
      /\ \A f \in Files : Ahead(cs, f) => Ahead(frames, f)
      /\ \A f \in Files : Ahead(frames, f) => Ahead(cs, f) \/ Through(f, d)
      /\ \A f \in Files : Through(f, d) => Ahead(frames, f) /\ ~ Ahead(cs, f)
  BY <1>1, EntryTaken
<1>4. d \in Dirs /\ d # <<>> /\ d \notin Files /\ Files \subseteq Paths
  BY <1>2, PathsAreSequences DEF Dirs, Files
<1> HIDE DEF cs, d
<1>5. CASE Resolves(d) /\ frames' = Append(cs, Call(d)) /\ UNCHANGED errno
  <2> DEFINE as == Append(cs, Call(d))
  <2>1. /\ Nested(as)
        /\ \A p \in Paths : Ahead(cs, p) => Ahead(as, p)
        /\ \A p \in Paths : Ahead(as, p) => Ahead(cs, p) \/ Through(p, d)
        /\ \A p \in Paths : Through(p, d) /\ p # d => Ahead(as, p)
    BY <1>3, <1>4, CalledAhead
  <2>2. \A f \in Files : Ahead(as, f) <=> Ahead(frames, f)
    BY <1>3, <1>4, <2>1
  <2> HIDE DEF as
  <2>3. frames' = as
    BY <1>5 DEF as
  <2> QED BY <1>1, <1>5, <2>1, <2>2, <2>3, ScanStep
<1>6. CASE Broken(d) /\ frames' = cs /\ errno' = TRUE
  <2>1. Through(d, d) /\ Bad(d)
    BY <1>4, <1>6, ThroughSelf DEF Bad
  <2>2. TroubleBelow(d)
    BY <1>4, <2>1 DEF TroubleBelow
  <2>3. TroubleBelow(Last(cs).dirpath)
    BY <1>3, <1>4, <2>1 DEF TroubleBelow
  <2>4. \A f \in Files : Through(f, d) => Excused(f)
    BY <1>4, <2>2 DEF Excused
  <2> QED BY <1>1, <1>3, <1>6, <2>3, <2>4, ScanStep
<1> QED BY <1>1, <1>5, <1>6

\* A call returns with entries unread only after an error, its own readdir's or one
\* left behind.
LEMMA ReturnScans ==
  ASSUME ScanInv, IInv', pc = "scan", NEW result, Return(result),
         UNCHANGED <<buff, size, db, fsVars>>,
         errno' => errno \/ Last(frames).dirpath \in denied,
         Last(frames).todo # {} =>
           (errno /\ result < 0) \/ Last(frames).dirpath \in denied
  PROVE  ScanInv'
<1> DEFINE n == Len(frames)  rs == Front(frames)  e == Last(frames).dirpath
<1>1. GoodFrames(frames) /\ Nested(frames) /\ frames # <<>>
  BY DEF ScanInv, IInv
<1>2. n \in Nat \ {0} /\ n \in 1..n /\ Last(frames) = frames[n]
  BY <1>1, LastIsGood DEF Last
<1>3. e \in Dirs /\ e \in Seq(Strings) /\ Len(e) = n - 1
  BY <1>1, <1>2, FrameFacts
<1>4. /\ Nested(rs) /\ Len(rs) = n - 1 /\ \A k \in 1..(n - 1) : rs[k] = frames[k]
      /\ \A p \in Paths : Ahead(rs, p) => Ahead(frames, p)
      /\ \A p \in Paths : Ahead(frames, p) =>
           Ahead(rs, p) \/ (Through(p, e) /\ Last(frames).todo # {})
  BY <1>1, ReturnedAhead
<1>5. /\ frames' = rs /\ pc' \in {"scan", "ready", "exit"}
      /\ n > 1 => pc' = "scan"
      /\ n <= 1 => pc' = IF result < 0 THEN "exit" ELSE "ready"
  BY <1>2 DEF Return
<1>6. Files \subseteq Paths
  BY DEF Files
<1>7. errno \/ errno' \/ e \in denied => TroubleBelow(e)
  <2>1. e \in denied => Bad(e) /\ Through(e, e)
    BY <1>3, ThroughSelf DEF Bad, Broken
  <2> HIDE DEF e
  <2>2. e \in denied => TroubleBelow(e)
    BY <1>3, <2>1 DEF TroubleBelow
  <2> QED BY <2>2 DEF ScanInv, e
<1>8. ASSUME errno', n > 1 PROVE TroubleBelow(Last(rs).dirpath)
  <2> DEFINE m == n - 1
  <2>1. m \in 1..(n - 1) /\ m \in 1..n /\ m - 1 \in 0..m
    BY <1>2, <1>8
  <2>2. Last(rs) = frames[m]
    BY <1>4, <2>1 DEF Last
  <2> DEFINE g == frames[m].dirpath
  <2>3. g \in Dirs /\ g \in Seq(Strings) /\ Len(g) = m - 1
    BY <1>1, <2>1, FrameFacts
  <2>4. Up(e, m - 1) = g
    BY <1>1, <1>2, <2>1 DEF Nested
  <2>5. Through(e, g)
    <3>1. m - 1 <= n - 1 /\ Len(e) = n - 1
      BY <1>2, <1>3
    <3> HIDE DEF e, g, m
    <3> QED BY <2>3, <2>4, <3>1 DEF Through
  <2>6. PICK p \in Dirs \cup Files : Through(p, e) /\ Bad(p)
    BY <1>7, <1>8 DEF TroubleBelow
  <2>7. Through(p, g)
    <3>1. p \in Seq(Strings)
      BY ThroughSelf
    <3> HIDE DEF e, g
    <3> QED BY <1>3, <2>3, <2>5, <2>6, <3>1, ThroughTrans
  <2> QED BY <2>2, <2>6, <2>7 DEF TroubleBelow
<1>9. ASSUME pc' # "exit", NEW f \in Files, Ahead(frames, f)
      PROVE  Ahead(rs, f) \/ Excused(f)
  <2>1. SUFFICES ASSUME Through(f, e), Last(frames).todo # {} PROVE Excused(f)
    BY <1>4, <1>6, <1>9
  <2>2. CASE errno /\ result < 0
    <3>1. n > 1
      BY <1>2, <1>5, <1>9, <2>2
    <3>2. e # <<>>
      <4> DEFINE l == Len(e)
      <4>1. l > 0
        <5>1. l = n - 1
          BY <1>3
        <5> HIDE DEF l, n
        <5> QED BY <1>2, <3>1, <5>1
      <4> QED BY <4>1, EmptySeq
    <3> QED BY <1>3, <1>7, <2>1, <2>2, <3>2 DEF Excused
  <2>3. CASE e \in denied
    BY <1>3, <1>7, <2>1, <2>3 DEF Excused
  <2> QED BY <2>1, <2>2, <2>3
<1>10. errno' /\ pc' = "scan" => TroubleBelow(Last(rs).dirpath)
  <2>1. pc' = "scan" => n > 1
    <3>1. n > 1 \/ n <= 1
      BY <1>2
    <3> QED BY <1>5, <3>1
  <2> QED BY <1>8, <2>1
<1>11. pc' = "ready" => Len(rs) = 0
  <2>1. pc' = "ready" => ~ (n > 1)
    BY <1>5
  <2> DEFINE m == Len(rs)
  <2>2. m = n - 1
    BY <1>4
  <2> HIDE DEF m, n
  <2>3. pc' = "ready" => m = 0
    BY <1>2, <2>1, <2>2
  <2> QED BY <2>3 DEF m
<1> HIDE DEF rs
<1> QED BY <1>4, <1>5, <1>6, <1>9, <1>10, <1>11, ScanStep

LEMMA StatScans ==
  ASSUME ScanInv, IInv', NEW name, StatFile(name)
  PROVE  ScanInv'
<1> DEFINE cs == Consumed(name)  q == PathOf(Last(frames), name)
<1>1. /\ Reads(name, {"reg"}) /\ pc = "scan" /\ pc' = "hash" /\ frames' = cs /\ buff' = q
      /\ UNCHANGED <<db, fsVars>> /\ ~ errno
      /\ \/ Exists(q) /\ size' = now[q] /\ UNCHANGED errno
         \/ ~ Exists(q) /\ size' = 0 /\ errno' = TRUE
  BY DEF StatFile, Reads
<1>2. q \in Paths /\ Kind[q] = "reg"
  <2>1. Reads(name, {"dir", "reg"}) /\ IInv
    BY DEF StatFile, Reads, ScanInv
  <2> QED BY <1>1, <2>1, EntryRead DEF Reads
<1>3. /\ Nested(cs) /\ Len(q) \in Nat \ {0}
      /\ Through(q, Last(cs).dirpath)
      /\ \A f \in Files : Ahead(cs, f) => Ahead(frames, f)
      /\ \A f \in Files : Ahead(frames, f) => Ahead(cs, f) \/ Through(f, q)
      /\ \A f \in Files : Through(f, q) => Ahead(frames, f) /\ ~ Ahead(cs, f)
  BY <1>1, EntryTaken
<1> HIDE DEF cs, q
<1>4. q \in Files
  BY <1>2 DEF Files
<1>5. Ahead(frames, q) /\ ~ Ahead(cs, q)
  BY <1>3, <1>4, ThroughSelf
<1>6. Undamaged' = Undamaged /\ Listed' = Listed
  BY <1>1 DEF Undamaged, Listed
<1>7. GoodRecords'
  BY <1>1, <1>3, <1>6 DEF ScanInv, GoodRecords, fsVars
<1>8. Undamaged => q \notin Listed
  BY <1>5 DEF ScanInv, GoodRecords, Listed
<1>9. GoodBuff'
  <2>1. Exists(q) => size' = now[q] /\ ~ errno'
    BY <1>1
  <2>2. ~ Exists(q) => ~ slash \/ now[q] # 1
    BY DEF Exists, Resolves, Gone
  <2>3. now' = now /\ slash' = slash
    BY <1>1 DEF fsVars
  <2>4. /\ Exists(buff)' /\ now'[buff'] = 1 => size' = 1
        /\ errno' => ~ slash' \/ now'[buff'] # 1
    BY <1>1, <2>1, <2>2, <2>3 DEF Exists, Resolves
  <2> QED BY <1>1, <1>3, <1>5, <1>6, <1>8, <2>4 DEF GoodBuff
<1>10. AllFound'
  <2>1. \A f \in Files : Through(f, q) => f = q
    <3>1. "reg" # "dir"
      OBVIOUS
    <3> QED BY <1>2, <1>3, <3>1, WayToFile
  <2>2. \A f : Excused(f)' = Excused(f)
    BY <1>1 DEF fsVars, Excused, TroubleBelow, Bad, Broken, Resolves
  <2> QED BY <1>1, <1>3, <1>6, <2>1, <2>2 DEF ScanInv, AllFound
<1> QED BY <1>1, <1>3, <1>7, <1>9, <1>10 DEF ScanInv

LEMMA HashScans ==
  ASSUME ScanInv, IInv', HashFile
  PROVE  ScanInv'
<1>1. /\ pc = "hash" /\ pc' \in {"scan", "crashed"} /\ frames' = frames /\ errno' = errno
      /\ buff' = buff /\ size' = size /\ UNCHANGED fsVars
  BY DEF HashFile
<1>2. /\ buff \in Files /\ Through(buff, Last(frames).dirpath)
      /\ ~ Ahead(frames, buff) /\ (Undamaged => buff \notin Listed)
      /\ Exists(buff) /\ now[buff] = 1 => size = 1
      /\ errno => ~ slash \/ now[buff] # 1
  BY <1>1 DEF ScanInv, GoodBuff, IInv
<1>3. /\ \A f : Excused(f)' = Excused(f)
      /\ \A d : TroubleBelow(d)' = TroubleBelow(d)
      /\ now' = now
  BY <1>1 DEF fsVars, Excused, TroubleBelow, Bad, Broken, Resolves
<1>4. CASE db' = db /\ pc' = "crashed"
  <2>1. GoodRecords'
    BY <1>1, <1>3, <1>4 DEF ScanInv, GoodRecords, Undamaged
  <2> QED BY <1>1, <1>4, <2>1 DEF ScanInv, GoodBuff, AllFound
<1>6. \/ db' = db /\ pc' = "crashed"
      \/ /\ Readable(buff) /\ pc' = "scan"
         /\ db' \in Damaged(Insert(db, [name |-> buff, hash |-> now[buff], size |-> size]),
                            RecordSize, Junk)
  BY DEF HashFile
<1>7. ASSUME Readable(buff), pc' = "scan" PROVE errno => TroubleBelow(Last(frames).dirpath)
  <2>1. Exists(buff) /\ slash
    <3>1. buff # <<>>
      BY <1>2, PathsAreSequences DEF Files
    <3> QED BY <1>7, <3>1 DEF Readable, Exists, Resolves
  <2>2. SUFFICES ASSUME errno PROVE Bad(buff)
    BY <1>2 DEF TroubleBelow
  <2> QED BY <1>2, <2>1, <2>2, FilesAreNotDirs DEF Bad
<1>8. ASSUME pc' = "scan", ~ Undamaged', Readable(buff) PROVE ScanInv'
  BY <1>1, <1>3, <1>7, <1>8 DEF ScanInv, GoodRecords, GoodBuff, AllFound
<1>5. CASE /\ Readable(buff) /\ pc' = "scan" /\ Undamaged'
           /\ db' \in Damaged(Insert(db, [name |-> buff, hash |-> now[buff], size |-> size]),
                              RecordSize, Junk)
  <2> DEFINE r == [name |-> buff, hash |-> now[buff], size |-> size]
             n == Len(db.items)
  <2>1. Exists(buff) /\ slash
    <3>1. buff # <<>>
      BY <1>2, PathsAreSequences DEF Files
    <3> QED BY <1>5, <3>1 DEF Readable, Exists, Resolves
  <2>11. r \in Item
    <3>1. /\ now[buff] \in 0..(MaxEdits + 1) /\ now[buff] # 0 /\ MaxEdits \in Nat
          /\ size \in 0..(MaxEdits + 1)
      BY <1>2, <2>1, RecordAssumption DEF ScanInv, IInv, Exists, Gone
    <3>2. now[buff] \in 1..(MaxEdits + 1)
      <4> DEFINE x == now[buff]
      <4>1. x \in 0..(MaxEdits + 1) /\ x # 0 /\ MaxEdits \in Nat
        BY <3>1
      <4> HIDE DEF x
      <4>2. x \in 1..(MaxEdits + 1)
        BY <4>1
      <4> QED BY <4>2 DEF x
    <3> QED BY <1>2, <3>1, <3>2 DEF Record, Item
  <2>2. db'.items = Append(db.items, r) /\ Undamaged
    <3>1. db' \in Damaged(Insert(db, r), RecordSize, Junk) /\ Len(db'.items) <= Initial /\ IInv
      BY <1>5 DEF Undamaged, ScanInv
    <3> HIDE DEF r
    <3>2. db' = Insert(db, r) /\ Len(db.items) <= Initial
      BY <2>11, <3>1, Inserted
    <3> QED BY <2>11, <3>1, <3>2, Inserted DEF Undamaged
  <2>3. /\ n \in Nat /\ DOMAIN db.items = 1..n /\ DOMAIN db'.items = 1..(n + 1)
        /\ \A k \in 1..n : db'.items[k] = db.items[k]
        /\ db'.items[n + 1] = r
    <3>1. db.items \in Seq(Item) /\ db'.items \in Seq(Item)
      BY DEF ScanInv, IInv, Vector
    <3>2. n \in Nat /\ DOMAIN db.items = 1..n /\ DOMAIN db'.items = 1..Len(db'.items)
      BY <3>1, LenProperties
    <3>3. db.items \in Seq(Item) /\ r \in Item
      BY <2>11, <3>1
    <3> HIDE DEF r, n
    <3>4. /\ Len(Append(db.items, r)) = Len(db.items) + 1
          /\ \A i \in 1..Len(db.items) : Append(db.items, r)[i] = db.items[i]
          /\ Append(db.items, r)[Len(db.items) + 1] = r
      BY <3>3, AppendProperties
    <3> QED BY <2>2, <3>2, <3>4 DEF n
  <2>4. r.name = buff /\ r.hash = now[buff] /\ r.size = size
    OBVIOUS
  <2> HIDE DEF r, n
  <2>5. \A k \in 1..(n + 1) : k \in 1..n \/ k = n + 1
    BY <2>3
  <2>6. Listed' = Listed \cup {buff}
    <3>1. \A k \in 1..n : k \in 1..(n + 1)
      BY <2>3
    <3>2. n + 1 \in 1..(n + 1)
      BY <2>3
    <3> QED BY <2>3, <2>4, <2>5, <3>1, <3>2 DEF Listed
  <2>7. \A k \in 1..n : db.items[k].name # buff
    BY <1>2, <2>2, <2>3 DEF Listed
  <2>8. GoodRecords'
    <3>1. ASSUME NEW k \in 1..(n + 1)
          PROVE  /\ db'.items[k].name \in Files
                 /\ \A j \in 1..(n + 1) : db'.items[j].name = db'.items[k].name => j = k
                 /\ now[db'.items[k].name] = 1 => db'.items[k].hash = 1 /\ db'.items[k].size = 1
                 /\ ~ Ahead(frames, db'.items[k].name)
      <4>1. CASE k \in 1..n
        <5>1. /\ db.items[k].name \in Files
              /\ \A j \in 1..n : db.items[j].name = db.items[k].name => j = k
              /\ now[db.items[k].name] = 1 => db.items[k].hash = 1 /\ db.items[k].size = 1
              /\ ~ Ahead(frames, db.items[k].name)
          BY <2>2, <2>3, <4>1 DEF ScanInv, GoodRecords
        <5>2. db'.items[k] = db.items[k]
          BY <2>3, <4>1
        <5>3. \A j \in 1..(n + 1) : db'.items[j].name = db.items[k].name => j = k
          <6> TAKE j \in 1..(n + 1)
          <6>1. CASE j \in 1..n
            BY <2>3, <5>1, <6>1
          <6>2. CASE j = n + 1
            BY <2>3, <2>4, <2>7, <4>1, <6>2
          <6> QED BY <2>5, <6>1, <6>2
        <5> QED BY <5>1, <5>2, <5>3
      <4>2. CASE k = n + 1
        BY <1>2, <2>1, <2>3, <2>4, <2>5, <2>7, <4>2
      <4> QED BY <2>5, <4>1, <4>2
    <3> QED BY <1>1, <1>3, <2>3, <3>1 DEF GoodRecords
  <2>10. AllFound'
    BY <1>1, <1>3, <2>2, <2>6 DEF ScanInv, AllFound
  <2> QED BY <1>1, <1>3, <1>5, <1>7, <2>8, <2>10 DEF ScanInv, GoodBuff
<1> QED BY <1>4, <1>5, <1>6, <1>8

LEMMA StartScans ==
  ASSUME ScanInv, IInv', Start
  PROVE  ScanInv'
<1>1. /\ pc = "start" /\ db.items = <<>> /\ ~ errno /\ pc' \in {"scan", "exit"}
      /\ pc' = "scan" => frames' = <<Call(<<>>)>>
      /\ pc' = "exit" => frames' = frames
      /\ UNCHANGED <<errno, db, fsVars>>
  BY DEF Start, ScanInv
<1>2. DOMAIN db.items = {} /\ Listed = {}
  BY <1>1 DEF Listed
<1>3. GoodRecords' /\ Listed' = {}
  BY <1>1, <1>2 DEF GoodRecords, Listed
<1>4. CASE pc' = "exit"
  BY <1>1, <1>3, <1>4 DEF ScanInv, GoodBuff, AllFound
<1>5. CASE pc' = "scan"
  <2> DEFINE fs == <<Call(<<>>)>>
  <2>1. Len(fs) = 1 /\ fs[1] = Call(<<>>)
    OBVIOUS
  <2>2. Nested(fs)
    <3>1. \A k \in 1..1 : 1..(k - 1) = {}
      OBVIOUS
    <3> HIDE DEF fs
    <3> QED BY <2>1, <3>1 DEF Nested
  <2>3. ASSUME NEW f \in Files PROVE Ahead(fs, f)
    <3>1. <<>> \in Dirs /\ f \in Paths /\ f # <<>> /\ f \in Seq(Strings)
      BY PathsAreSequences DEF Files, Dirs
    <3>2. Len(<<>>) = 0 /\ Len(f) \in Nat
      BY <3>1, EmptySeq, LenProperties
    <3>3. Through(f, <<>>)
      BY <3>1, <3>2, UpEnds DEF Through
    <3>4. Len(<<>>) + 1 <= Len(f) /\ Up(f, Len(<<>>)) = <<>>
          /\ f[Len(<<>>) + 1] \in Call(<<>>).todo
      BY <3>1, <3>3, EntryOfCall
    <3>5. 1 <= Len(f) /\ Up(f, 1 - 1) = <<>> /\ f[1] \in Call(<<>>).todo
      BY <3>2, <3>4
    <3>6. Call(<<>>).dirpath = <<>>
      BY DEF Call
    <3> HIDE DEF fs
    <3> QED BY <2>1, <3>5, <3>6 DEF Ahead
  <2> HIDE DEF fs
  <2>4. AllFound'
    BY <1>1, <1>5, <2>3 DEF AllFound, fs
  <2> QED BY <1>1, <1>3, <1>5, <2>2, <2>4 DEF ScanInv, GoodBuff, fs
<1> QED BY <1>1, <1>4, <1>5

\* A file once changed never is again as it was, so that what is bad stays so.
LEMMA EditScans ==
  ASSUME ScanInv, IInv', NEW g \in Files, Edit(g)
  PROVE  ScanInv'
<1>1. /\ UNCHANGED <<pc, frames, buff, size, errno, db, denied, slash>>
      /\ pc \in {"scan", "hash"} /\ edits \in Nat /\ now \in [Files -> 0..(MaxEdits + 1)]
  <2>1. edits \in 0..MaxEdits /\ MaxEdits \in Nat
    BY RecordAssumption DEF ScanInv, IInv
  <2> QED BY <2>1 DEF Edit, ScanInv, IInv
<1>2. PICK contents \in {edits + 2, Gone} : now' = [now EXCEPT ![g] = contents]
  BY DEF Edit
<1>3. contents # 1
  BY <1>1, <1>2 DEF Gone
<1>4. \A f \in Files : now'[f] = 1 => now[f] = 1
  BY <1>1, <1>2, <1>3
<1>5. \A p \in Dirs \cup Files : Bad(p) => Bad(p)'
  BY <1>1, <1>4 DEF Bad, Broken, Resolves
<1>6. \A d : TroubleBelow(d) => TroubleBelow(d)'
  BY <1>5 DEF TroubleBelow
<1>7. \A f : Excused(f) => Excused(f)'
  BY <1>1, <1>6 DEF Excused
<1>10. Listed' = Listed /\ Undamaged' = Undamaged
  BY <1>1 DEF Listed, Undamaged
<1>9. GoodRecords'
  BY <1>1, <1>4, <1>10 DEF ScanInv, GoodRecords
<1>11. GoodBuff'
  <2>1. SUFFICES ASSUME pc = "hash"
                 PROVE  /\ Through(buff, Last(frames).dirpath)
                        /\ ~ Ahead(frames, buff) /\ (Undamaged => buff \notin Listed)
                        /\ Exists(buff)' /\ now'[buff] = 1 => size = 1
                        /\ errno => ~ slash \/ now'[buff] # 1
    BY <1>1, <1>10 DEF GoodBuff, Exists, Resolves
  <2>2. buff \in Files
    BY <2>1 DEF ScanInv, IInv
  <2>3. Exists(buff)' /\ now'[buff] = 1 => Exists(buff) /\ now[buff] = 1
    BY <1>1, <1>4, <2>2 DEF Exists, Resolves, Gone
  <2> QED BY <1>4, <2>1, <2>2, <2>3 DEF ScanInv, GoodBuff
<1>12. AllFound'
  BY <1>1, <1>7, <1>10 DEF ScanInv, AllFound
<1>13. (errno /\ pc = "scan" => TroubleBelow(Last(frames).dirpath))'
  <2>1. errno /\ pc = "scan" =>
          \E p \in Dirs \cup Files : Through(p, Last(frames).dirpath) /\ Bad(p)'
    BY <1>5 DEF ScanInv, TroubleBelow
  <2> QED BY <1>1, <2>1 DEF TroubleBelow
<1> QED BY <1>1, <1>9, <1>11, <1>12, <1>13 DEF ScanInv

LEMMA ScanKept == ScanInv /\ [Next]_vars => ScanInv'
<1> SUFFICES ASSUME ScanInv, [Next]_vars PROVE ScanInv'
  OBVIOUS
<1>0. IInv'
  BY StepPreserves DEF ScanInv
<1>1. CASE Start
  BY <1>0, <1>1, StartScans
<1>2. CASE Abort
  BY <1>0, <1>2, ReturnScans DEF Abort
<1>3. CASE EndOfDirectory
  BY <1>0, <1>3, ReturnScans DEF EndOfDirectory
<1>10. CASE ReadFails
  BY <1>0, <1>10, ReturnScans DEF ReadFails
<1>11. CASE HeapBreaks
  <2>1. GoodRecords'
    BY <1>11 DEF HeapBreaks, ScanInv, GoodRecords, Undamaged, fsVars
  <2> QED BY <1>0, <1>11, <2>1 DEF HeapBreaks, ScanInv, GoodBuff, AllFound
<1>4. CASE HashFile
  BY <1>0, <1>4, HashScans
<1>5. ASSUME NEW name \in Names, Skip(name) PROVE ScanInv'
  BY <1>0, <1>5, SkipScans
<1>6. ASSUME NEW name \in Names, Directory(name) PROVE ScanInv'
  BY <1>0, <1>6, DirectoryScans
<1>7. ASSUME NEW name \in Names, StatFile(name) PROVE ScanInv'
  BY <1>0, <1>7, StatScans
<1>8. ASSUME NEW f \in Files, Edit(f) PROVE ScanInv'
  BY <1>0, <1>8, EditScans
<1>9. CASE UNCHANGED vars
  <2>1. /\ \A d : TroubleBelow(d)' = TroubleBelow(d)
        /\ \A f : Excused(f)' = Excused(f)
        /\ Listed' = Listed /\ Undamaged' = Undamaged
        /\ UNCHANGED <<pc, frames, buff, size, errno, db, now, slash>>
    BY <1>9 DEF vars, fsVars, Bad, Broken, Resolves, TroubleBelow, Excused, Listed, Undamaged
  <2>2. GoodRecords' /\ AllFound'
    BY <2>1 DEF ScanInv, GoodRecords, AllFound
  <2>3. GoodBuff'
    BY <2>1 DEF ScanInv, GoodBuff, Exists, Resolves
  <2> QED BY <1>0, <2>1, <2>2, <2>3 DEF ScanInv
<1> QED
  BY <1>1, <1>2, <1>3, <1>4, <1>5, <1>6, <1>7, <1>8, <1>9, <1>10, <1>11 DEF Next, Over

LEMMA ScanInvariance == Spec => []ScanInv
BY ScanInit, ScanKept, PTL DEF Spec

\* Records are of different files and, of a file that nobody has changed, of what it
\* holds, for every tree, order of reading and changes meanwhile: an entry is taken
\* once, and the path in filedb_scan's buff is that of the file being read until its
\* record is in (filedb_scan).
THEOREM RecordsStayTrue == Spec => []RecordsTrue
<1>1. ScanInv => RecordsTrue
  BY DEF ScanInv, GoodRecords, RecordsTrue
<1> QED BY <1>1, ScanInvariance, PTL

\* When a client comes up, whatever the tree, and no more files than its vector first
\* has room for, a file that is not listed is below a subdirectory with trouble
\* somewhere in it, or readdir failed in the shared directory: an errno left behind
\* ends calls only from there up to the shared directory, whose own call then ends
\* main (filedb_scan, main).
THEOREM MissingStaysLocal == Spec => []MissingIsLocal
<1>1. ScanInv => MissingIsLocal
  <2> SUFFICES ASSUME ScanInv, pc = "ready", Undamaged, NEW f \in Files \ Listed
               PROVE  \E d \in Dirs \cap Prefixes(f) :
                        (d # <<>> \/ d \in denied) /\ Troubled(d)
    BY DEF MissingIsLocal
  <2>1. Excused(f)
    <3>1. Len(frames) = 0
      BY DEF ScanInv
    <3>2. ~ Ahead(frames, f)
      BY <3>1 DEF Ahead
    <3> QED BY <3>2 DEF ScanInv, AllFound
  <2>2. PICK d \in Dirs : (d # <<>> \/ d \in denied) /\ Through(f, d) /\ TroubleBelow(d)
    BY <2>1 DEF Excused
  <2>3. \A p \in Dirs \cup Files : Through(p, d) => d \in Prefixes(p)
    <3>1. d \in Seq(Strings) /\ \A p \in Dirs \cup Files : p \in Seq(Strings)
      BY PathsAreSequences DEF Files
    <3> QED BY <3>1, ThroughIsPrefix
  <2>4. Troubled(d)
    <3>1. PICK p \in Dirs \cup Files : Through(p, d) /\ Bad(p)
      BY <2>2 DEF TroubleBelow
    <3>2. d \in Prefixes(p) /\ IF p \in Dirs THEN Broken(p) ELSE now[p] # 1
      BY <2>3, <3>1 DEF Bad
    <3> QED BY <3>2 DEF Troubled
  <2> QED BY <2>2, <2>3, <2>4
<1> QED BY <1>1, ScanInvariance, PTL

==============================================================================
