--------------------------- MODULE ChunkDataProofs ---------------------------
(***************************************************************************)
(* Proofs about the bytes of a download for every chunk size, width of an  *)
(* int, file and disk: the chunks partition the file, and no byte is       *)
(* written out of its place, offsets that overflow included.  An offset    *)
(* that overflows to a nonnegative number is smaller than the true one, so *)
(* that what is read and written there is still within the file; this is   *)
(* what IInv says of the message under way.                                *)
(*                                                                         *)
(* Then, what has been written and what will be: ComeInv follows each      *)
(* chunk below the limit from the queue, by way of the message under way,  *)
(* into the output.                                                        *)
(***************************************************************************)
EXTENDS ChunkData, FiniteSetTheorems, WellFoundedInduction, NaturalsInduction, TLAPS

\* A request that the peer can serve, and the chunk it sends, is in the file.
MsgInFile ==
  /\ msg.op \in {"chunkreq", "chunk"} /\ msg.offset >= 0 =>
       msg.size > 0 /\ msg.offset + msg.size <= filesize
  /\ msg.op = "chunk" => msg.offset >= 0

IInv == TypeOK /\ MsgInFile /\ BytesInPlace

-----------------------------------------------------------------------------
(* Arithmetic. *)

LEMMA Division ==
  ASSUME NEW a \in Nat, NEW b \in Nat \ {0}
  PROVE  /\ a \div b \in Nat /\ a % b \in 0..(b - 1)
         /\ a = b * (a \div b) + (a % b)
BY Z3

LEMMA Quotient ==
  ASSUME NEW a \in Nat, NEW b \in Nat \ {0}, NEW q \in Nat, NEW r \in 0..(b - 1),
         a = b * q + r
  PROVE  a \div b = q
BY Z3

LEMMA NextMultiple ==
  ASSUME NEW a \in Nat, NEW b \in Nat, NEW c \in Nat, a < b
  PROVE  c * a + c <= c * b
<1>1. b - a - 1 \in Nat
  OBVIOUS
<1>2. c * (b - a - 1) >= 0
  BY <1>1, Z3
<1>3. c * (b - a - 1) = c * b - c * a - c
  BY Z3
<1> QED BY <1>2, <1>3, Z3

\* The product as an int is one, and is not above the product.
LEMMA Overflow ==
  ASSUME NEW n \in Nat
  PROVE  Int32(n) \in (-IntLimit)..(IntLimit - 1) /\ Int32(n) <= n
<1>1. IntLimit \in Nat \ {0}
  BY SizesAssumption
<1> DEFINE m == n + IntLimit  k == 2 * IntLimit
<1>2. m \in Nat /\ k \in Nat \ {0}
  BY <1>1
<1>3. m % k \in 0..(k - 1) /\ m % k <= m
  <2> HIDE DEF m, k
  <2> QED BY <1>2, Z3
<1>4. Int32(n) = (m % k) - IntLimit
  BY DEF Int32
<1> QED BY <1>1, <1>3, <1>4

-----------------------------------------------------------------------------
(* The chunks of a file. *)

\* Each chunk is in the file, and only the last may be short.
LEMMA ChunkFits ==
  ASSUME filesize \in Nat, NEW c \in 0..(Chunks - 1)
  PROVE  /\ Size(c) \in 1..ChunkSize
         /\ ChunkSize * c + Size(c) <= filesize
         /\ c < Chunks - 1 => Size(c) = ChunkSize
<1> DEFINE q == filesize \div ChunkSize  r == filesize % ChunkSize
<1>0. ChunkSize \in Nat \ {0}
  BY SizesAssumption
<1>1. q \in Nat /\ r \in 0..(ChunkSize - 1) /\ filesize = ChunkSize * q + r
  BY <1>0, Division
<1>2. Chunks = q + (IF r > 0 THEN 1 ELSE 0)
  BY DEF Chunks
<1>3. Size(c) = IF r # 0 /\ c = Chunks - 1 THEN r ELSE ChunkSize
  BY DEF Size
<1> HIDE DEF q, r
<1>4. c \in Nat /\ c < Chunks /\ Chunks \in Nat
  BY <1>1, <1>2
<1>5. CASE r # 0 /\ c = Chunks - 1
  <2>1. c = q
    BY <1>1, <1>2, <1>5
  <2> QED BY <2>1, <1>0, <1>1, <1>3, <1>4, <1>5
<1>6. CASE ~ (r # 0 /\ c = Chunks - 1)
  <2>1. c < q
    BY <1>1, <1>2, <1>4, <1>6
  <2>2. ChunkSize * c + ChunkSize <= ChunkSize * q
    BY <2>1, <1>0, <1>1, <1>4, NextMultiple
  <2>3. ChunkSize * c \in Int /\ ChunkSize * q \in Int
    BY <1>0, <1>1, <1>4
  <2> HIDE DEF Size
  <2> QED BY <2>2, <2>3, <1>0, <1>1, <1>3, <1>6
<1> QED BY <1>5, <1>6

\* select_next_chunk's chunks partition the file: a chunk's bytes are those at
\* its offset and size, when the offset does not overflow, and every byte of the
\* file is in a chunk.
THEOREM ChunksPartition ==
  ASSUME filesize \in Nat
  PROVE  /\ \A c \in 0..(Chunks - 1) :
              Positions(c) = (ChunkSize * c)..(ChunkSize * c + Size(c) - 1)
         /\ \A x \in 0..(filesize - 1) : \E c \in 0..(Chunks - 1) : x \in Positions(c)
<1> DEFINE q == filesize \div ChunkSize  r == filesize % ChunkSize
<1>0. ChunkSize \in Nat \ {0}
  BY SizesAssumption
<1>1. q \in Nat /\ r \in 0..(ChunkSize - 1) /\ filesize = ChunkSize * q + r
  BY <1>0, Division
<1>2. Chunks = q + (IF r > 0 THEN 1 ELSE 0)
  BY DEF Chunks
<1> HIDE DEF q, r
<1>3. ASSUME NEW c \in 0..(Chunks - 1)
      PROVE  Positions(c) = (ChunkSize * c)..(ChunkSize * c + Size(c) - 1)
  <2> DEFINE o == ChunkSize * c  s == Size(c)
  <2>1. /\ s \in 1..ChunkSize /\ o + s <= filesize
        /\ c < Chunks - 1 => s = ChunkSize
    BY <1>3, ChunkFits
  <2>2. c \in Nat /\ o \in Nat /\ Chunks \in Nat
    BY <1>0, <1>1, <1>2
  <2>3. ASSUME NEW x \in o..(o + s - 1)
        PROVE  x \in Positions(c)
    <3>1. x \in Nat /\ x \in 0..(filesize - 1) /\ x - o \in 0..(ChunkSize - 1)
      <4> HIDE DEF o, s
      <4> QED BY <2>1, <2>2, <2>3, <1>0
    <3>2. x = ChunkSize * c + (x - o)
      BY <3>1, <2>2
    <3>3. x \div ChunkSize = c
      <4> DEFINE d == x - o
      <4>1. d \in 0..(ChunkSize - 1) /\ x = ChunkSize * c + d
        BY <3>1, <3>2
      <4> HIDE DEF d
      <4> QED BY <4>1, <3>1, <2>2, <1>0, Quotient
    <3> QED BY <3>1, <3>3 DEF Positions
  <2>4. ASSUME NEW x \in Positions(c)
        PROVE  x \in o..(o + s - 1)
    <3>1. x \in Nat /\ x < filesize /\ x \div ChunkSize = c
      BY <2>4 DEF Positions
    <3>2. x % ChunkSize \in 0..(ChunkSize - 1) /\ x = o + (x % ChunkSize)
      BY <3>1, <1>0, Division
    <3>3. CASE c < Chunks - 1
      <4> HIDE DEF o, s
      <4> QED BY <3>1, <3>2, <3>3, <2>1, <2>2, <1>0
    <3>4. CASE c = Chunks - 1
      <4>1. o + s = filesize
        <5>1. CASE r = 0
          <6>1. s = ChunkSize /\ c = q - 1
            BY <5>1, <3>4, <1>1, <1>2, <2>2 DEF Size, r
          <6>2. ChunkSize * c + ChunkSize = ChunkSize * q
            BY <6>1, <1>0, <1>1, <2>2, Z3
          <6>3. o + s = ChunkSize * q /\ ChunkSize * q \in Nat
            BY <6>1, <6>2, <1>0, <1>1
          <6> HIDE DEF o, s
          <6> QED BY <6>3, <5>1, <1>1
        <5>2. CASE r # 0
          <6>1. s = r /\ c = q
            BY <5>2, <3>4, <1>1, <1>2, <2>2 DEF Size, r
          <6> QED BY <6>1, <1>1
        <5> QED BY <5>1, <5>2
      <4> HIDE DEF o, s
      <4> QED BY <4>1, <3>1, <3>2, <2>1, <2>2
    <3> QED BY <3>3, <3>4, <2>2, <1>3
  <2> QED BY <2>3, <2>4
<1>4. ASSUME NEW x \in 0..(filesize - 1)
      PROVE  x \div ChunkSize \in 0..(Chunks - 1)
  <2> DEFINE k == x \div ChunkSize  d == x % ChunkSize
  <2>0. x \in Nat
    OBVIOUS
  <2>1. k \in Nat /\ d \in 0..(ChunkSize - 1) /\ x = ChunkSize * k + d
    BY <2>0, <1>0, Division
  <2> HIDE DEF k, d
  <2>2. SUFFICES k < Chunks
    BY <2>1, <1>1, <1>2 DEF k
  <2>3. SUFFICES ASSUME k >= Chunks PROVE FALSE
    BY <2>1, <1>1, <1>2
  <2>4. CASE r = 0
    <3>1. k = q \/ q < k
      BY <2>1, <2>3, <2>4, <1>1, <1>2
    <3>2. ChunkSize * q <= ChunkSize * k
      BY <3>1, <2>1, <1>0, <1>1, NextMultiple
    <3> QED BY <3>2, <2>1, <2>4, <1>0, <1>1
  <2>5. CASE r # 0
    <3>1. q < k
      BY <2>1, <2>3, <2>5, <1>1, <1>2
    <3>2. ChunkSize * q + ChunkSize <= ChunkSize * k
      BY <3>1, <2>1, <1>0, <1>1, NextMultiple
    <3> QED BY <3>2, <2>1, <1>0, <1>1
  <2> QED BY <2>4, <2>5
<1> QED BY <1>3, <1>4 DEF Positions

-----------------------------------------------------------------------------
(* The invariant. *)

LEMMA SizesAreNat == TypeOK => filesize \in Nat /\ served \in Nat
BY SizesAssumption DEF TypeOK

\* A request for a chunk of the file keeps to the file, overflow or not.
LEMMA RequestFits ==
  ASSUME filesize \in Nat, NEW c \in 0..(Chunks - 1)
  PROVE  /\ Offset(c) \in (-IntLimit)..(IntLimit - 1)
         /\ Size(c) \in 1..ChunkSize
         /\ Offset(c) + Size(c) <= filesize
<1>1. ChunkSize \in Nat \ {0} /\ IntLimit \in Nat \ {0}
  BY SizesAssumption
<1>2. c \in Nat
  BY <1>1, Division DEF Chunks
<1> DEFINE n == ChunkSize * c
<1>3. n \in Nat
  BY <1>1, <1>2
<1>4. Size(c) \in 1..ChunkSize /\ n + Size(c) <= filesize
  BY ChunkFits
<1>5. Offset(c) = Int32(n)
  BY DEF Offset
<1> HIDE DEF n
<1>6. Int32(n) \in (-IntLimit)..(IntLimit - 1) /\ Int32(n) <= n
  BY <1>3, Overflow
<1> QED BY <1>1, <1>3, <1>4, <1>5, <1>6

\* What select_request_chunk leaves, whichever handler calls it.
LEMMA SelectPreserves ==
  ASSUME TypeOK,
         NEW states \in [0..(Chunks - 1) -> {"queued", "awaiting", "finished"}],
         SelectRequest(states), UNCHANGED filesize
  PROVE  /\ chunk_states' \in [0..(Chunks' - 1) -> {"queued", "awaiting", "finished"}]
         /\ msg' \in [op : {"accepted", "chunkreq", "chunk", "badchunkreq", "none"},
                      offset : (-IntLimit)..(IntLimit - 1), size : 0..ChunkSize]
         /\ msg'.op # "chunk" /\ done' \in BOOLEAN
         /\ MsgInFile'
<1>1. filesize \in Nat /\ ChunkSize \in Nat \ {0} /\ IntLimit \in Nat \ {0}
  BY SizesAreNat, SizesAssumption
<1>2. Chunks' = Chunks /\ done \in BOOLEAN
  BY DEF Chunks, TypeOK
<1>3. CASE done' = TRUE /\ msg' = Bare("none") /\ chunk_states' = states
  BY <1>1, <1>2, <1>3 DEF Bare, MsgInFile
<1>4. ASSUME NEW c \in DOMAIN states,
             msg' = [op |-> "chunkreq", offset |-> Offset(c), size |-> Size(c)],
             chunk_states' = [states EXCEPT ![c] = "awaiting"],
             UNCHANGED done
      PROVE  /\ chunk_states' \in [0..(Chunks' - 1) -> {"queued", "awaiting", "finished"}]
             /\ msg' \in [op : {"accepted", "chunkreq", "chunk", "badchunkreq", "none"},
                          offset : (-IntLimit)..(IntLimit - 1), size : 0..ChunkSize]
             /\ msg'.op # "chunk" /\ done' \in BOOLEAN
             /\ MsgInFile'
  <2>1. c \in 0..(Chunks - 1)
    BY <1>4
  <2>2. /\ Offset(c) \in (-IntLimit)..(IntLimit - 1)
        /\ Size(c) \in 1..ChunkSize
        /\ Offset(c) + Size(c) <= filesize
    BY <1>1, <2>1, RequestFits
  <2> QED BY <1>1, <1>2, <1>4, <2>1, <2>2 DEF MsgInFile
<1> QED BY <1>3, <1>4 DEF SelectRequest

\* The chunk that the offset of a message belongs to.
LEMMA ChunkOfOffset ==
  ASSUME filesize \in Nat, NEW o \in Nat, o < filesize
  PROVE  o \div ChunkSize \in 0..(Chunks - 1)
BY ChunksPartition DEF Positions

LEMMA InitHolds == Init => IInv
<1> SUFFICES ASSUME Init PROVE IInv
  OBVIOUS
<1>1. filesize \in Nat /\ ChunkSize \in Nat \ {0} /\ IntLimit \in Nat \ {0}
  BY SizesAssumption DEF Init
<1>2. Chunks \in Int
  BY <1>1, Division DEF Chunks
<1>3. msg = [op |-> "accepted", offset |-> 0, size |-> 0]
  BY DEF Init, Bare
<1>4. DOMAIN output = {}
  BY DEF Init
<1>5. chunk_states \in [0..(Chunks - 1) -> {"queued", "awaiting", "finished"}]
  BY DEF Init
<1>6. filesize \in FileSizes /\ served \in FileSizes /\ done \in BOOLEAN
  BY DEF Init
<1>7. room \in Int /\ chunks_remaining \in Int
  BY <1>2, SizesAssumption DEF Init
<1>8. TypeOK
  BY <1>1, <1>3, <1>4, <1>5, <1>6, <1>7 DEF TypeOK
<1> QED BY <1>3, <1>4, <1>8 DEF IInv, MsgInFile, BytesInPlace

LEMMA StepPreserves == IInv /\ [Next]_vars => IInv'
<1> SUFFICES ASSUME IInv, [Next]_vars PROVE IInv'
  OBVIOUS
<1>0. /\ filesize \in Nat /\ served \in Nat
      /\ ChunkSize \in Nat \ {0} /\ IntLimit \in Nat \ {0}
  BY SizesAreNat, SizesAssumption DEF IInv
<1>1. CASE OpAccepted
  <2>1. chunk_states \in [0..(Chunks - 1) -> {"queued", "awaiting", "finished"}]
    BY DEF IInv, TypeOK
  <2> QED BY <1>1, <2>1, SelectPreserves DEF OpAccepted, IInv, TypeOK, BytesInPlace
<1>2. CASE Serve
  <2>1. Chunks' = Chunks
    BY <1>2 DEF Serve, Chunks
  <2>2. msg.op = "chunkreq" /\ (msg' = [msg EXCEPT !.op = "chunk"] \/ msg' = Bare("badchunkreq"))
    BY <1>2 DEF Serve
  <2>3. CASE msg' = [msg EXCEPT !.op = "chunk"] /\ msg.offset >= 0
    <3>1. /\ msg.offset \in Nat /\ msg.size \in Nat /\ msg.size > 0
          /\ msg.offset + msg.size <= filesize
      BY <2>2, <2>3, <1>0 DEF IInv, TypeOK, MsgInFile
    <3>2. msg.offset \div ChunkSize \in 0..(Chunks - 1)
      BY <3>1, <1>0, ChunkOfOffset
    <3> QED BY <1>2, <2>1, <2>3, <3>1, <3>2 DEF Serve, IInv, TypeOK, MsgInFile, BytesInPlace
  <2>4. CASE msg' = Bare("badchunkreq")
    BY <1>0, <1>2, <2>1, <2>4 DEF Serve, Bare, IInv, TypeOK, MsgInFile, BytesInPlace
  <2> QED BY <1>2, <2>3, <2>4 DEF Serve
<1>3. CASE OpChunk
  <2> DEFINE k == msg.offset \div ChunkSize
             states == [chunk_states EXCEPT ![k] = "finished"]
  <2>1. /\ msg.offset \in Nat /\ msg.size \in Nat
        /\ msg.offset + msg.size <= filesize
    BY <1>0, <1>3 DEF OpChunk, IInv, TypeOK, MsgInFile
  <2>2. states \in [0..(Chunks - 1) -> {"queued", "awaiting", "finished"}]
    BY <1>3 DEF OpChunk, IInv, TypeOK
  <2>3. SelectRequest(states) /\ UNCHANGED <<filesize, served>>
    BY <1>3 DEF OpChunk
  <2>4. PICK written \in SUBSET (msg.offset..(msg.offset + msg.size - 1)) :
          /\ output' = [x \in DOMAIN output \cup written |->
                          IF x \in written THEN msg.offset + (x - msg.offset) ELSE output[x]]
          /\ room' = room - Cardinality(written \ DOMAIN output)
    BY <1>3 DEF OpChunk, Write
  <2>5. \A x \in written : x \in Nat /\ x < filesize /\ msg.offset + (x - msg.offset) = x
    <3> DEFINE o == msg.offset  n == msg.size
    <3>1. o \in Nat /\ n \in Nat /\ o + n <= filesize /\ written \subseteq o..(o + n - 1)
      BY <2>1, <2>4
    <3> HIDE DEF o, n
    <3>2. \A x \in written : x \in Nat /\ x < filesize /\ o + (x - o) = x
      BY <3>1, <1>0
    <3> QED BY <3>2 DEF o
  <2>6. DOMAIN output' \subseteq Nat /\ BytesInPlace'
    BY <2>3, <2>4, <2>5 DEF IInv, TypeOK, BytesInPlace
  <2>7. room' \in Int
    <3>0. \A m, n \in Int : IsFiniteSet(m..n)
      BY FS_Interval
    <3>1. IsFiniteSet(msg.offset..(msg.offset + msg.size - 1))
      BY <2>1, <3>0
    <3>2. IsFiniteSet(written \ DOMAIN output)
      BY <2>4, <3>1, FS_Subset
    <3> QED BY <2>4, <3>2, FS_CardinalityType DEF IInv, TypeOK
  <2>8. chunks_remaining' \in Int
    BY <1>3 DEF OpChunk, IInv, TypeOK
  <2> HIDE DEF states
  <2>9. /\ chunk_states' \in [0..(Chunks' - 1) -> {"queued", "awaiting", "finished"}]
        /\ msg' \in [op : {"accepted", "chunkreq", "chunk", "badchunkreq", "none"},
                     offset : (-IntLimit)..(IntLimit - 1), size : 0..ChunkSize]
        /\ msg'.op # "chunk" /\ done' \in BOOLEAN
        /\ MsgInFile'
    BY <2>2, <2>3, SelectPreserves DEF IInv
  <2> QED BY <2>3, <2>6, <2>7, <2>8, <2>9 DEF IInv, TypeOK
<1>4. CASE OpBadChunkReq
  <2>1. chunk_states \in [0..(Chunks - 1) -> {"queued", "awaiting", "finished"}]
    BY DEF IInv, TypeOK
  <2> QED BY <1>4, <2>1, SelectPreserves DEF OpBadChunkReq, IInv, TypeOK, BytesInPlace
<1>5. CASE UNCHANGED vars
  BY <1>5 DEF vars, IInv, TypeOK, MsgInFile, BytesInPlace, Chunks
<1> QED BY <1>1, <1>2, <1>3, <1>4, <1>5 DEF Next, Terminated

-----------------------------------------------------------------------------
(* The theorems. *)

LEMMA Invariance == Spec => []IInv
BY InitHolds, StepPreserves, PTL DEF Spec

\* The state stays well formed, and op_chunk indexes chunk_states within its
\* bounds, for every file and chunk size.
THEOREM TypeCorrect == Spec => []TypeOK
<1>1. IInv => TypeOK
  BY DEF IInv
<1> QED BY <1>1, Invariance, PTL

\* No byte is written out of its place or past the end of the file, for every
\* file and chunk size and offsets that overflow included.
THEOREM BytesStayInPlace == Spec => []BytesInPlace
<1>1. IInv => BytesInPlace
  BY DEF IInv
<1> QED BY <1>1, Invariance, PTL

-----------------------------------------------------------------------------
(* What has come.  A full disk only ever cuts off the end of a write, and  *)
(* leaves no room then; below IntLimit a chunk is asked for where it is.    *)

\* The message under way is about chunk i, at its place.
AskedFor(i) == /\ msg.op \in {"chunkreq", "chunk"}
               /\ msg.offset = ChunkSize * i /\ msg.size = Size(i)

\* A request that can be served is for a chunk of the file, or for bytes of
\* chunks that were asked for before; at the end there is no request.
MsgOfChunk ==
  /\ msg.op \in {"chunkreq", "chunk"} /\ msg.offset >= 0 =>
       /\ filesize <= 2 * IntLimit => \E i \in 0..(Chunks - 1) : AskedFor(i)
       /\ \A j \in 0..(Chunks - 1) :
            j <= msg.offset \div ChunkSize => chunk_states[j] # "queued"
  /\ done => msg.op = "none" /\ \A i \in 0..(Chunks - 1) : chunk_states[i] # "queued"

\* A chunk below IntLimit that the peer's file has whole.
Near(i) == ChunkSize * i < IntLimit /\ Positions(i) \subseteq 0..(served - 1)

\* Such a chunk is still to be asked for, under way or written.
NearComes ==
  room > 0 => \A i \in 0..(Chunks - 1) : Near(i) =>
    \/ chunk_states[i] = "queued"
    \/ AskedFor(i)
    \/ Positions(i) \subseteq DOMAIN output

ComeInv == IInv /\ MsgOfChunk /\ FinishedIsWritten /\ NearComes

\* The least of a set of natural numbers.
LEMMA LeastElement ==
  ASSUME NEW T, T \subseteq Nat, T # {}
  PROVE  \E n \in T : \A m \in T : n <= m
<1> DEFINE R == OpToRel(<, Nat)
<1>1. IsWellFoundedOn(R, Nat)
  BY NatLessThanWellFounded
<1>2. \A x, y \in Nat : <<y, x>> \in R <=> y < x
  BY DEF OpToRel
<1> HIDE DEF R
<1>3. PICK x \in T : \A y \in T : ~ (<<y, x>> \in R)
  BY <1>1, WFMin
<1>4. ASSUME NEW y \in T PROVE x <= y
  <2>1. x \in Nat /\ y \in Nat /\ ~ (y < x)
    BY <1>2, <1>3
  <2> QED BY <2>1
<1> QED BY <1>4

\* fwrite: nothing written before is lost, and when there is room left after a
\* write, all of it was written.
LEMMA WriteWhole ==
  ASSUME room \in Int, NEW o \in Nat, NEW n \in Nat, Write(o, o, n)
  PROVE  /\ room' \in Int /\ room' <= room
         /\ DOMAIN output \subseteq DOMAIN output'
         /\ room' > 0 => o..(o + n - 1) \subseteq DOMAIN output'
<1> DEFINE new(x) == (o..x) \ DOMAIN output
           written == {x \in o..(o + n - 1) : Cardinality(new(x)) <= room}
           fresh == written \ DOMAIN output
<1>1. /\ DOMAIN output' = DOMAIN output \cup written
      /\ room' = room - Cardinality(fresh)
  BY DEF Write
<1>2. \A a, b \in Int : IsFiniteSet(a..b)
  BY FS_Interval
<1>3. o..(o + n - 1) \subseteq Nat /\ \A x \in o..(o + n - 1) : x \in Nat
  OBVIOUS
<1>4. IsFiniteSet(fresh)
  <2>1. IsFiniteSet(o..(o + n - 1))
    BY <1>2
  <2> QED BY <2>1, FS_Subset
<1>5. Cardinality(fresh) \in Nat
  BY <1>4, FS_CardinalityType
<1>6. \A x \in Nat : IsFiniteSet(new(x)) /\ Cardinality(new(x)) \in Nat
  <2>1. \A x \in Nat : IsFiniteSet(o..x)
    BY <1>2
  <2> QED BY <2>1, FS_Subset, FS_CardinalityType
<1>7. ASSUME room' > 0 PROVE o..(o + n - 1) \subseteq written
  <2> DEFINE cut == {x \in o..(o + n - 1) : Cardinality(new(x)) > room}
  <2>1. SUFFICES cut = {}
    <3>1. \A x \in o..(o + n - 1) : Cardinality(new(x)) <= room \/ Cardinality(new(x)) > room
      <4>1. \A x \in o..(o + n - 1) : Cardinality(new(x)) \in Nat
        BY <1>3, <1>6
      <4>2. \A k \in Nat : k <= room \/ k > room
        OBVIOUS
      <4> HIDE DEF new
      <4> QED BY <4>1, <4>2
    <3> HIDE DEF new
    <3> QED BY <3>1
  <2>2. SUFFICES ASSUME cut # {} PROVE FALSE
    OBVIOUS
  <2>3. PICK e \in cut : \A x \in cut : e <= x
    <3>1. cut \subseteq Nat
      BY <1>3
    <3> HIDE DEF cut
    <3> QED BY <2>2, <3>1, LeastElement
  <2>4. e \in Nat /\ e \in o..(o + n - 1) /\ Cardinality(new(e)) > room
    BY <1>3, <2>3
  <2>5. \A x \in o..(o + n - 1) : x < e => Cardinality(new(x)) <= room
    <3>1. ASSUME NEW x \in o..(o + n - 1), x < e PROVE Cardinality(new(x)) <= room
      <4>1. x \in Nat /\ Cardinality(new(x)) \in Nat
        BY <1>3, <1>6
      <4>2. ~ (x \in cut)
        BY <2>3, <2>4, <3>1, <4>1
      <4>3. ~ (Cardinality(new(x)) > room)
        BY <4>2
      <4> HIDE DEF new
      <4> QED BY <4>1, <4>3
    <3> QED BY <3>1
  <2>6. new(e) \subseteq fresh \cup {e}
    <3>1. \A x \in o..e : x = e \/ (x \in o..(o + n - 1) /\ x < e)
      BY <2>4
    <3> QED BY <3>1, <2>5
  <2>7. Cardinality(new(e)) <= Cardinality(fresh \cup {e})
    <3>1. IsFiniteSet(fresh \cup {e})
      BY <1>4, FS_AddElement
    <3> HIDE DEF new, fresh
    <3> QED BY <2>6, <3>1, FS_Subset
  <2>8. Cardinality(fresh \cup {e}) <= Cardinality(fresh) + 1
    <3> HIDE DEF fresh
    <3>1. Cardinality(fresh \cup {e}) = IF e \in fresh THEN Cardinality(fresh)
                                        ELSE Cardinality(fresh) + 1
      BY <1>4, FS_AddElement
    <3> QED BY <3>1, <1>5
  <2>9. Cardinality(new(e)) \in Nat /\ Cardinality(fresh \cup {e}) \in Nat
    <3>1. Cardinality(new(e)) \in Nat
      BY <1>6, <2>4
    <3>2. IsFiniteSet(fresh \cup {e})
      BY <1>4, FS_AddElement
    <3> HIDE DEF fresh, new
    <3> QED BY <3>1, <3>2, FS_CardinalityType
  <2> DEFINE a == Cardinality(new(e))  b == Cardinality(fresh \cup {e})
             f == Cardinality(fresh)
  <2>10. /\ a \in Nat /\ b \in Nat /\ f \in Nat
         /\ a > room /\ a <= b /\ b <= f + 1 /\ room - f > 0
    BY <1>1, <1>5, <1>7, <2>4, <2>7, <2>8, <2>9
  <2> HIDE DEF a, b, f
  <2> QED BY <2>10
<1>8. room' \in Int /\ room' <= room
  <2> HIDE DEF fresh
  <2> QED BY <1>1, <1>5
<1> HIDE DEF written
<1> QED BY <1>1, <1>7, <1>8

\* Offsets below IntLimit are exact, those in the next IntLimit are negative.
LEMMA IntExact ==
  ASSUME NEW n \in Nat
  PROVE  /\ n < IntLimit => Int32(n) = n
         /\ n >= IntLimit /\ n < 2 * IntLimit => Int32(n) < 0
<1>1. IntLimit \in Nat \ {0}
  BY SizesAssumption
<1>2. CASE n < IntLimit
  <2> DEFINE m == n + IntLimit  k == 2 * IntLimit
  <2>1. m \in Nat /\ k \in Nat \ {0} /\ m < k
    BY <1>1, <1>2
  <2>2. m % k = m
    <3> HIDE DEF m, k
    <3> QED BY <2>1, Z3
  <2>3. Int32(n) = (m % k) - IntLimit /\ m = n + IntLimit
    BY DEF Int32
  <2> HIDE DEF m, k
  <2> QED BY <2>2, <2>3, <1>1, <1>2
<1>3. CASE n >= IntLimit
  <2>1. SUFFICES ASSUME n < 2 * IntLimit PROVE Int32(n) < 0
    BY <1>1, <1>3
  <2> DEFINE d == n - IntLimit  k == 2 * IntLimit
  <2>2. d \in Nat /\ k \in Nat \ {0} /\ d < k /\ n + IntLimit = d + k /\ d < IntLimit
    BY <1>1, <1>3, <2>1
  <2>3. (d + k) % k = d
    <3> HIDE DEF d, k
    <3> QED BY <2>2, Z3
  <2>4. Int32(n) = ((d + k) % k) - IntLimit
    BY <2>2 DEF Int32
  <2> HIDE DEF d, k
  <2> QED BY <2>2, <2>3, <2>4, <1>1
<1> QED BY <1>2, <1>3, <1>1

LEMMA ChunksAreNat ==
  ASSUME filesize \in Nat
  PROVE  Chunks \in Nat /\ \A i \in 0..(Chunks - 1) : i \in Nat /\ ChunkSize * i \in Nat
<1>1. ChunkSize \in Nat \ {0}
  BY SizesAssumption
<1>2. Chunks \in Nat
  BY <1>1, Division DEF Chunks
<1>3. \A i \in Nat : ChunkSize * i \in Nat
  BY <1>1
<1> QED BY <1>2, <1>3

\* The offset a chunk is asked for with: its place, when that fits an int; in a
\* file of up to twice as much it is negative otherwise; and in no file past it.
LEMMA OffsetOf ==
  ASSUME filesize \in Nat, NEW c \in 0..(Chunks - 1)
  PROVE  /\ ChunkSize * c < IntLimit => Offset(c) = ChunkSize * c
         /\ Offset(c) >= 0 /\ filesize <= 2 * IntLimit => Offset(c) = ChunkSize * c
         /\ Offset(c) >= 0 => Offset(c) \in Nat /\ Offset(c) \div ChunkSize <= c
<1>1. ChunkSize \in Nat \ {0} /\ IntLimit \in Nat \ {0}
  BY SizesAssumption
<1>2. c \in Nat
  BY ChunksAreNat
<1> DEFINE n == ChunkSize * c  o == Offset(c)
<1>3. n \in Nat /\ o = Int32(n)
  BY <1>1, <1>2 DEF Offset
<1>4. Size(c) \in 1..ChunkSize /\ n + Size(c) <= filesize
  BY ChunkFits
<1>5. n < filesize
  <2> HIDE DEF n
  <2> QED BY <1>1, <1>3, <1>4
<1>6. /\ n < IntLimit => Int32(n) = n
      /\ n >= IntLimit /\ n < 2 * IntLimit => Int32(n) < 0
      /\ Int32(n) \in (-IntLimit)..(IntLimit - 1) /\ Int32(n) <= n
  <2> HIDE DEF n
  <2> QED BY <1>3, IntExact, Overflow
<1>7. ASSUME o >= 0 PROVE o \in Nat /\ o \div ChunkSize <= c
  <2>1. o \in Nat /\ o <= n
    <3> HIDE DEF n, o
    <3> QED BY <1>1, <1>3, <1>6, <1>7
  <2>2. o \div ChunkSize \in Nat /\ o % ChunkSize \in Nat
        /\ o = ChunkSize * (o \div ChunkSize) + (o % ChunkSize)
    <3> HIDE DEF o
    <3> QED BY <2>1, <1>1, Division
  <2> DEFINE q == o \div ChunkSize  r == o % ChunkSize
  <2>3. q \in Nat /\ r \in Nat /\ o = ChunkSize * q + r
    BY <2>2
  <2>4. ASSUME q > c PROVE FALSE
    <3>1. ChunkSize * c + ChunkSize <= ChunkSize * q
      <4> HIDE DEF q
      <4> QED BY <2>3, <2>4, <1>1, <1>2, NextMultiple
    <3> DEFINE p == ChunkSize * q
    <3>2. p \in Nat /\ o = p + r /\ n + ChunkSize <= p
      BY <2>3, <3>1, <1>1
    <3> HIDE DEF n, o, q, r, p
    <3> QED BY <2>1, <2>3, <3>2, <1>1, <1>3
  <2>5. q <= c
    <3> HIDE DEF q
    <3> QED BY <2>3, <2>4, <1>2
  <2> QED BY <2>1, <2>5
<1>8. /\ n < IntLimit => o = n
      /\ o >= 0 /\ filesize <= 2 * IntLimit => o = n
  <2> HIDE DEF n, o
  <2> QED BY <1>1, <1>3, <1>5, <1>6
<1> QED BY <1>7, <1>8

\* What select_request_chunk leaves of what was to come: a chunk is as it was, or
\* is the one now asked for, which no chunk before it waits for.
LEMMA SelectKeeps ==
  ASSUME TypeOK,
         NEW states \in [0..(Chunks - 1) -> {"queued", "awaiting", "finished"}],
         SelectRequest(states), UNCHANGED filesize, ~ done
  PROVE  /\ MsgOfChunk'
         /\ \A i \in 0..(Chunks - 1) :
              /\ states[i] = "finished" <=> chunk_states'[i] = "finished"
              /\ states[i] = "queued" /\ ChunkSize * i < IntLimit =>
                   chunk_states'[i] = "queued" \/ AskedFor(i)'
<1>1. filesize \in Nat /\ ChunkSize \in Nat \ {0} /\ IntLimit \in Nat \ {0}
  BY SizesAreNat, SizesAssumption
<1>2. Chunks' = Chunks /\ \A i : Size(i)' = Size(i)
  BY DEF Chunks, Size
<1>3. DOMAIN states = 0..(Chunks - 1)
  OBVIOUS
<1>4. CASE (\A i \in DOMAIN states : states[i] # "queued")
           /\ done' = TRUE /\ msg' = Bare("none") /\ chunk_states' = states
  <2>1. msg'.op = "none"
    BY <1>4 DEF Bare
  <2>2. MsgOfChunk'
    BY <1>2, <1>3, <1>4, <2>1 DEF MsgOfChunk
  <2> QED BY <1>3, <1>4, <2>2
<1>5. ASSUME NEW c \in DOMAIN states,
             states[c] = "queued", \A i \in 0..(c - 1) : states[i] # "queued",
             msg' = [op |-> "chunkreq", offset |-> Offset(c), size |-> Size(c)],
             chunk_states' = [states EXCEPT ![c] = "awaiting"],
             UNCHANGED done
      PROVE  /\ MsgOfChunk'
             /\ \A i \in 0..(Chunks - 1) :
                  /\ states[i] = "finished" <=> chunk_states'[i] = "finished"
                  /\ states[i] = "queued" /\ ChunkSize * i < IntLimit =>
                       chunk_states'[i] = "queued" \/ AskedFor(i)'
  <2>1. c \in 0..(Chunks - 1) /\ c \in Nat
    BY <1>1, <1>3, <1>5, ChunksAreNat
  <2>2. /\ ChunkSize * c < IntLimit => Offset(c) = ChunkSize * c
        /\ Offset(c) >= 0 /\ filesize <= 2 * IntLimit => Offset(c) = ChunkSize * c
        /\ Offset(c) >= 0 => Offset(c) \in Nat /\ Offset(c) \div ChunkSize <= c
    BY <1>1, <2>1, OffsetOf
  <2>3. msg'.op = "chunkreq" /\ msg'.offset = Offset(c) /\ msg'.size = Size(c)
    BY <1>5
  <2>4. \A j \in 0..(Chunks - 1) : j <= c => chunk_states'[j] # "queued"
    <3>1. \A j \in 0..(Chunks - 1) : j <= c => j = c \/ j \in 0..(c - 1)
      <4>1. Chunks \in Nat
        BY <1>1, ChunksAreNat
      <4> QED BY <2>1, <4>1
    <3> QED BY <1>3, <1>5, <3>1
  <2>5. AskedFor(c)' <=> Offset(c) = ChunkSize * c
    BY <1>2, <2>3 DEF AskedFor
  <2>6. \A i \in 0..(Chunks - 1) :
          /\ states[i] = "finished" <=> chunk_states'[i] = "finished"
          /\ states[i] = "queued" /\ ChunkSize * i < IntLimit =>
               chunk_states'[i] = "queued" \/ AskedFor(i)'
    <3>1. \A i \in 0..(Chunks - 1) : i # c => chunk_states'[i] = states[i]
      BY <1>3, <1>5
    <3>2. chunk_states'[c] = "awaiting"
      BY <1>5
    <3> QED BY <1>5, <2>2, <2>5, <3>1, <3>2
  <2>7. MsgOfChunk'
    <3>1. (msg.offset >= 0)' =>
            /\ filesize <= 2 * IntLimit => AskedFor(c)'
            /\ \A j \in 0..(Chunks - 1) :
                 j <= Offset(c) \div ChunkSize => chunk_states'[j] # "queued"
      <4>1. \A j \in 0..(Chunks - 1) : Offset(c) >= 0 /\ j <= Offset(c) \div ChunkSize => j <= c
        <5>1. Offset(c) \in Nat => Offset(c) \div ChunkSize \in Nat
          BY <1>1, Division
        <5>2. \A j \in 0..(Chunks - 1) : j \in Nat
          BY <1>1, ChunksAreNat
        <5>3. \A j, k, l \in Nat : j <= k /\ k <= l => j <= l
          OBVIOUS
        <5> QED BY <2>1, <2>2, <5>1, <5>2, <5>3
      <4> QED BY <2>2, <2>3, <2>4, <2>5, <4>1
    <3>2. ~ done'
      BY <1>5
    <3> QED BY <1>2, <2>1, <2>3, <3>1, <3>2 DEF MsgOfChunk
  <2> QED BY <2>6, <2>7
<1> QED BY <1>4, <1>5 DEF SelectRequest

LEMMA ComeInit == Init => ComeInv
<1> SUFFICES ASSUME Init PROVE ComeInv
  OBVIOUS
<1>1. IInv
  BY InitHolds
<1>2. \A i \in 0..(Chunks - 1) : chunk_states[i] = "queued"
  BY DEF Init
<1>3. msg.op = "accepted" /\ ~ done /\ DOMAIN chunk_states = 0..(Chunks - 1)
  BY DEF Init, Bare
<1> QED BY <1>1, <1>2, <1>3
     DEF ComeInv, MsgOfChunk, FinishedIsWritten, Finished, NearComes

\* A handler that asks for the next chunk and writes nothing: no chunk under way
\* is given up.
LEMMA SelectOnly ==
  ASSUME ComeInv, SelectRequest(chunk_states), msg.op \in {"accepted", "badchunkreq"},
         UNCHANGED <<filesize, served, room, output>>
  PROVE  MsgOfChunk' /\ FinishedIsWritten' /\ NearComes'
<1>1. /\ TypeOK /\ filesize \in Nat
      /\ chunk_states \in [0..(Chunks - 1) -> {"queued", "awaiting", "finished"}]
  BY SizesAreNat DEF ComeInv, IInv, TypeOK
<1>2. ~ done
  BY DEF ComeInv, MsgOfChunk
<1>3. /\ MsgOfChunk'
      /\ \A i \in 0..(Chunks - 1) :
           /\ chunk_states[i] = "finished" <=> chunk_states'[i] = "finished"
           /\ chunk_states[i] = "queued" /\ ChunkSize * i < IntLimit =>
                chunk_states'[i] = "queued" \/ AskedFor(i)'
  BY <1>1, <1>2, SelectKeeps
<1>4. Chunks' = Chunks /\ \A i : Positions(i)' = Positions(i) /\ Near(i)' = Near(i)
  BY DEF Chunks, Positions, Near
<1>5. DOMAIN chunk_states = 0..(Chunks - 1) /\ DOMAIN chunk_states' = 0..(Chunks - 1)
  BY <1>1 DEF SelectRequest
<1>6. FinishedIsWritten'
  BY <1>3, <1>4, <1>5 DEF ComeInv, FinishedIsWritten, Finished
<1>7. \A i : ~ AskedFor(i)
  BY DEF AskedFor
<1>8. NearComes'
  BY <1>3, <1>4, <1>7 DEF ComeInv, NearComes, Near
<1> QED BY <1>3, <1>6, <1>8

\* A request that is served, or refused because the peer's file has it not whole.
LEMMA ServeComes ==
  ASSUME ComeInv, Serve
  PROVE  MsgOfChunk' /\ FinishedIsWritten' /\ NearComes'
<1>1. /\ TypeOK /\ filesize \in Nat /\ served \in Nat
      /\ ChunkSize \in Nat \ {0} /\ IntLimit \in Nat \ {0}
  BY SizesAreNat, SizesAssumption DEF ComeInv, IInv
<1>2. /\ Chunks' = Chunks
      /\ \A i : Positions(i)' = Positions(i) /\ Near(i)' = Near(i) /\ Size(i)' = Size(i)
  BY DEF Serve, Chunks, Positions, Near, Size
<1>3. FinishedIsWritten'
  BY <1>2 DEF Serve, ComeInv, FinishedIsWritten, Finished
<1>4. msg.op = "chunkreq" /\ ~ done
  BY DEF Serve, ComeInv, MsgOfChunk
<1>5. CASE msg.offset >= 0 /\ msg' = [msg EXCEPT !.op = "chunk"]
  <2>1. msg'.op = "chunk" /\ msg'.offset = msg.offset /\ msg'.size = msg.size
    BY <1>1, <1>5 DEF TypeOK
  <2>2. \A i : AskedFor(i)' <=> AskedFor(i)
    BY <1>2, <1>4, <2>1 DEF AskedFor
  <2>3. MsgOfChunk'
    BY <1>2, <1>4, <1>5, <2>1, <2>2 DEF Serve, ComeInv, MsgOfChunk
  <2>4. NearComes'
    BY <1>2, <2>2 DEF Serve, ComeInv, NearComes
  <2> QED BY <1>3, <2>3, <2>4
<1>6. CASE (msg.offset < 0 \/ msg.offset + msg.size > served) /\ msg' = Bare("badchunkreq")
  <2>1. msg'.op = "badchunkreq"
    BY <1>6 DEF Bare
  <2>2. MsgOfChunk'
    BY <1>4, <2>1 DEF Serve, MsgOfChunk
  <2>3. ASSUME NEW i \in 0..(Chunks - 1), Near(i), AskedFor(i) PROVE FALSE
    <3> DEFINE o == ChunkSize * i  n == Size(i)
    <3>1. o \in Nat /\ n \in Nat /\ n > 0 /\ msg.offset = o /\ msg.size = n
      BY <1>1, <2>3, ChunksAreNat, ChunkFits DEF AskedFor
    <3>2. o..(o + n - 1) \subseteq 0..(served - 1)
      BY <1>1, <2>3, ChunksPartition DEF Near
    <3> HIDE DEF o, n
    <3>3. o + n - 1 \in o..(o + n - 1)
      BY <3>1
    <3>4. o + n <= served
      BY <1>1, <3>1, <3>2, <3>3
    <3> QED BY <1>1, <1>6, <3>1, <3>4
  <2>4. NearComes'
    BY <1>2, <2>3 DEF Serve, ComeInv, NearComes
  <2> QED BY <1>3, <2>2, <2>4
<1> QED BY <1>5, <1>6 DEF Serve

\* A chunk received is written where it belongs, and the next one asked for.
LEMMA ChunkComes ==
  ASSUME ComeInv, OpChunk
  PROVE  MsgOfChunk' /\ FinishedIsWritten' /\ NearComes'
<1> DEFINE k == msg.offset \div ChunkSize
           states == [chunk_states EXCEPT ![k] = "finished"]
<1>1. /\ TypeOK /\ filesize \in Nat /\ room \in Int
      /\ chunk_states \in [0..(Chunks - 1) -> {"queued", "awaiting", "finished"}]
  BY SizesAreNat DEF ComeInv, IInv, TypeOK
<1>2. ChunkSize \in Nat \ {0} /\ IntLimit \in Nat \ {0}
  BY SizesAssumption
<1>3. /\ msg.op = "chunk" /\ ~ done
      /\ msg.offset >= 0 /\ msg.offset \in Nat /\ msg.size \in Nat
      /\ k \in 0..(Chunks - 1)
  BY <1>2 DEF OpChunk, ComeInv, MsgOfChunk, IInv, MsgInFile, TypeOK
<1>4. /\ room' \in Int /\ room' <= room /\ DOMAIN output \subseteq DOMAIN output'
      /\ room' > 0 => msg.offset..(msg.offset + msg.size - 1) \subseteq DOMAIN output'
  <2> DEFINE o == msg.offset  n == msg.size
  <2>1. o \in Nat /\ n \in Nat /\ Write(o, o, n)
    BY <1>3 DEF OpChunk
  <2> HIDE DEF o, n
  <2>2. /\ room' \in Int /\ room' <= room /\ DOMAIN output \subseteq DOMAIN output'
        /\ room' > 0 => o..(o + n - 1) \subseteq DOMAIN output'
    BY <1>1, <2>1, WriteWhole
  <2> QED BY <2>2 DEF o, n
<1>5. room' > 0 => room > 0
  BY <1>1, <1>4
<1>6. states \in [0..(Chunks - 1) -> {"queued", "awaiting", "finished"}]
      /\ states[k] = "finished" /\ \A i \in 0..(Chunks - 1) : i # k => states[i] = chunk_states[i]
  BY <1>1, <1>3
<1>7. SelectRequest(states) /\ filesize' = filesize /\ served' = served
  BY DEF OpChunk
<1>8. /\ Chunks' = Chunks
      /\ \A i : Positions(i)' = Positions(i) /\ Near(i)' = Near(i)
  BY <1>7 DEF Chunks, Positions, Near
<1>9. DOMAIN chunk_states = 0..(Chunks - 1) /\ DOMAIN chunk_states' = 0..(Chunks - 1)
  BY <1>1, <1>6, <1>7 DEF SelectRequest
<1>10. chunk_states[k] # "queued" /\ (filesize <= 2 * IntLimit =>
                                        \E i \in 0..(Chunks - 1) : AskedFor(i))
  <2>1. k <= k
    BY <1>3
  <2> QED BY <1>3, <2>1 DEF ComeInv, MsgOfChunk
<1>11. ASSUME NEW i \in 0..(Chunks - 1), AskedFor(i)
       PROVE  k = i /\ (room' > 0 => Positions(i) \subseteq DOMAIN output')
  <2>1. i \in Nat /\ msg.offset = ChunkSize * i /\ msg.size = Size(i)
    BY <1>1, <1>11, ChunksAreNat DEF AskedFor
  <2>2. k = i
    <3>1. ChunkSize * i = ChunkSize * i + 0 /\ 0 \in 0..(ChunkSize - 1)
      BY <1>2, <2>1
    <3>2. ChunkSize * i \in Nat
      BY <1>2, <2>1
    <3> QED BY <1>2, <2>1, <3>1, <3>2, Quotient
  <2>3. Positions(i) = msg.offset..(msg.offset + msg.size - 1)
    BY <1>1, <2>1, ChunksPartition
  <2> QED BY <1>4, <2>2, <2>3
<1> HIDE DEF k, states
<1>12. /\ MsgOfChunk'
       /\ \A i \in 0..(Chunks - 1) :
            /\ states[i] = "finished" <=> chunk_states'[i] = "finished"
            /\ states[i] = "queued" /\ ChunkSize * i < IntLimit =>
                 chunk_states'[i] = "queued" \/ AskedFor(i)'
  BY <1>1, <1>3, <1>6, <1>7, SelectKeeps
<1>13. FinishedIsWritten'
  <2>1. SUFFICES ASSUME room' > 0, filesize <= 2 * IntLimit,
                        NEW i \in 0..(Chunks - 1), chunk_states'[i] = "finished"
                 PROVE  Positions(i) \subseteq DOMAIN output'
    BY <1>7, <1>8, <1>9 DEF FinishedIsWritten, Finished
  <2>2. CASE i = k
    BY <1>10, <1>11, <2>1, <2>2
  <2>3. CASE i # k
    <3>1. chunk_states[i] = "finished"
      BY <1>6, <1>12, <2>1, <2>3
    <3> QED BY <1>4, <1>5, <1>9, <2>1, <3>1 DEF ComeInv, FinishedIsWritten, Finished
  <2> QED BY <2>2, <2>3
<1>14. NearComes'
  <2>1. SUFFICES ASSUME room' > 0, NEW i \in 0..(Chunks - 1), Near(i)
                 PROVE  \/ chunk_states'[i] = "queued" \/ AskedFor(i)'
                        \/ Positions(i) \subseteq DOMAIN output'
    BY <1>8 DEF NearComes
  <2>2. \/ chunk_states[i] = "queued" \/ AskedFor(i)
        \/ Positions(i) \subseteq DOMAIN output
    BY <1>5, <2>1 DEF ComeInv, NearComes
  <2>3. CASE chunk_states[i] = "queued"
    BY <1>6, <1>10, <1>12, <2>1, <2>3 DEF Near
  <2> QED BY <1>4, <1>11, <2>1, <2>2, <2>3
<1> QED BY <1>12, <1>13, <1>14

LEMMA ComeStep == ComeInv /\ [Next]_vars => ComeInv'
<1> SUFFICES ASSUME ComeInv, [Next]_vars PROVE ComeInv'
  OBVIOUS
<1>1. IInv'
  BY StepPreserves DEF ComeInv
<1>2. MsgOfChunk' /\ FinishedIsWritten' /\ NearComes'
  <2>1. CASE OpAccepted
    BY <2>1, SelectOnly DEF OpAccepted
  <2>2. CASE OpBadChunkReq
    BY <2>2, SelectOnly DEF OpBadChunkReq
  <2>3. CASE Serve
    BY <2>3, ServeComes
  <2>4. CASE OpChunk
    BY <2>4, ChunkComes
  <2>5. CASE UNCHANGED vars
    <3>1. /\ Chunks' = Chunks
          /\ \A i : Positions(i)' = Positions(i) /\ Near(i)' = Near(i)
                    /\ AskedFor(i)' = AskedFor(i)
      BY <2>5 DEF vars, Chunks, Positions, Near, AskedFor, Size
    <3> QED BY <2>5, <3>1
         DEF vars, ComeInv, MsgOfChunk, FinishedIsWritten, Finished, NearComes
  <2> QED BY <2>1, <2>2, <2>3, <2>4, <2>5 DEF Next, Terminated
<1> QED BY <1>1, <1>2 DEF ComeInv

LEMMA ComeInvariance == Spec => []ComeInv
BY ComeInit, ComeStep, PTL DEF Spec

\* A chunk that op_chunk has marked finished is in the output unless the disk is
\* full, for every file of up to twice IntLimit, chunk size and disk: the offset of
\* the message is then that of the chunk whose size it has.
THEOREM FinishedChunksAreWritten == Spec => []FinishedIsWritten
<1>1. ComeInv => FinishedIsWritten
  BY DEF ComeInv
<1> QED BY <1>1, ComeInvariance, PTL

\* When the loop of the download ends, every chunk that starts below IntLimit and
\* that the peer's file has whole is in the output, unless the disk is full, for
\* every published and actual size of the file: select_request_chunk leaves the
\* loop only with no chunk queued and none under way.
THEOREM WhatCanComeHasCome == Spec => []CoveredBelowLimit
<1>1. ComeInv => CoveredBelowLimit
  <2> SUFFICES ASSUME ComeInv, done, room > 0,
                      NEW i \in DOMAIN chunk_states, Near(i)
               PROVE  Positions(i) \subseteq DOMAIN output
    BY DEF CoveredBelowLimit, Near
  <2>1. i \in 0..(Chunks - 1)
    BY DEF ComeInv, IInv, TypeOK
  <2> QED BY <2>1 DEF ComeInv, NearComes, MsgOfChunk, AskedFor
<1> QED BY <1>1, ComeInvariance, PTL

==============================================================================
