---------------------------- MODULE CatalogueProofs ----------------------------
(***************************************************************************)
(* Proofs about the catalogue: how files are registered, and what comes of *)
(* a list that is printed, cut and read, give the inductive invariant.     *)
(***************************************************************************)
EXTENDS Catalogue, DirMessageProofs

Tokens == Separators \cup Words \cup {Zero, "operation", "publish", "filelistres"} \cup Clients

LEMMA TokensAreTokens ==
  /\ IsTokens(Tokens) /\ Words \subseteq Tokens /\ Clients \subseteq Tokens
  /\ Numbers \cup {Zero} \subseteq Tokens /\ Separators \subseteq Tokens
BY WordsAssumption DEF IsTokens, Tokens

\* A line that can be printed and read again.
Readable ==
  {f \in [hash : Seq(Tokens), name : Seq(Tokens), size : Numbers \cup {Zero}, peers : Seq(Clients)] :
     /\ ~ Has(f.hash, {Colon}) /\ ~ Has(f.name, {Semicolon}) /\ Strip(f.name) = f.name
     /\ f.peers # <<>> /\ IsInjective(f.peers)}

LEMMA ReadableIsReadable ==
  ASSUME NEW f \in Readable
  PROVE  IsReadable(f, Tokens)
<1>1. f.hash \in Seq(Tokens) /\ f.name \in Seq(Tokens) /\ f.size \in Numbers \cup {Zero}
  BY DEF Readable
<1>2. f.size \in Tokens
  BY <1>1, TokensAreTokens
<1>3. f.peers \in Seq(Clients) /\ f.peers # <<>>
  BY DEF Readable
<1>4. f.peers \in Seq(Tokens)
  BY <1>3, TokensAreTokens
<1>5. ASSUME NEW p \in ToSet(f.peers) PROVE p \notin Separators
  <2>1. p \in Clients
    BY <1>3 DEF ToSet
  <2> QED BY <2>1, NamesAssumption
<1>6. ~ Has(f.hash, {Colon}) /\ ~ Has(f.name, {Semicolon}) /\ Strip(f.name) = f.name
  BY DEF Readable
<1> QED BY <1>1, <1>2, <1>3, <1>4, <1>5, <1>6 DEF IsReadable, IsListed

-----------------------------------------------------------------------------
(* Registering.                                                            *)

\* Lines stay where they are, and as they are but for more peers.
Grows(db, e) ==
  /\ Len(db) <= Len(e)
  /\ \A k \in 1..Len(db) : /\ e[k].hash = db[k].hash /\ e[k].name = db[k].name
                           /\ e[k].size = db[k].size /\ Len(db[k].peers) <= Len(e[k].peers)

\* A new line for a file, and a host more on a line that there is.
NewLine(f, host)    == [hash |-> f.hash, name |-> f.name, size |-> f.size, peers |-> <<host>>]
WithHost(line, host) == [line EXCEPT !.peers = Append(@, host)]

\* Lines of a kind that registering f for the host does not leave.
Admits(G, f, host) ==
  /\ NewLine(f, host) \in G
  /\ \A line \in G : line.hash = f.hash /\ host \notin ToSet(line.peers) => WithHost(line, host) \in G

LEMMA WithHostFacts ==
  ASSUME NEW line \in Readable, NEW host \in Clients
  PROVE  /\ WithHost(line, host).hash = line.hash /\ WithHost(line, host).name = line.name
         /\ WithHost(line, host).size = line.size
         /\ WithHost(line, host).peers = Append(line.peers, host)
         /\ Len(line.peers) \in Nat /\ Len(Append(line.peers, host)) = Len(line.peers) + 1
         /\ ToSet(Append(line.peers, host)) = ToSet(line.peers) \cup {host}
         /\ host \notin ToSet(line.peers) => WithHost(line, host) \in Readable
<1> DEFINE r == WithHost(line, host)  q == Append(line.peers, host)  l == Len(line.peers)
<1>1. /\ line \in [hash : Seq(Tokens), name : Seq(Tokens), size : Numbers \cup {Zero}, peers : Seq(Clients)]
      /\ line.peers \in Seq(Clients) /\ IsInjective(line.peers)
  BY DEF Readable
<1>2. r.hash = line.hash /\ r.name = line.name /\ r.size = line.size /\ r.peers = q
  BY <1>1 DEF WithHost
<1>3. /\ l \in Nat /\ q \in Seq(Clients) /\ Len(q) = l + 1 /\ q[l + 1] = host
      /\ \A i \in 1..l : q[i] = line.peers[i]
  BY <1>1, AppendProperties, LenProperties
<1>4. DOMAIN q = 1..(l + 1) /\ DOMAIN line.peers = 1..l
  BY <1>1, <1>3, LenProperties
<1> HIDE DEF q, l
<1>5. ToSet(q) = ToSet(line.peers) \cup {host}
  <2>1. \A i \in 1..(l + 1) : i \in 1..l \/ i = l + 1
    BY <1>3
  <2>2. 1..l \subseteq 1..(l + 1) /\ l + 1 \in 1..(l + 1)
    BY <1>3
  <2> QED BY <1>3, <1>4, <2>1, <2>2 DEF ToSet
<1>6. ASSUME host \notin ToSet(line.peers) PROVE r \in Readable
  <2>1. IsInjective(q)
    <3>1. ASSUME NEW a \in 1..(l + 1), NEW b \in 1..(l + 1), q[a] = q[b] PROVE a = b
      <4>1. (a \in 1..l \/ a = l + 1) /\ (b \in 1..l \/ b = l + 1)
        BY <1>3
      <4>2. \A i \in 1..l : q[i] # host
        BY <1>3, <1>4, <1>6 DEF ToSet
      <4>3. a \in 1..l /\ b \in 1..l => a = b
        BY <1>1, <1>3, <1>4, <3>1 DEF IsInjective
      <4> QED BY <1>3, <3>1, <4>1, <4>2, <4>3
    <3> QED BY <1>4, <3>1 DEF IsInjective
  <2>2. q # <<>>
    BY <1>3, EmptySeq
  <2>3. r \in [hash : Seq(Tokens), name : Seq(Tokens), size : Numbers \cup {Zero}, peers : Seq(Clients)]
    BY <1>1, <1>3 DEF WithHost, q
  <2>4. ~ Has(line.hash, {Colon}) /\ ~ Has(line.name, {Semicolon}) /\ Strip(line.name) = line.name
    BY DEF Readable
  <2> HIDE DEF r
  <2> QED BY <1>2, <2>1, <2>2, <2>3, <2>4 DEF Readable
<1> QED BY <1>2, <1>3, <1>5, <1>6 DEF q, l

LEMMA ReadableAdmits ==
  ASSUME NEW f \in ReadFiles(Tokens), NEW host \in Clients
  PROVE  Admits(Readable, f, host)
<1>1. /\ f \in [hash : Seq(Tokens), name : Seq(Tokens), size : Numbers \cup {Zero}]
      /\ ~ Has(f.hash, {Colon}) /\ ~ Has(f.name, {Semicolon}) /\ Strip(f.name) = f.name
  BY DEF ReadFiles
<1> DEFINE q == <<host>>  r == NewLine(f, host)
<1>2. q \in Seq(Clients) /\ q # <<>> /\ IsInjective(q)
  BY DEF IsInjective
<1>3. r.hash = f.hash /\ r.name = f.name /\ r.size = f.size /\ r.peers = q
  BY DEF NewLine
<1>4. r \in [hash : Seq(Tokens), name : Seq(Tokens), size : Numbers \cup {Zero}, peers : Seq(Clients)]
  <2> HIDE DEF q
  <2>1. r = [hash |-> f.hash, name |-> f.name, size |-> f.size, peers |-> q]
    BY DEF NewLine, q
  <2>2. f.hash \in Seq(Tokens) /\ f.name \in Seq(Tokens) /\ f.size \in Numbers \cup {Zero}
    BY <1>1
  <2> HIDE DEF r
  <2> QED BY <1>2, <2>1, <2>2
<1> HIDE DEF q, r
<1>5. r \in Readable
  BY <1>1, <1>2, <1>3, <1>4 DEF Readable
<1>6. \A line \in Readable : host \notin ToSet(line.peers) => WithHost(line, host) \in Readable
  BY WithHostFacts
<1> QED BY <1>5, <1>6 DEF Admits, r

\* The list e is db with the hash registered on it.
OnList(hash, e) == \E k \in 1..Len(e) : e[k].hash = hash
HasRegistered(db, e, hash, G) == e \in Seq(G) /\ Grows(db, e) /\ OnList(hash, e)

LEMMA RegisterFileKeeps ==
  ASSUME NEW G, G \subseteq Readable, NEW db \in Seq(G), NEW f, NEW host \in Clients,
         Admits(G, f, host)
  PROVE  HasRegistered(db, RegisterFile(db, f, host), f.hash, G)
<1> DEFINE r == RegisterFile(db, f, host)  l == Len(db)
<1>1. /\ l \in Nat /\ DOMAIN db = 1..l /\ \A k \in 1..l : db[k] \in G
  BY LenProperties, ElementOfSeq
<1>2. CASE \E k \in DOMAIN db : db[k].hash = f.hash
  <2>1. r = [k \in 1..l |-> IF db[k].hash = f.hash /\ host \notin ToSet(db[k].peers)
                            THEN WithHost(db[k], host) ELSE db[k]]
    BY <1>1, <1>2 DEF RegisterFile, WithHost
  <2>2. \A k \in 1..l : r[k] = IF db[k].hash = f.hash /\ host \notin ToSet(db[k].peers)
                               THEN WithHost(db[k], host) ELSE db[k]
    BY <2>1
  <2>3. ASSUME NEW k \in 1..l
        PROVE  /\ r[k] \in G
               /\ r[k].hash = db[k].hash /\ r[k].name = db[k].name
               /\ r[k].size = db[k].size /\ Len(db[k].peers) <= Len(r[k].peers)
    <3> DEFINE line == db[k]
    <3>1. line \in G /\ line \in Readable
      BY <1>1
    <3> HIDE DEF line, r, l
    <3>2. r[k] = IF line.hash = f.hash /\ host \notin ToSet(line.peers)
                 THEN WithHost(line, host) ELSE line
      BY <2>2 DEF line
    <3>3. Len(line.peers) \in Nat
      BY <3>1, WithHostFacts
    <3>4. CASE line.hash = f.hash /\ host \notin ToSet(line.peers)
      <4>1. r[k] = WithHost(line, host)
        BY <3>2, <3>4
      <4>2. WithHost(line, host) \in G
        BY <3>1, <3>4 DEF Admits
      <4>3. /\ WithHost(line, host).hash = line.hash /\ WithHost(line, host).name = line.name
            /\ WithHost(line, host).size = line.size
            /\ WithHost(line, host).peers = Append(line.peers, host)
            /\ Len(Append(line.peers, host)) = Len(line.peers) + 1
        BY <3>1, WithHostFacts
      <4>4. Len(line.peers) <= Len(r[k].peers)
        BY <3>3, <4>1, <4>3
      <4> QED BY <4>1, <4>2, <4>3, <4>4 DEF line
    <3>5. CASE ~ (line.hash = f.hash /\ host \notin ToSet(line.peers))
      <4>1. r[k] = line /\ Len(line.peers) <= Len(line.peers)
        BY <3>2, <3>3, <3>5
      <4> QED BY <3>1, <4>1 DEF line
    <3> QED BY <3>4, <3>5
  <2>4. r = [k \in 1..l |-> r[k]]
    BY <2>1
  <2> HIDE DEF r
  <2>5. r \in Seq(G) /\ Len(r) = l
    <3>1. r \in [1..l -> G]
      BY <2>3, <2>4
    <3> QED BY <1>1, <3>1, FunctionIsSeq
  <2>6. Grows(db, r)
    <3>1. l <= l
      BY <1>1
    <3> QED BY <2>3, <2>5, <3>1 DEF Grows, l
  <2>7. \E k \in 1..Len(r) : r[k].hash = f.hash
    BY <1>1, <1>2, <2>3, <2>5
  <2> QED BY <2>5, <2>6, <2>7 DEF r, HasRegistered, OnList
<1>3. CASE ~ \E k \in DOMAIN db : db[k].hash = f.hash
  <2> DEFINE new == NewLine(f, host)
  <2>1. r = Append(db, new)
    BY <1>3 DEF RegisterFile, NewLine
  <2>2. new \in G /\ new.hash = f.hash
    BY DEF Admits, NewLine
  <2> HIDE DEF new, r
  <2>3. /\ r \in Seq(G) /\ Len(r) = l + 1 /\ r[l + 1] = new
        /\ \A k \in 1..l : r[k] = db[k]
    BY <2>1, <2>2, AppendProperties
  <2>4. \A k \in 1..l : Len(db[k].peers) \in Nat
    BY <1>1, WithHostFacts
  <2>5. Grows(db, r)
    BY <1>1, <2>3, <2>4 DEF Grows
  <2>6. l + 1 \in 1..Len(r)
    BY <1>1, <2>3
  <2>7. \E k \in 1..Len(r) : r[k].hash = f.hash
    BY <2>2, <2>3, <2>6
  <2> QED BY <2>3, <2>5, <2>7 DEF r, HasRegistered, OnList
<1> QED BY <1>2, <1>3

LEMMA GrowsTogether ==
  ASSUME NEW a \in Seq(Readable), NEW b \in Seq(Readable), NEW c \in Seq(Readable),
         Grows(a, b), Grows(b, c)
  PROVE  Grows(a, c)
<1>1. Len(a) \in Nat /\ Len(b) \in Nat /\ Len(c) \in Nat
  BY LenProperties
<1>2. Len(a) <= Len(b) /\ Len(b) <= Len(c)
  BY DEF Grows
<1>3. ASSUME NEW k \in 1..Len(a)
      PROVE  /\ c[k].hash = a[k].hash /\ c[k].name = a[k].name
             /\ c[k].size = a[k].size /\ Len(a[k].peers) <= Len(c[k].peers)
  <2>1. k \in 1..Len(b) /\ k \in 1..Len(c)
    BY <1>1, <1>2
  <2>2. a[k] \in Readable /\ b[k] \in Readable /\ c[k] \in Readable
    BY <2>1, ElementOfSeq
  <2>3. Len(a[k].peers) \in Nat /\ Len(b[k].peers) \in Nat /\ Len(c[k].peers) \in Nat
    <3>1. \A f \in Readable : Len(f.peers) \in Nat
      BY WithHostFacts, LenProperties DEF Readable
    <3> QED BY <2>2, <3>1
  <2>4. Len(a[k].peers) <= Len(b[k].peers) /\ Len(b[k].peers) <= Len(c[k].peers)
    BY <2>1 DEF Grows
  <2>5. /\ b[k].hash = a[k].hash /\ b[k].name = a[k].name /\ b[k].size = a[k].size
        /\ c[k].hash = b[k].hash /\ c[k].name = b[k].name /\ c[k].size = b[k].size
    BY <2>1 DEF Grows
  <2>6. Len(a[k].peers) <= Len(c[k].peers)
    <3> DEFINE x == Len(a[k].peers)  y == Len(b[k].peers)  z == Len(c[k].peers)
    <3>1. x \in Nat /\ y \in Nat /\ z \in Nat /\ x <= y /\ y <= z
      BY <2>3, <2>4
    <3> HIDE DEF x, y, z
    <3>2. x <= z
      BY <3>1
    <3> QED BY <3>2 DEF x, z
  <2> QED BY <2>5, <2>6
<1>4. Len(a) <= Len(c)
  BY <1>1, <1>2
<1> QED BY <1>3, <1>4 DEF Grows

\* The loop over the files that a client publishes.
RegisterAfter(db, files, host, after, n) ==
  after = [k \in 0..n |-> IF k = 0 THEN db ELSE RegisterFile(after[k - 1], files[k], host)]

IsRegister(db, files, host, after, n) ==
  /\ Register(db, files, host) = after[n] /\ after[0] = db
  /\ \A k \in 1..n : after[k] = RegisterFile(after[k - 1], files[k], host)

LEMMA RegisterLoop ==
  ASSUME NEW db, NEW files, NEW host, NEW n \in Nat, n = Len(files)
  PROVE  \E after : IsRegister(db, files, host, after, n)
<1> DEFINE Is(w, m) == RegisterAfter(db, files, host, w, m)
           S == {m \in 0..n : \E w : Is(w, m)}
<1>1. 0 \in S
  <2>1. Is([k \in 0..0 |-> db], 0)
    BY DEF RegisterAfter
  <2> HIDE DEF Is
  <2> QED BY <2>1
<1>2. ASSUME NEW m \in 1..n, m - 1 \in S PROVE m \in S
  <2>1. m \in 0..n /\ m \in Nat /\ m # 0
    OBVIOUS
  <2>2. PICK w : Is(w, m - 1)
    BY <1>2
  <2> DEFINE v == [k \in 0..m |-> IF k = m THEN RegisterFile(w[m - 1], files[m], host) ELSE w[k]]
  <2>3. w = [k \in 0..(m - 1) |-> IF k = 0 THEN db ELSE RegisterFile(w[k - 1], files[k], host)]
    BY <2>2 DEF RegisterAfter
  <2>4. \A k \in 0..(m - 1) : w[k] = IF k = 0 THEN db ELSE RegisterFile(w[k - 1], files[k], host)
    BY <2>3
  <2>5. ASSUME NEW k \in 0..m
        PROVE  v[k] = IF k = 0 THEN db ELSE RegisterFile(v[k - 1], files[k], host)
    <3>1. /\ k # m => k \in 0..(m - 1)
          /\ k # 0 => k - 1 \in 0..m /\ k - 1 # m
      BY <2>1
    <3>2. k # 0 => v[k - 1] = w[k - 1]
      BY <3>1
    <3>3. CASE k = m
      BY <2>1, <3>2, <3>3
    <3>4. CASE k # m
      BY <2>4, <3>1, <3>2, <3>4
    <3> QED BY <3>3, <3>4
  <2>6. v = [k \in 0..m |-> v[k]]
    OBVIOUS
  <2> HIDE DEF v
  <2>7. Is(v, m)
    BY <2>5, <2>6 DEF RegisterAfter
  <2> HIDE DEF Is
  <2> QED BY <2>1, <2>7
<1>3. n \in S
  <2> HIDE DEF S
  <2>1. \A k \in 0..n : k \in S
    BY <1>1, <1>2, InductionTo
  <2> QED BY <2>1
<1> DEFINE after == CHOOSE w : Is(w, n)
<1>4. Is(after, n)
  <2> HIDE DEF Is
  <2> QED BY <1>3
<1>5. Register(db, files, host) = after[n]
  BY DEF Register, RegisterAfter
<1> HIDE DEF after
<1>6. \A k \in 0..n : after[k] = IF k = 0 THEN db ELSE RegisterFile(after[k - 1], files[k], host)
  BY <1>4 DEF RegisterAfter
<1>7. after[0] = db /\ \A k \in 1..n : after[k] = RegisterFile(after[k - 1], files[k], host)
  BY <1>6
<1> QED BY <1>5, <1>7 DEF IsRegister

\* Whatever all the files leave as it is, publishing them does; and each is on the
\* list then.
LEMMA RegisterKeeps ==
  ASSUME NEW G, G \subseteq Readable, NEW db \in Seq(G), NEW F, NEW files \in Seq(F),
         NEW host \in Clients, \A f \in F : Admits(G, f, host)
  PROVE  /\ Register(db, files, host) \in Seq(G) /\ Grows(db, Register(db, files, host))
         /\ \A j \in 1..Len(files) : OnList(files[j].hash, Register(db, files, host))
<1> DEFINE n == Len(files)
           Good(e, k) == /\ e \in Seq(G) /\ Grows(db, e)
                         /\ \A j \in 1..n : j <= k => OnList(files[j].hash, e)
<1>1. n \in Nat /\ \A j \in 1..n : files[j] \in F
  BY LenProperties, ElementOfSeq
<1>2. \A e : e \in Seq(G) => e \in Seq(Readable)
  OBVIOUS
<1>3. \A e, g \in Seq(G) : \A hash : OnList(hash, e) /\ Grows(e, g) => OnList(hash, g)
  <2> SUFFICES ASSUME NEW e \in Seq(G), NEW g \in Seq(G), NEW hash, OnList(hash, e), Grows(e, g)
               PROVE  OnList(hash, g)
    OBVIOUS
  <2>1. PICK k \in 1..Len(e) : e[k].hash = hash
    BY DEF OnList
  <2>2. g[k].hash = hash /\ Len(e) <= Len(g)
    BY <2>1 DEF Grows
  <2>3. k \in 1..Len(g)
    BY <2>2, LenProperties
  <2> QED BY <2>2, <2>3 DEF OnList
<1> HIDE DEF n
<1>n. n = Len(files)
  BY DEF n
<1>4. PICK after : IsRegister(db, files, host, after, n)
  BY <1>1, <1>n, RegisterLoop
<1>5. /\ Register(db, files, host) = after[n] /\ after[0] = db
      /\ \A k \in 1..n : after[k] = RegisterFile(after[k - 1], files[k], host)
  BY <1>4 DEF IsRegister
<1> DEFINE S == {k \in 0..n : Good(after[k], k)}
<1>6. 0 \in S
  <2>1. Grows(db, db)
    <3>1. \A k \in 1..Len(db) : Len(db[k].peers) \in Nat
      <4>1. \A f \in Readable : Len(f.peers) \in Nat
        BY LenProperties DEF Readable
      <4>2. \A k \in 1..Len(db) : db[k] \in Readable
        BY ElementOfSeq
      <4> QED BY <4>1, <4>2
    <3>2. Len(db) \in Nat
      BY LenProperties
    <3> QED BY <3>1, <3>2 DEF Grows
  <2>2. 0 \in 0..n /\ \A j \in 1..n : ~ (j <= 0)
    BY <1>1
  <2> QED BY <1>5, <2>1, <2>2
<1>7. ASSUME NEW k \in 1..n, k - 1 \in S PROVE k \in S
  <2> DEFINE e == after[k - 1]  g == after[k]  f == files[k]
  <2>1. Good(e, k - 1) /\ k \in 0..n
    BY <1>7
  <2>2. g = RegisterFile(e, f, host) /\ e \in Seq(G) /\ Admits(G, f, host)
    BY <1>1, <1>5, <2>1
  <2> HIDE DEF e, g, f
  <2>3. g \in Seq(G) /\ Grows(e, g) /\ OnList(f.hash, g)
    <3>1. HasRegistered(e, RegisterFile(e, f, host), f.hash, G)
      BY <2>2, RegisterFileKeeps
    <3> QED BY <2>2, <3>1 DEF HasRegistered
  <2>4. Grows(db, g)
    BY <1>2, <2>1, <2>2, <2>3, GrowsTogether
  <2>5. ASSUME NEW j \in 1..n, j <= k PROVE OnList(files[j].hash, g)
    <3>1. CASE j = k
      BY <2>3, <3>1 DEF f
    <3>2. CASE j # k
      <4>1. j <= k - 1
        BY <2>5, <3>2
      <4>2. OnList(files[j].hash, e)
        BY <2>1, <4>1
      <4> QED BY <1>3, <2>2, <2>3, <4>2
    <3> QED BY <3>1, <3>2
  <2>6. Good(g, k)
    BY <2>3, <2>4, <2>5
  <2> HIDE DEF Good
  <2> QED BY <2>1, <2>6 DEF g
<1>8. Good(after[n], n)
  <2> HIDE DEF Good, S
  <2>1. \A k \in 0..n : k \in S
    BY <1>1, <1>6, <1>7, InductionTo
  <2> QED BY <1>1, <2>1 DEF S
<1>9. \A j \in 1..n : OnList(files[j].hash, after[n])
  <2>1. \A j \in 1..n : j <= n
    BY <1>1
  <2> QED BY <1>8, <2>1
<1> QED BY <1>5, <1>8, <1>9 DEF n

-----------------------------------------------------------------------------
(* Printing, cutting and reading.                                          *)

\* A file as a client may have it, be it overwritten.
SharedFiles == {f \in [hash : Seq(Tokens), name : Seq(Tokens), size : Tokens] : IsShared(f, Tokens)}

LEMMA SharedFilesType ==
  ASSUME NEW db \in Seq(SharedFiles)
  PROVE  /\ db \in Seq([hash : Seq(Tokens), name : Seq(Tokens), size : Tokens])
         /\ Len(db) \in Nat /\ DOMAIN db = 1..Len(db)
         /\ \A k \in 1..Len(db) : IsShared(db[k], Tokens)
<1> DEFINE B == [hash : Seq(Tokens), name : Seq(Tokens), size : Tokens]
<1>1. SharedFiles \subseteq B /\ \A f \in SharedFiles : IsShared(f, Tokens)
  BY DEF SharedFiles
<1> HIDE DEF B
<1>2. db \in Seq(B)
  BY <1>1
<1>3. Len(db) \in Nat /\ DOMAIN db = 1..Len(db) /\ \A k \in 1..Len(db) : db[k] \in SharedFiles
  BY LenProperties, ElementOfSeq
<1> QED BY <1>1, <1>2, <1>3 DEF B

LEMMA ShareListsType ==
  ASSUME NEW db \in ShareLists
  PROVE  /\ db \in Seq(SharedFiles)
         /\ Len(db) \in Nat /\ DOMAIN db = 1..Len(db)
         /\ \A k \in 1..Len(db) : IsShared(db[k], Tokens) /\ db[k].hash \in HashTexts
<1>1. db \in Seq([hash : HashTexts, name : Seq(Words \cup Separators), size : Numbers])
  BY SharesAssumption
<1>2. Len(db) \in Nat /\ DOMAIN db = 1..Len(db)
  BY <1>1, LenProperties
<1>3. ASSUME NEW f \in [hash : HashTexts, name : Seq(Words \cup Separators), size : Numbers]
      PROVE  /\ f \in [hash : Seq(Tokens), name : Seq(Tokens), size : Tokens]
             /\ IsShared(f, Tokens)
  <2>1. PICK h \in Hashes : f.hash = <<h>>
    BY DEF HashTexts
  <2>2. h \in Words /\ h \in Tokens
    BY HashesAssumption, TokensAreTokens
  <2>3. f.hash \in Seq(Tokens) /\ ~ Has(f.hash, {Colon})
    <3>1. h \notin Separators /\ Colon \in Separators
      BY <2>2, WordsAssumption, SeparatorsDiffer
    <3>2. h # Colon
      BY <3>1
    <3>3. ~ Has(One(h), {Colon}) /\ One(h) \in Seq(Tokens)
      <4>1. Colon \in Tokens
        BY <3>1, TokensAreTokens
      <4> QED BY <2>2, <3>2, <4>1, TupleHas, CatTuples
    <3> QED BY <2>1, <3>3 DEF One
  <2>4. f.name \in Seq(Words \cup Separators) /\ f.size \in Numbers
    OBVIOUS
  <2>5. f.name \in Seq(Tokens) /\ f.size \in Tokens
    <3>1. Words \cup Separators \subseteq Tokens /\ Numbers \subseteq Tokens
      BY TokensAreTokens
    <3> QED BY <2>4, <3>1
  <2>6. f = [hash |-> f.hash, name |-> f.name, size |-> f.size]
    OBVIOUS
  <2>7. f \in [hash : Seq(Tokens), name : Seq(Tokens), size : Tokens]
    BY <2>3, <2>5, <2>6
  <2> QED BY <2>3, <2>4, <2>5, <2>7 DEF IsShared
<1>4. \A k \in 1..Len(db) :
        db[k] \in [hash : HashTexts, name : Seq(Words \cup Separators), size : Numbers]
  BY <1>1, ElementOfSeq
<1>5. \A k \in 1..Len(db) : IsShared(db[k], Tokens) /\ db[k].hash \in HashTexts
  BY <1>3, <1>4
<1>6. db \in Seq(SharedFiles)
  <2> DEFINE A == [hash : HashTexts, name : Seq(Words \cup Separators), size : Numbers]
  <2>1. A \subseteq SharedFiles /\ db \in Seq(A)
    BY <1>1, <1>3 DEF SharedFiles
  <2> HIDE DEF A
  <2> QED BY <2>1
<1> QED BY <1>2, <1>5, <1>6

\* What comes of a client's list: of tame names, the first files.
AllTame(db) == \A k \in 1..Len(db) : IsTame(db[k].name)
PublishedIs(db, lim, b, files) ==
  /\ files \in Seq(ReadFiles(Tokens))
  /\ b.len \in Nat /\ (b.past => b.len > lim)
  /\ AllTame(db) => /\ Len(files) <= Len(db)
                    /\ \A k \in 1..Len(files) : ReadAs(files[k], db[k])
                    /\ b.len < lim => Len(files) = Len(db)

LEMMA PublishFacts ==
  ASSUME NEW db \in Seq(SharedFiles), NEW lim \in Limits
  PROVE  PublishedIs(db, lim, dm_publish(db, lim), dm_deserialize_publish(dm_publish(db, lim).text))
<1> DEFINE n == Len(db)  b == dm_publish(db, lim)
<1>1. IsTokens(Tokens) /\ lim \in Nat \ (0..5) /\ lim \in Nat \ {0}
  BY TokensAreTokens, LimitsAssumption
<1>2. /\ db \in Seq([hash : Seq(Tokens), name : Seq(Tokens), size : Tokens])
      /\ n \in Nat /\ DOMAIN db = 1..n /\ \A k \in 1..n : IsShared(db[k], Tokens)
  BY SharedFilesType
<1> HIDE DEF n
<1>n. n = Len(db)
  BY DEF n
<1>3. PICK R : IsPublish(R, db, n, Tokens) /\ Holds(b, lim, Cat(FirstLine("publish"), R[0]))
  BY <1>1, <1>2, <1>n, PublishPrinted
<1> HIDE DEF b
<1> DEFINE u == R[0]
<1>4. u \in Seq(Tokens)
  BY <1>2, <1>3 DEF IsPublish
<1> HIDE DEF u
<1>5. /\ Has(b.text, {Newline}) /\ lim - 6 \in Nat
      /\ After(b.text, {Newline}) = Cut(u, lim - 6)
      /\ b.len = 5 + Len(u) /\ Len(u) \in Nat
  <2>1. Holds(b, lim, Cat(FirstLine("publish"), u))
    BY <1>3 DEF u
  <2>2. "publish" \in {"publish", "filelistres"}
    OBVIOUS
  <2> QED BY <1>1, <1>4, <2>1, <2>2, ReadBehind
<1> DEFINE c == lim - 6  t == Cut(u, c)  files == PublishLines(t)
<1>6. dm_deserialize_publish(b.text) = files
  BY <1>5 DEF dm_deserialize_publish
<1>7. files \in Seq(ReadFiles(Tokens))
  <2>1. t \in Seq(Tokens)
    BY <1>4, <1>5, CutFacts
  <2> HIDE DEF t
  <2> QED BY <2>1, PublishType
<1>8. b.len \in Nat /\ (b.past => b.len > lim)
  BY <1>3, <1>5 DEF Holds
<1>9. ASSUME AllTame(db)
      PROVE  /\ Len(files) <= n
             /\ \A k \in 1..Len(files) : ReadAs(files[k], db[k])
             /\ b.len < lim => Len(files) = n
  <2>1. \A k \in 1..n : IsShared(db[k], Tokens) /\ IsTame(db[k].name)
    BY <1>2, <1>9, <1>n DEF AllTame
  <2>2. c \in Nat
    BY <1>5
  <2>3. /\ Follows(PublishLines(Cut(R[0], c)), PublishedFiles(Tokens), db, n, PublishedAs(Tokens, db))
        /\ c >= Len(R[0]) => Len(PublishLines(Cut(R[0], c))) = n
    <3> HIDE DEF c
    <3> QED BY <1>1, <1>2, <1>n, <1>3, <2>1, <2>2, PublishReads
  <2>4. /\ Follows(files, PublishedFiles(Tokens), db, n, PublishedAs(Tokens, db))
        /\ c >= Len(u) => Len(files) = n
    BY <2>3 DEF u
  <2>5. b.len < lim => c >= Len(u)
    BY <1>1, <1>5
  <2> HIDE DEF files, c
  <2>6. Len(files) <= n /\ \A k \in 1..Len(files) : <<files[k], db[k]>> \in PublishedAs(Tokens, db)
    BY <2>4 DEF Follows
  <2>7. \A k \in 1..Len(files) : ReadAs(files[k], db[k])
    BY <2>6 DEF PublishedAs
  <2> QED BY <2>4, <2>5, <2>6, <2>7
<1> HIDE DEF files
<1> QED BY <1>6, <1>7, <1>8, <1>9, <1>n DEF PublishedIs, b

\* What comes of the directory's list: the first lines, as they are but for the
\* peers, which are one text.
FetchedIs(db, lim, b, read) ==
  /\ b.len \in Nat /\ (b.past => b.len > lim)
  /\ Follows(read.list, ListedFiles(Tokens), db, Len(db), ListedAs(Tokens, db))
  /\ b.len < lim => Len(read.list) = Len(db) /\ read.null = FALSE

\* Its length is what is printed of it.
LengthIs(db, len) == \E R : IsList(R, db, Len(db), Tokens) /\ len = 5 + Len(R[0])

LEMMA FetchFacts ==
  ASSUME NEW db \in Seq(Readable), NEW lim \in Limits
  PROVE  /\ FetchedIs(db, lim, dm_filelistres(db, lim),
                      dm_deserialize_filelistres(dm_filelistres(db, lim).text))
         /\ LengthIs(db, dm_filelistres(db, lim).len)
<1> DEFINE n == Len(db)  b == dm_filelistres(db, lim)
<1>1. IsTokens(Tokens) /\ lim \in Nat \ (0..5) /\ lim \in Nat \ {0}
  BY TokensAreTokens, LimitsAssumption
<1>2. n \in Nat /\ DOMAIN db = 1..n /\ \A k \in 1..n : db[k] \in Readable
  BY LenProperties, ElementOfSeq
<1> HIDE DEF n
<1>n. n = Len(db)
  BY DEF n
<1>3. (\A k \in 1..n : IsReadable(db[k], Tokens)) /\ (\A k \in 1..n : IsListed(db[k], Tokens))
  <2>1. \A f \in Readable : IsReadable(f, Tokens) /\ IsListed(f, Tokens)
    BY ReadableIsReadable DEF IsReadable
  <2> QED BY <1>2, <2>1
<1>4. PICK R : IsList(R, db, n, Tokens) /\ Holds(b, lim, Cat(FirstLine("filelistres"), R[0]))
  BY <1>1, <1>2, <1>3, <1>n, ListPrinted
<1> HIDE DEF b
<1> DEFINE u == R[0]
<1>5. u \in Seq(Tokens)
  BY <1>2, <1>4 DEF IsList
<1> HIDE DEF u
<1>6. /\ Has(b.text, {Newline}) /\ lim - 6 \in Nat
      /\ After(b.text, {Newline}) = Cut(u, lim - 6)
      /\ b.len = 5 + Len(u) /\ Len(u) \in Nat
  <2>1. Holds(b, lim, Cat(FirstLine("filelistres"), u))
    BY <1>4 DEF u
  <2>2. "filelistres" \in {"publish", "filelistres"}
    OBVIOUS
  <2> QED BY <1>1, <1>5, <2>1, <2>2, ReadBehind
<1> DEFINE c == lim - 6  read == ListLines(Cut(u, c))
<1>7. dm_deserialize_filelistres(b.text) = read
  BY <1>6 DEF dm_deserialize_filelistres
<1>8. b.len \in Nat /\ (b.past => b.len > lim)
  BY <1>4, <1>6 DEF Holds
<1>9. c \in Nat /\ (b.len < lim => c >= Len(u))
  BY <1>1, <1>6
<1>10. AreRead(ListLines(Cut(R[0], c)), R, db, n, c, Tokens)
  <2>1. n \in Nat /\ n = Len(db) /\ DOMAIN db = 1..n /\ \A k \in 1..n : IsReadable(db[k], Tokens)
    BY <1>2, <1>3, <1>n
  <2>2. IsTokens(Tokens) /\ IsList(R, db, n, Tokens) /\ c \in Nat
    BY <1>1, <1>4, <1>9
  <2> HIDE DEF c, read
  <2>3. AreRead(ListLines(Cut(R[0], c)), R, db, n, c, Tokens)
    BY <2>1, <2>2, ListReads
  <2> QED BY <2>3 DEF c
<1>11. /\ Follows(read.list, ListedFiles(Tokens), db, n, ListedAs(Tokens, db))
       /\ c >= Len(u) => Len(read.list) = n /\ read.null = FALSE
  BY <1>10 DEF u, AreRead
<1>12. LengthIs(db, b.len)
  BY <1>4, <1>6, <1>n DEF LengthIs, u
<1> HIDE DEF read, c
<1>13. FetchedIs(db, lim, b, read)
  BY <1>8, <1>9, <1>11, <1>n DEF FetchedIs
<1> QED BY <1>7, <1>12, <1>13 DEF b

LEMMA JoinLength ==
  ASSUME NEW a \in Seq(Tokens), NEW x \in Tokens, NEW b \in Seq(Tokens)
  PROVE  /\ Joined(a, x, b) \in Seq(Tokens) /\ Len(Joined(a, x, b)) = Len(a) + 1 + Len(b)
         /\ Len(a) \in Nat /\ Len(b) \in Nat
<1>1. Joined(a, x, b) \in Seq(Tokens) /\ IsJoined(Joined(a, x, b), a, x, b)
  BY JoinFacts
<1> QED BY <1>1 DEF IsJoined

LEMMA ConsLength ==
  ASSUME NEW x \in Tokens, NEW b \in Seq(Tokens)
  PROVE  Cons(x, b) \in Seq(Tokens) /\ Len(Cons(x, b)) = Len(b) + 1 /\ Len(b) \in Nat
<1>1. Cons(x, b) \in Seq(Tokens) /\ Len(Cons(x, b)) = Len(b) + 1
  BY ConsFacts
<1>2. Len(b) \in Nat
  BY LenProperties
<1> QED BY <1>1, <1>2

LEMMA LineLength ==
  ASSUME NEW f \in Readable, NEW u \in Seq(Tokens)
  PROVE  /\ Len(f.hash) \in Nat /\ Len(f.name) \in Nat /\ Len(f.peers) \in Nat /\ Len(u) \in Nat
         /\ Len(LineThen(f, u)) = Len(f.hash) + Len(f.name) + 3 * Len(f.peers) + 6 + Len(u)
<1> DEFINE h == Hosts(f.peers)  a == f.hash  b == f.name  z == f.size
           t == Joined(h, Newline, u)  v == Cons(Semicolon, Cons(Blank, t))
           w == Cons(Blank, Cons(z, v))  x == Cons(Blank, Joined(b, Semicolon, w))
<1>1. IsListed(f, Tokens) /\ IsTokens(Tokens)
  BY ReadableIsReadable, TokensAreTokens DEF IsReadable
<1>2. /\ a \in Seq(Tokens) /\ b \in Seq(Tokens) /\ z \in Tokens
      /\ f.peers \in Seq(Tokens) /\ f.peers # <<>>
  BY <1>1 DEF IsListed
<1>3. Colon \in Tokens /\ Semicolon \in Tokens /\ Blank \in Tokens /\ Newline \in Tokens
  BY <1>1, SeparatorTokens
<1>4. h \in Seq(Tokens) /\ Len(f.peers) \in Nat \ {0} /\ Len(h) = 3 * Len(f.peers) - 2
  BY <1>1, <1>2, HostsFacts
<1>5. LineThen(f, u) = Joined(a, Colon, x)
  BY DEF LineThen, FileThen
<1> HIDE DEF h, a, b, z
<1>6. t \in Seq(Tokens) /\ Len(t) = Len(h) + 1 + Len(u) /\ Len(u) \in Nat /\ Len(h) \in Nat
  BY <1>3, <1>4, JoinLength
<1> HIDE DEF t
<1>7. v \in Seq(Tokens) /\ Len(v) = Len(t) + 2 /\ Len(t) \in Nat
  <2>1. Cons(Blank, t) \in Seq(Tokens) /\ Len(Cons(Blank, t)) = Len(t) + 1 /\ Len(t) \in Nat
    BY <1>3, <1>6, ConsLength
  <2>2. v \in Seq(Tokens) /\ Len(v) = Len(Cons(Blank, t)) + 1
    BY <1>3, <2>1, ConsLength
  <2> HIDE DEF v
  <2> QED BY <2>1, <2>2
<1> HIDE DEF v
<1>8. w \in Seq(Tokens) /\ Len(w) = Len(v) + 2
  <2>1. Cons(z, v) \in Seq(Tokens) /\ Len(Cons(z, v)) = Len(v) + 1 /\ Len(v) \in Nat
    BY <1>2, <1>7, ConsLength
  <2>2. w \in Seq(Tokens) /\ Len(w) = Len(Cons(z, v)) + 1
    BY <1>3, <2>1, ConsLength
  <2> HIDE DEF w
  <2> QED BY <2>1, <2>2
<1> HIDE DEF w
<1>9. x \in Seq(Tokens) /\ Len(x) = Len(b) + Len(w) + 2 /\ Len(b) \in Nat /\ Len(w) \in Nat
  <2> DEFINE y == Joined(b, Semicolon, w)
  <2>1. y \in Seq(Tokens) /\ Len(y) = Len(b) + 1 + Len(w) /\ Len(b) \in Nat /\ Len(w) \in Nat
    BY <1>2, <1>3, <1>8, JoinLength
  <2> HIDE DEF y
  <2>2. Cons(Blank, y) \in Seq(Tokens) /\ Len(Cons(Blank, y)) = Len(y) + 1
    BY <1>3, <2>1, ConsLength
  <2>3. x = Cons(Blank, y)
    BY DEF y
  <2> HIDE DEF x
  <2> QED BY <2>1, <2>2, <2>3
<1> HIDE DEF x
<1>10. Len(Joined(a, Colon, x)) = Len(a) + 1 + Len(x) /\ Len(a) \in Nat
  BY <1>2, <1>3, <1>9, JoinLength
<1>11. Len(LineThen(f, u)) = Len(a) + Len(b) + 3 * Len(f.peers) + 6 + Len(u)
  <2> DEFINE p == Len(f.peers)  l == Len(LineThen(f, u))
  <2>1. l = Len(a) + 1 + Len(x) /\ p \in Nat /\ Len(h) = 3 * p - 2
    BY <1>4, <1>5, <1>10
  <2> HIDE DEF p, l
  <2>2. l = Len(a) + Len(b) + 3 * p + 6 + Len(u)
    BY <2>1, <1>6, <1>7, <1>8, <1>9, <1>10
  <2> QED BY <2>2 DEF p, l
<1> QED BY <1>4, <1>6, <1>9, <1>10, <1>11 DEF a, b

\* A list that grows is not printed shorter.
LEMMA LengthGrows ==
  ASSUME NEW db \in Seq(Readable), NEW e \in Seq(Readable), Grows(db, e),
         NEW x, LengthIs(db, x), NEW y, LengthIs(e, y)
  PROVE  x <= y
<1> DEFINE n == Len(db)  m == Len(e)
<1>1. PICK R : IsList(R, db, n, Tokens) /\ x = 5 + Len(R[0])
  BY DEF LengthIs
<1>2. PICK Q : IsList(Q, e, m, Tokens) /\ y = 5 + Len(Q[0])
  BY DEF LengthIs
<1>3. n \in Nat /\ m \in Nat /\ n <= m
  BY LenProperties DEF Grows
<1>4. /\ \A k \in 1..n : db[k] \in Readable /\ e[k] \in Readable
      /\ \A k \in 1..n : /\ e[k].hash = db[k].hash /\ e[k].name = db[k].name
                         /\ Len(db[k].peers) <= Len(e[k].peers)
  <2>1. \A k \in 1..n : k \in 1..m
    BY <1>3
  <2> QED BY <2>1, ElementOfSeq DEF Grows
<1> HIDE DEF n, m
<1>5. /\ R \in [0..n -> Seq(Tokens)] /\ R[n] = <<>>
      /\ \A k \in 1..n : R[k - 1] = LineThen(db[k], R[k])
  BY <1>1 DEF IsList
<1>6. /\ Q \in [0..m -> Seq(Tokens)]
      /\ \A k \in 1..m : Q[k - 1] = LineThen(e[k], Q[k])
  BY <1>2 DEF IsList
<1>7. \A k \in 0..n : R[k] \in Seq(Tokens) /\ Q[k] \in Seq(Tokens)
  <2>1. \A k \in 0..n : R[k] \in Seq(Tokens)
    BY <1>5
  <2>2. \A k \in 0..n : k \in 0..m
    BY <1>3
  <2>3. \A k \in 0..m : Q[k] \in Seq(Tokens)
    BY <1>6
  <2> QED BY <2>1, <2>2, <2>3
<1>8. \A k \in 0..n : Len(R[k]) \in Nat /\ Len(Q[k]) \in Nat
  <2>1. \A t \in Seq(Tokens) : Len(t) \in Nat
    BY LenProperties
  <2> QED BY <1>7, <2>1
<1> DEFINE S == {j \in 0..n : Len(R[n - j]) <= Len(Q[n - j])}
<1>9. 0 \in S
  <2>1. n \in 0..n /\ n - 0 = n /\ 0 \in 0..n
    BY <1>3
  <2>2. Len(R[n]) = 0
    BY <1>5
  <2>3. Len(R[n]) <= Len(Q[n])
    <3> DEFINE a == Len(R[n])  b == Len(Q[n])
    <3>1. a = 0 /\ b \in Nat
      BY <1>8, <2>1, <2>2
    <3> HIDE DEF a, b
    <3>2. a <= b
      BY <3>1
    <3> QED BY <3>2 DEF a, b
  <2> QED BY <2>1, <2>3
<1>10. ASSUME NEW j \in 1..n, j - 1 \in S PROVE j \in S
  <2> DEFINE k == n - (j - 1)
  <2>1. k \in 1..n /\ k - 1 = n - j /\ k \in 0..n /\ k \in 1..m /\ j \in 0..n
    BY <1>3
  <2>2. Len(R[k]) <= Len(Q[k])
    BY <1>10
  <2> HIDE DEF k
  <2> DEFINE f == db[k]  g == e[k]  u == R[k]  v == Q[k]
  <2>3. f \in Readable /\ g \in Readable /\ u \in Seq(Tokens) /\ v \in Seq(Tokens)
    BY <1>4, <1>7, <2>1
  <2>4. g.hash = f.hash /\ g.name = f.name /\ Len(f.peers) <= Len(g.peers)
    BY <1>4, <2>1
  <2>5. Len(u) <= Len(v) /\ R[k - 1] = LineThen(f, u) /\ Q[k - 1] = LineThen(g, v)
    BY <1>5, <1>6, <2>1, <2>2
  <2> HIDE DEF f, g, u, v
  <2>6. Len(LineThen(f, u)) <= Len(LineThen(g, v))
    <3> DEFINE a == Len(f.hash)  b == Len(f.name)  p == Len(f.peers)  q == Len(g.peers)
               r == Len(LineThen(f, u))  s == Len(LineThen(g, v))
    <3>1. /\ a \in Nat /\ b \in Nat /\ p \in Nat /\ Len(u) \in Nat
          /\ r = a + b + 3 * p + 6 + Len(u)
      BY <2>3, LineLength
    <3>2. q \in Nat /\ Len(v) \in Nat /\ s = Len(g.hash) + Len(g.name) + 3 * q + 6 + Len(v)
      BY <2>3, LineLength
    <3>3. s = a + b + 3 * q + 6 + Len(v) /\ p <= q
      BY <2>4, <3>2
    <3> HIDE DEF a, b, p, q, r, s
    <3> DEFINE lu == Len(u)  lv == Len(v)
    <3>5. lu \in Nat /\ lv \in Nat /\ lu <= lv
      BY <2>5, <3>1, <3>2
    <3>6. r = a + b + 3 * p + 6 + lu /\ s = a + b + 3 * q + 6 + lv
      BY <3>1, <3>3
    <3> HIDE DEF lu, lv
    <3>7. a \in Nat /\ b \in Nat /\ p \in Nat /\ q \in Nat /\ p <= q
      BY <3>1, <3>2, <3>3
    <3>8. a + b + 3 * p + 6 + lu <= a + b + 3 * q + 6 + lv
      BY <3>5, <3>7
    <3>4. r <= s
      BY <3>6, <3>8
    <3> QED BY <3>4 DEF r, s
  <2>7. Len(R[n - j]) <= Len(Q[n - j])
    BY <2>1, <2>5, <2>6
  <2> QED BY <2>1, <2>7
<1>11. n \in S
  <2> HIDE DEF S
  <2>1. \A j \in 0..n : j \in S
    BY <1>3, <1>9, <1>10, InductionTo
  <2> QED BY <1>3, <2>1
<1>12. Len(R[0]) <= Len(Q[0]) /\ 0 \in 0..n
  <2>1. n - n = 0
    BY <1>3
  <2> QED BY <1>3, <1>11, <2>1
<1> DEFINE a == Len(R[0])  b == Len(Q[0])
<1>13. a \in Nat /\ b \in Nat /\ a <= b /\ x = 5 + a /\ y = 5 + b
  BY <1>1, <1>2, <1>8, <1>12
<1> HIDE DEF a, b
<1> QED BY <1>13

-----------------------------------------------------------------------------
(* Records that are overwritten.                                           *)

LEMMA HeldFacts ==
  ASSUME NEW S, \A f \in S : Overwritten(f) \in S, NEW list \in Seq(S), NEW b \in BOOLEAN,
         NEW e \in Held(b, list)
  PROVE  /\ e \in Seq(S) /\ Len(e) = Len(list) /\ Len(e) \in Nat
         /\ \A k \in 1..Len(list) : e[k] = list[k] \/ e[k] = Overwritten(list[k])
         /\ ~ b => e = list
<1> DEFINE n == Len(list)
<1>1. n \in Nat /\ DOMAIN list = 1..n /\ \A k \in 1..n : list[k] \in S
  BY LenProperties, ElementOfSeq
<1>2. list = [k \in 1..n |-> list[k]]
  BY LenProperties
<1> HIDE DEF n
<1>3. PICK hit \in SUBSET (IF b THEN 1..n ELSE {}) :
        e = [k \in 1..n |-> IF k \in hit THEN Overwritten(list[k]) ELSE list[k]]
  BY <1>1 DEF Held
<1>4. \A k \in 1..n : e[k] = IF k \in hit THEN Overwritten(list[k]) ELSE list[k]
  BY <1>3
<1>5. e \in [1..n -> S]
  BY <1>1, <1>3
<1>6. e \in Seq(S) /\ Len(e) = n
  BY <1>1, <1>5, FunctionIsSeq
<1>7. ASSUME ~ b PROVE e = list
  <2>1. e = [k \in 1..n |-> list[k]]
    BY <1>3, <1>7
  <2> QED BY <1>2, <2>1
<1> QED BY <1>1, <1>4, <1>6, <1>7 DEF n

\* A text with nothing in it is one that can be read.
LEMMA NoText ==
  /\ <<>> \in Seq(Tokens) /\ Strip(<<>>) = <<>>
  /\ \A tokens : ~ Has(<<>>, tokens)
<1>1. <<>> \in Seq(Tokens)
  BY EmptySeq
<1>2. Strip(<<>>) = <<>>
  BY <1>1, StripNothing
<1> QED BY <1>1, <1>2 DEF Has

LEMMA OverwrittenFile ==
  ASSUME NEW A, NEW C, <<>> \in A, Zero \in C, NEW f \in [hash : A, name : A, size : C]
  PROVE  /\ Overwritten(f) \in [hash : A, name : A, size : C]
         /\ Overwritten(f).hash = <<>> /\ Overwritten(f).name = <<>> /\ Overwritten(f).size = Zero
<1> DEFINE none == <<>>
<1>1. none \in A /\ Overwritten(f) = [f EXCEPT !.hash = none, !.name = none, !.size = Zero]
  BY DEF Overwritten
<1>n. none = <<>>
  OBVIOUS
<1> HIDE DEF none
<1> QED BY <1>1, <1>n

LinesOf(A, C, D) == [hash : A, name : A, size : C, peers : D]

LEMMA OverwrittenListed ==
  ASSUME NEW A, NEW C, NEW D, <<>> \in A, Zero \in C,
         NEW f \in LinesOf(A, C, D)
  PROVE  /\ Overwritten(f) \in LinesOf(A, C, D)
         /\ Overwritten(f).hash = <<>> /\ Overwritten(f).name = <<>> /\ Overwritten(f).size = Zero
         /\ Overwritten(f).peers = f.peers
<1> DEFINE none == <<>>
<1>1. none \in A /\ Overwritten(f) = [f EXCEPT !.hash = none, !.name = none, !.size = Zero]
  BY DEF Overwritten
<1>n. none = <<>>
  OBVIOUS
<1> HIDE DEF none
<1> QED BY <1>1, <1>n DEF LinesOf

LEMMA OverwrittenReadable ==
  ASSUME NEW f \in Readable
  PROVE  Overwritten(f) \in Readable /\ Overwritten(f).peers = f.peers
<1> DEFINE none == <<>>  x == Overwritten(f)
           A == Seq(Tokens)  C == Numbers \cup {Zero}  D == Seq(Clients)
<1>1. /\ none \in A /\ Strip(none) = none /\ \A tokens : ~ Has(none, tokens)
      /\ Zero \in C
  BY NoText, TokensAreTokens
<1>2. f \in LinesOf(A, C, D) /\ f.peers # <<>> /\ IsInjective(f.peers)
  BY DEF Readable, LinesOf
<1> HIDE DEF A, C, D
<1>3. /\ x \in LinesOf(A, C, D)
      /\ x.hash = none /\ x.name = none /\ x.size = Zero /\ x.peers = f.peers
  BY <1>1, <1>2, OverwrittenListed
<1> HIDE DEF none, x
<1> QED BY <1>1, <1>2, <1>3 DEF Readable, LinesOf, x, A, C, D

LEMMA OverwrittenRead ==
  ASSUME NEW f \in ReadFiles(Tokens)
  PROVE  Overwritten(f) \in ReadFiles(Tokens)
<1> DEFINE none == <<>>  x == Overwritten(f)
           A == Seq(Tokens)  C == Numbers \cup {Zero}
<1>1. /\ none \in A /\ Strip(none) = none /\ \A tokens : ~ Has(none, tokens)
      /\ Zero \in C
  BY NoText, TokensAreTokens
<1>2. f \in [hash : A, name : A, size : C]
  BY DEF ReadFiles
<1> HIDE DEF A, C
<1>3. /\ x \in [hash : A, name : A, size : C]
      /\ x.hash = none /\ x.name = none /\ x.size = Zero
  BY <1>1, <1>2, OverwrittenFile
<1> HIDE DEF none, x
<1> QED BY <1>1, <1>2, <1>3 DEF ReadFiles, x, A, C

LEMMA OverwrittenShared ==
  ASSUME NEW f \in SharedFiles
  PROVE  Overwritten(f) \in SharedFiles
<1> DEFINE none == <<>>  x == Overwritten(f)
           A == Seq(Tokens)  C == Tokens
<1>1. /\ none \in A /\ Strip(none) = none /\ \A tokens : ~ Has(none, tokens)
      /\ Zero \in C
  BY NoText, TokensAreTokens
<1>2. f \in [hash : A, name : A, size : C] /\ IsShared(f, Tokens)
  BY DEF SharedFiles, IsShared
<1> HIDE DEF A, C
<1>3. /\ x \in [hash : A, name : A, size : C]
      /\ x.hash = none /\ x.name = none /\ x.size = Zero
  BY <1>1, <1>2, OverwrittenFile
<1> HIDE DEF none, x
<1> QED BY <1>1, <1>2, <1>3 DEF SharedFiles, IsShared, x, A, C

Lines == {f \in ListedFiles(Tokens) : IsFile(f)}

LEMMA OverwrittenLine ==
  ASSUME NEW f \in Lines
  PROVE  Overwritten(f) \in Lines
<1> DEFINE none == <<>>  x == Overwritten(f)
           A == Seq(Tokens)  C == Numbers \cup {Zero}  D == Seq(Seq(Tokens))
<1>1. /\ none \in A /\ Strip(none) = none /\ \A tokens : ~ Has(none, tokens)
      /\ Zero \in C
  BY NoText, TokensAreTokens
<1>2. f \in LinesOf(A, C, D)
  BY DEF Lines, ListedFiles, LinesOf
<1> HIDE DEF A, C, D
<1>3. /\ x \in LinesOf(A, C, D)
      /\ x.hash = none /\ x.name = none /\ x.size = Zero /\ x.peers = f.peers
  BY <1>1, <1>2, OverwrittenListed
<1> HIDE DEF none, x
<1> QED BY <1>1, <1>2, <1>3 DEF Lines, ListedFiles, LinesOf, IsFile, x, A, C, D

-----------------------------------------------------------------------------
(* Types.                                                                  *)

Typed == /\ shares \in [Clients -> ShareLists] /\ limit \in Limits
         /\ registry \in Seq(Readable) /\ listing \in Seq(Lines)
         /\ acked \subseteq Clients /\ crashed \subseteq Clients \cup {Server}
         /\ damaged \subseteq Clients \cup {Server}

LEMMA ReadableIsFile ==
  ASSUME NEW f \in Readable
  PROVE  IsFile(f) /\ ToSet(f.peers) \subseteq Clients /\ IsInjective(f.peers)
<1>1. /\ f.size \in Numbers \cup {Zero} /\ f.peers \in Seq(Clients) /\ IsInjective(f.peers)
      /\ ~ Has(f.hash, {Colon}) /\ ~ Has(f.name, {Semicolon})
  BY DEF Readable
<1>2. ToSet(f.peers) \subseteq Clients
  BY <1>1, ElementOfSeq, LenProperties DEF ToSet
<1> QED BY <1>1, <1>2 DEF IsFile

LEMMA SetOfSeq ==
  ASSUME NEW S, NEW s \in Seq(S)
  PROVE  /\ ToSet(s) \subseteq S /\ DOMAIN s = 1..Len(s) /\ Len(s) \in Nat
         /\ \A x : x \in ToSet(s) <=> \E k \in 1..Len(s) : s[k] = x
<1>1. DOMAIN s = 1..Len(s) /\ Len(s) \in Nat /\ \A k \in 1..Len(s) : s[k] \in S
  BY LenProperties, ElementOfSeq
<1> QED BY <1>1 DEF ToSet

LEMMA TypedTypeOK ==
  ASSUME Typed
  PROVE  TypeOK
<1>1. \A f \in ToSet(registry) : /\ IsFile(f) /\ ToSet(f.peers) \subseteq Clients
                                /\ IsInjective(f.peers)
  <2>1. ToSet(registry) \subseteq Readable
    BY SetOfSeq DEF Typed
  <2> QED BY <2>1, ReadableIsFile
<1>2. \A f \in ToSet(listing) : IsFile(f)
  <2>1. ToSet(listing) \subseteq Lines
    BY SetOfSeq DEF Typed
  <2> QED BY <2>1 DEF Lines
<1> QED BY <1>1, <1>2 DEF Typed, TypeOK

LEMMA PublishedFacts ==
  ASSUME Typed, NEW c \in Clients
  PROVE  /\ shares[c] \in ShareLists
         /\ PublishedIs(shares[c], limit, dm_publish(shares[c], limit), Published(c))
<1>1. shares[c] \in ShareLists /\ limit \in Limits
  BY DEF Typed
<1>2. shares[c] \in Seq(SharedFiles)
  BY <1>1, ShareListsType
<1> QED BY <1>1, <1>2, PublishFacts DEF Published, Read, Sent

\* The list that a client sends, and what is read of it, by a directory that may be
\* damaged or not.
LEMMA SentFacts ==
  ASSUME Typed, NEW c \in Clients, NEW list \in Held(c \in damaged, shares[c])
  PROVE  /\ Read(list) \in Seq(ReadFiles(Tokens)) /\ Len(Read(list)) \in Nat
         /\ c \notin damaged => list = shares[c]
         /\ \A b \in BOOLEAN : \A files \in Held(b, Read(list)) :
              /\ files \in Seq(ReadFiles(Tokens)) /\ Len(files) = Len(Read(list))
              /\ ~ b => files = Read(list)
<1>1. shares[c] \in ShareLists /\ limit \in Limits
  BY DEF Typed
<1>2. shares[c] \in Seq(SharedFiles)
  BY <1>1, ShareListsType
<1>3. (c \in damaged) \in BOOLEAN
  OBVIOUS
<1>4. list \in Seq(SharedFiles) /\ (c \notin damaged => list = shares[c])
  BY <1>2, <1>3, OverwrittenShared, HeldFacts
<1>5. Read(list) \in Seq(ReadFiles(Tokens))
  BY <1>1, <1>4, PublishFacts DEF PublishedIs, Read, Sent
<1>6. Len(Read(list)) \in Nat
  BY <1>5, LenProperties
<1>7. \A b \in BOOLEAN : \A files \in Held(b, Read(list)) :
        /\ files \in Seq(ReadFiles(Tokens)) /\ Len(files) = Len(Read(list))
        /\ ~ b => files = Read(list)
  BY <1>5, OverwrittenRead, HeldFacts
<1> QED BY <1>4, <1>5, <1>6, <1>7

LEMMA FetchedFacts ==
  ASSUME Typed
  PROVE  FetchedIs(registry, limit, Reply, Fetched) /\ LengthIs(registry, Reply.len)
<1>1. registry \in Seq(Readable) /\ limit \in Limits
  BY DEF Typed
<1> QED BY <1>1, FetchFacts DEF Reply, Fetched

LEMMA RegistryGrows ==
  ASSUME Typed, NEW c \in Clients, NEW files \in Seq(ReadFiles(Tokens))
  PROVE  /\ Register(registry, files, c) \in Seq(Readable)
         /\ Grows(registry, Register(registry, files, c))
         /\ \A j \in 1..Len(files) : OnList(files[j].hash, Register(registry, files, c))
<1> DEFINE F == ReadFiles(Tokens)  G == Readable  db == registry
<1>1. files \in Seq(F) /\ db \in Seq(G) /\ G \subseteq Readable
  BY DEF Typed
<1>2. \A f \in F : Admits(G, f, c)
  BY ReadableAdmits
<1> HIDE DEF F, G, db
<1>3. /\ Register(db, files, c) \in Seq(G) /\ Grows(db, Register(db, files, c))
      /\ \A j \in 1..Len(files) : OnList(files[j].hash, Register(db, files, c))
  BY <1>1, <1>2, RegisterKeeps
<1> QED BY <1>3 DEF G, db

\* Lists that are no shorter, nor are their lines' lists of peers, whatever else has
\* become of them.
GrowsLen(db, e) ==
  /\ Len(db) <= Len(e)
  /\ \A k \in 1..Len(db) : Len(db[k].peers) <= Len(e[k].peers)

\* What a publish does to the directory: what it registers, db, is then held.
LEMMA PublishIs ==
  ASSUME Typed, NEW c \in Clients, Publish(c)
  PROVE  \E list \in Held(c \in damaged, shares[c]), files \in Seq(ReadFiles(Tokens)),
            db \in Seq(Readable) :
           /\ db = Register(registry, files, c) /\ Len(files) = Len(Read(list))
           /\ ~ (Server \in damaged \/ Overruns(Read(list))) => files = Read(list)
           /\ damaged' = damaged \cup IF \/ Overruns(files) \/ Overruns(db)
                                         \/ \E k \in 1..Len(db) : Overruns(db[k].peers)
                                      THEN {Server} ELSE {}
           /\ registry' \in Seq(Readable) /\ GrowsLen(registry, registry')
           /\ Len(registry') = Len(db)
           /\ \A k \in 1..Len(db) : registry'[k].peers = db[k].peers
           /\ Server \notin damaged' => registry' = db
<1>1. PICK list \in Held(c \in damaged, shares[c]) :
        \E files \in Held(Server \in damaged \/ Overruns(Read(list)), Read(list)) :
            LET db == Register(registry, files, c) IN
            /\ damaged' = damaged \cup
                 IF \/ Overruns(files) \/ Overruns(db)
                    \/ \E k \in DOMAIN db : Overruns(db[k].peers)
                 THEN {Server} ELSE {}
            /\ registry' \in Held(Server \in damaged', db)
  BY DEF Publish
<1>2. PICK files \in Held(Server \in damaged \/ Overruns(Read(list)), Read(list)) :
            LET db == Register(registry, files, c) IN
            /\ damaged' = damaged \cup
                 IF \/ Overruns(files) \/ Overruns(db)
                    \/ \E k \in DOMAIN db : Overruns(db[k].peers)
                 THEN {Server} ELSE {}
            /\ registry' \in Held(Server \in damaged', db)
  BY <1>1
<1> DEFINE db == Register(registry, files, c)  b == Server \in damaged \/ Overruns(Read(list))
<1>3. /\ files \in Seq(ReadFiles(Tokens)) /\ Len(files) = Len(Read(list))
      /\ ~ b => files = Read(list)
  <2>1. b \in BOOLEAN
    BY DEF Overruns
  <2>2. files \in Held(b, Read(list))
    OBVIOUS
  <2> HIDE DEF b
  <2> QED BY <2>1, <2>2, SentFacts
<1>4. db \in Seq(Readable) /\ Grows(registry, db)
  BY <1>3, RegistryGrows
<1>5. /\ damaged' = damaged \cup
           IF \/ Overruns(files) \/ Overruns(db) \/ \E k \in DOMAIN db : Overruns(db[k].peers)
           THEN {Server} ELSE {}
      /\ registry' \in Held(Server \in damaged', db)
  BY <1>2
<1>d. db = Register(registry, files, c)
  OBVIOUS
<1> HIDE DEF db
<1>6. DOMAIN db = 1..Len(db) /\ Len(db) \in Nat
  BY <1>4, LenProperties
<1> DEFINE e == registry'
<1>7. /\ e \in Seq(Readable) /\ Len(e) = Len(db)
      /\ \A k \in 1..Len(db) : e[k] = db[k] \/ e[k] = Overwritten(db[k])
      /\ Server \notin damaged' => e = db
  <2> DEFINE d == Server \in damaged'
  <2>1. d \in BOOLEAN /\ e \in Held(d, db) /\ (Server \notin damaged' => ~ d)
    BY <1>5
  <2> HIDE DEF e, d
  <2>2. \A f \in Readable : Overwritten(f) \in Readable
    BY OverwrittenReadable
  <2>3. /\ e \in Seq(Readable) /\ Len(e) = Len(db)
        /\ \A k \in 1..Len(db) : e[k] = db[k] \/ e[k] = Overwritten(db[k])
        /\ ~ d => e = db
    BY <1>4, <2>1, <2>2, HeldFacts
  <2> QED BY <2>1, <2>3
<1> HIDE DEF e
<1>8. \A k \in 1..Len(db) : e[k].peers = db[k].peers
  <2>1. \A k \in 1..Len(db) : db[k] \in Readable
    BY <1>4, ElementOfSeq
  <2> QED BY <1>7, <2>1, OverwrittenReadable
<1>9. GrowsLen(registry, e)
  <2>1. Len(registry) \in Nat /\ Len(registry) <= Len(db)
    BY <1>4, LenProperties DEF Typed, Grows
  <2>2. \A k \in 1..Len(registry) : k \in 1..Len(db) /\ Len(registry[k].peers) <= Len(db[k].peers)
    BY <1>4, <1>6, <2>1 DEF Grows
  <2> QED BY <1>7, <1>8, <2>1, <2>2 DEF GrowsLen
<1> QED BY <1>3, <1>4, <1>5, <1>6, <1>7, <1>8, <1>9, <1>d DEF e

\* As long as nothing is damaged, what was read is what is registered.
LEMMA PublishUndamaged ==
  ASSUME Typed, NEW c \in Clients, Publish(c), damaged' = {}
  PROVE  damaged = {} /\ registry' = Register(registry, Published(c), c)
<1>1. PICK list \in Held(c \in damaged, shares[c]), files \in Seq(ReadFiles(Tokens)),
           db \in Seq(Readable) :
           /\ db = Register(registry, files, c) /\ Len(files) = Len(Read(list))
           /\ ~ (Server \in damaged \/ Overruns(Read(list))) => files = Read(list)
           /\ damaged' = damaged \cup IF \/ Overruns(files) \/ Overruns(db)
                                         \/ \E k \in 1..Len(db) : Overruns(db[k].peers)
                                      THEN {Server} ELSE {}
           /\ Server \notin damaged' => registry' = db
  BY PublishIs
<1>2. damaged = {} /\ ~ Overruns(files) /\ registry' = db
  BY <1>1
<1>3. list = shares[c]
  BY <1>2, SentFacts
<1>4. ~ Overruns(Read(list))
  BY <1>1, <1>2 DEF Overruns
<1>5. files = Published(c)
  BY <1>1, <1>2, <1>3, <1>4 DEF Published
<1> QED BY <1>1, <1>2, <1>5

\* What is fetched has the lines of the registry.
LEMMA FetchedLines ==
  ASSUME Typed
  PROVE  /\ Fetched.list \in Seq(Lines) /\ Len(Fetched.list) \in Nat /\ Len(registry) \in Nat
         /\ Len(Fetched.list) <= Len(registry)
         /\ \A k \in 1..Len(Fetched.list) :
              /\ registry[k] \in Readable
              /\ Fetched.list[k].hash = registry[k].hash
              /\ Fetched.list[k].name = registry[k].name
              /\ Fetched.list[k].size = registry[k].size
              /\ Fetched.list[k].peers \in {<<>>, <<Hosts(registry[k].peers)>>}
<1> DEFINE list == Fetched.list  l == Len(list)  F == ListedFiles(Tokens)  n == Len(registry)
<1>1. /\ list \in Seq(F) /\ l <= n
      /\ \A k \in 1..l : <<list[k], registry[k]>> \in ListedAs(Tokens, registry)
  BY FetchedFacts DEF FetchedIs, Follows
<1>2. registry \in Seq(Readable) /\ n \in Nat /\ \A k \in 1..n : registry[k] \in Readable
  BY LenProperties, ElementOfSeq DEF Typed
<1>3. l \in Nat /\ \A k \in 1..l : list[k] \in F
  BY <1>1, LenProperties, ElementOfSeq
<1> HIDE DEF list, l, F, n
<1>4. ASSUME NEW k \in 1..l
      PROVE  /\ registry[k] \in Readable
             /\ list[k].hash = registry[k].hash /\ list[k].name = registry[k].name
             /\ list[k].size = registry[k].size
             /\ list[k].peers \in {<<>>, <<Hosts(registry[k].peers)>>}
             /\ list[k] \in Lines
  <2> DEFINE x == list[k]  y == registry[k]
  <2>1. y \in Readable /\ x \in F
    BY <1>1, <1>2, <1>3
  <2>2. <<x, y>> \in ListedAs(Tokens, registry)
    BY <1>1
  <2> HIDE DEF x, y
  <2>3. /\ x.hash = y.hash /\ x.name = y.name /\ x.size = y.size
        /\ x.peers = <<>> \/ x.peers = <<Hosts(y.peers)>>
    BY <2>2 DEF ListedAs
  <2>4. IsFile(x)
    BY <2>1, <2>3, ReadableIsFile DEF IsFile
  <2>5. x \in Lines
    BY <2>1, <2>4 DEF Lines, F
  <2> QED BY <2>1, <2>3, <2>5 DEF x, y
<1>5. list \in Seq(Lines)
  BY <1>1, <1>3, <1>4, FunctionIsSeq, SeqDef, LenProperties DEF l
<1> QED BY <1>1, <1>2, <1>3, <1>4, <1>5 DEF list, l, n

\* What a fetch leaves.
LEMMA FetchIs ==
  ASSUME Typed, NEW c \in Clients, Fetch(c)
  PROVE  /\ listing' \in Seq(Lines)
         /\ damaged' = {} => damaged = {} /\ listing' = Fetched.list
<1> DEFINE list == Fetched.list  e == listing'
<1>1. (c \in damaged') \in BOOLEAN /\ e \in Held(c \in damaged', list)
  BY DEF Fetch
<1>2. list \in Seq(Lines)
  BY FetchedLines
<1> HIDE DEF list, e
<1>3. e \in Seq(Lines) /\ (c \notin damaged' => e = list)
  BY <1>1, <1>2, OverwrittenLine, HeldFacts
<1>4. damaged \subseteq damaged'
  BY DEF Fetch
<1> QED BY <1>3, <1>4 DEF list, e

LEMMA TypedInit ==
  Init => Typed
<1> SUFFICES ASSUME Init PROVE Typed
  OBVIOUS
<1>1. registry \in Seq(Readable) /\ listing \in Seq(Lines)
  BY EmptySeq DEF Init
<1> QED BY <1>1 DEF Init, Typed

LEMMA TypedNext ==
  Typed /\ [Next]_vars => Typed'
<1> SUFFICES ASSUME Typed, [Next]_vars PROVE Typed'
  OBVIOUS
<1>1. ASSUME NEW c \in Clients, Publish(c) PROVE Typed'
  <2>1. /\ registry' \in Seq(Readable)
        /\ damaged' = damaged \/ damaged' = damaged \cup {Server}
    BY <1>1, PublishIs
  <2>2. /\ acked' = acked \cup {c}
        /\ UNCHANGED <<shares, limit, listing, crashed>>
    BY <1>1 DEF Publish
  <2>3. acked' \subseteq Clients /\ damaged' \subseteq Clients \cup {Server}
    BY <2>1, <2>2 DEF Typed
  <2> QED BY <2>1, <2>2, <2>3 DEF Typed
<1>2. ASSUME NEW c \in Clients, PublishOverruns(c) PROVE Typed'
  BY <1>2 DEF PublishOverruns, Typed
<1>3. ASSUME NEW c \in Clients, Fetch(c) PROVE Typed'
  <2>1. listing' \in Seq(Lines)
    BY <1>3, FetchIs
  <2>2. damaged' \subseteq Clients \cup {Server}
    BY <1>3 DEF Fetch, Typed
  <2> QED BY <1>3, <2>1, <2>2 DEF Fetch, Typed
<1>4. ASSUME NEW c \in Clients, FetchCrashes(c) PROVE Typed'
  BY <1>4 DEF FetchCrashes, Typed
<1>5. ASSUME NEW process \in Clients \cup {Server}, HeapBreaks(process) PROVE Typed'
  BY <1>5 DEF HeapBreaks, Typed
<1>6. CASE UNCHANGED vars
  BY <1>6 DEF vars, Typed
<1> QED BY <1>1, <1>2, <1>3, <1>4, <1>5, <1>6 DEF Next

\* As long as no vector has grown, what was read can be printed and read again,
\* whatever the clients share and wherever their lists are cut, and a file's peers
\* are clients, each once.
THEOREM TypeCorrect ==
  Spec => []TypeOK
<1>1. Typed => TypeOK
  BY TypedTypeOK
<1> QED BY <1>1, TypedInit, TypedNext, PTL DEF Spec

-----------------------------------------------------------------------------
(* Lists are prefixes.                                                     *)

\* As long as no vector has grown, a list that is fetched is the beginning of the
\* directory's, and all of it if it fitted into a datagram, whatever names are on it.
THEOREM ListsArePrefixes ==
  Spec => FetchIsPrefix
<1> DEFINE A == listing' # listing /\ Undamaged' =>
                  /\ Len(listing') <= Len(registry)
                  /\ \A k \in DOMAIN listing' : /\ listing'[k].hash = registry[k].hash
                                               /\ listing'[k].name = registry[k].name
                                               /\ listing'[k].size = registry[k].size
                  /\ ListLength(registry) < limit => Len(listing') = Len(registry)
<1>1. Typed /\ [Next]_vars => [A]_vars
  <2> SUFFICES ASSUME Typed, [Next]_vars, listing' # listing, Undamaged'
               PROVE  /\ Len(listing') <= Len(registry)
                      /\ \A k \in DOMAIN listing' : /\ listing'[k].hash = registry[k].hash
                                                   /\ listing'[k].name = registry[k].name
                                                   /\ listing'[k].size = registry[k].size
                      /\ ListLength(registry) < limit => Len(listing') = Len(registry)
    OBVIOUS
  <2>1. PICK c \in Clients : Fetch(c)
    BY DEF Next, Publish, PublishOverruns, FetchCrashes, HeapBreaks, vars
  <2>2. listing' = Fetched.list
    BY <2>1, FetchIs DEF Undamaged
  <2>3. /\ Len(listing') <= Len(registry) /\ DOMAIN listing' = 1..Len(listing')
        /\ \A k \in 1..Len(listing') : /\ listing'[k].hash = registry[k].hash
                                       /\ listing'[k].name = registry[k].name
                                       /\ listing'[k].size = registry[k].size
    BY <2>2, FetchedLines, LenProperties
  <2>4. ListLength(registry) < limit => Len(listing') = Len(registry)
    BY <2>2, FetchedFacts DEF FetchedIs, ListLength, Reply
  <2> QED BY <2>3, <2>4
<1>2. Spec => [][A]_vars
  <2> HIDE DEF A
  <2> QED BY <1>1, TypedInit, TypedNext, PTL DEF Spec
<1> QED BY <1>2 DEF FetchIsPrefix

-----------------------------------------------------------------------------
(* Crashes.                                                                *)

LEMMA SharedIs ==
  ASSUME Typed
  PROVE  /\ \A c \in Clients : \A k \in 1..Len(shares[c]) : <<c, shares[c][k]>> \in Shared
         /\ \A s \in Shared : \E c \in Clients : \E k \in 1..Len(shares[c]) :
              s = <<c, shares[c][k]>> /\ s[1] = c /\ s[2] = shares[c][k]
<1>1. \A c \in Clients : DOMAIN shares[c] = 1..Len(shares[c])
  BY ShareListsType DEF Typed
<1>2. \A c \in Clients : \A k \in 1..Len(shares[c]) : <<c, shares[c][k]>> \in Shared
  BY <1>1 DEF Shared, ToSet
<1>3. ASSUME NEW s \in Shared
      PROVE  \E c \in Clients : \E k \in 1..Len(shares[c]) :
               s = <<c, shares[c][k]>> /\ s[1] = c /\ s[2] = shares[c][k]
  <2>1. PICK c \in Clients : \E k \in DOMAIN shares[c] : s = <<c, shares[c][k]>>
    BY DEF Shared, ToSet
  <2> QED BY <1>1, <2>1
<1> QED BY <1>2, <1>3

LEMMA TameNames ==
  ASSUME Typed, Tame, NEW c \in Clients
  PROVE  AllTame(shares[c])
<1>1. ASSUME NEW k \in 1..Len(shares[c]) PROVE IsTame(shares[c][k].name)
  <2> DEFINE s == <<c, shares[c][k]>>
  <2>1. s \in Shared
    BY SharedIs
  <2>2. s[2] = shares[c][k]
    OBVIOUS
  <2> HIDE DEF s
  <2>3. ~ (Has(s[2].name, {Semicolon}) /\ Has(After(s[2].name, {Semicolon}), {Newline}))
    BY <2>1 DEF Tame
  <2> QED BY <2>2, <2>3 DEF IsTame
<1> QED BY <1>1 DEF AllTame

\* What is longer than a datagram.
TooLong(db) == \/ \E c \in Clients : PublishLength(shares[c]) >= limit
               \/ ListLength(db) >= limit

LEMMA Numbered ==
  ASSUME Typed
  PROVE  /\ limit \in Nat /\ Initial \in Nat /\ Len(registry) \in Nat /\ DOMAIN registry = 1..Len(registry)
         /\ \A db \in Seq(Readable) : /\ Len(db) \in Nat /\ DOMAIN db = 1..Len(db)
                                      /\ \A k \in 1..Len(db) : Len(db[k].peers) \in Nat
<1>1. limit \in Nat /\ Initial \in Nat /\ registry \in Seq(Readable)
  BY LimitsAssumption, InitialAssumption DEF Typed
<1>2. \A f \in Readable : Len(f.peers) \in Nat
  BY LenProperties DEF Readable
<1>3. ASSUME NEW db \in Seq(Readable)
      PROVE  /\ Len(db) \in Nat /\ DOMAIN db = 1..Len(db)
             /\ \A k \in 1..Len(db) : Len(db[k].peers) \in Nat
  BY <1>2, LenProperties, ElementOfSeq
<1> QED BY <1>1, <1>3

\* What can have grown stays long, whatever is overwritten of it.
LEMMA GrowsLongStays ==
  ASSUME Typed, [Next]_vars, GrowsLong
  PROVE  GrowsLong'
<1>1. shares' = shares /\ limit' = limit
  BY DEF Next, Publish, PublishOverruns, Fetch, FetchCrashes, HeapBreaks, vars
<1>2. CASE \E c \in Clients : \/ Len(shares[c]) > Initial
                              \/ ~ Tame /\ Len(Published(c)) > Initial
  BY <1>1, <1>2 DEF GrowsLong, Published, Read, Sent, Tame, Shared
<1>3. CASE Len(registry) > Initial \/ \E f \in ToSet(registry) : Len(f.peers) > Initial
  <2>1. CASE registry' = registry
    BY <1>3, <2>1 DEF GrowsLong
  <2>2. CASE registry' # registry
    <3>1. PICK c \in Clients : Publish(c)
      BY <2>2 DEF Next, PublishOverruns, Fetch, FetchCrashes, HeapBreaks, vars
    <3> DEFINE db == registry'
    <3>2. db \in Seq(Readable) /\ GrowsLen(registry, db)
      BY <3>1, PublishIs
    <3>d. db = registry'
      OBVIOUS
    <3> HIDE DEF db
    <3>3. /\ registry \in Seq(Readable) /\ Initial \in Nat
          /\ Len(registry) \in Nat /\ Len(db) \in Nat /\ Len(registry) <= Len(db)
          /\ \A k \in 1..Len(registry) : Len(registry[k].peers) \in Nat
          /\ \A k \in 1..Len(db) : Len(db[k].peers) \in Nat
          /\ \A k \in 1..Len(registry) : Len(registry[k].peers) <= Len(db[k].peers)
      BY <3>2, Numbered DEF Typed, GrowsLen
    <3>4. CASE Len(registry) > Initial
      <4>1. Len(db) > Initial
        BY <3>3, <3>4
      <4> QED BY <3>d, <4>1 DEF GrowsLong
    <3>5. CASE \E f \in ToSet(registry) : Len(f.peers) > Initial
      <4>1. PICK k \in 1..Len(registry) : Len(registry[k].peers) > Initial
        BY <3>3, <3>5, SetOfSeq
      <4>2. k \in 1..Len(db)
        BY <3>3
      <4> DEFINE x == Len(registry[k].peers)  y == Len(db[k].peers)
      <4>3. x \in Nat /\ y \in Nat /\ x <= y /\ x > Initial
        BY <3>3, <4>1, <4>2
      <4> HIDE DEF x, y
      <4>4. y > Initial
        BY <3>3, <4>3
      <4>5. db[k] \in ToSet(db)
        BY <3>2, <4>2, SetOfSeq
      <4> QED BY <3>d, <4>4, <4>5 DEF GrowsLong, y
    <3> QED BY <1>3, <3>4, <3>5
  <2> QED BY <2>1, <2>2
<1>4. \/ \E c \in Clients : \/ Len(shares[c]) > Initial
                            \/ ~ Tame /\ Len(Published(c)) > Initial
      \/ Len(registry) > Initial \/ \E f \in ToSet(registry) : Len(f.peers) > Initial
  BY DEF GrowsLong
<1> QED BY <1>2, <1>3, <1>4

\* A process is damaged by what has grown.
LEMMA DamageIsGrowth ==
  ASSUME Typed, [Next]_vars, damaged # {} => GrowsLong, damaged' # damaged
  PROVE  GrowsLong \/ GrowsLong'
<1> SUFFICES ASSUME damaged = {} PROVE GrowsLong \/ GrowsLong'
  OBVIOUS
<1>1. ASSUME NEW c \in Clients, Publish(c) PROVE GrowsLong \/ GrowsLong'
  <2>1. PICK list \in Held(c \in damaged, shares[c]), files \in Seq(ReadFiles(Tokens)),
             db \in Seq(Readable) :
           /\ Len(files) = Len(Read(list))
           /\ damaged' = damaged \cup IF \/ Overruns(files) \/ Overruns(db)
                                         \/ \E k \in 1..Len(db) : Overruns(db[k].peers)
                                      THEN {Server} ELSE {}
           /\ registry' \in Seq(Readable)
           /\ Len(registry') = Len(db)
           /\ \A k \in 1..Len(db) : registry'[k].peers = db[k].peers
    BY <1>1, PublishIs
  <2>2. CASE Overruns(files)
    <3>1. list = shares[c]
      BY SentFacts
    <3>2. Len(Published(c)) > Initial
      BY <2>1, <2>2, <3>1 DEF Overruns, Published
    <3>3. CASE ~ Tame
      BY <3>2, <3>3 DEF GrowsLong
    <3>4. CASE Tame
      <4> DEFINE x == Len(Published(c))  y == Len(shares[c])
      <4>1. x <= y
        BY <3>4, PublishedFacts, TameNames DEF PublishedIs
      <4>2. x \in Nat /\ y \in Nat /\ Initial \in Nat
        BY PublishedFacts, ShareListsType, LenProperties, Numbered DEF PublishedIs
      <4>3. x > Initial
        BY <3>2
      <4> HIDE DEF x, y
      <4>4. y > Initial
        BY <4>1, <4>2, <4>3
      <4> QED BY <4>4 DEF GrowsLong, y
    <3> QED BY <3>3, <3>4
  <2>3. CASE Overruns(db)
    <3>1. Len(registry') > Initial
      BY <2>1, <2>3 DEF Overruns
    <3> QED BY <3>1 DEF GrowsLong
  <2>4. CASE \E k \in 1..Len(db) : Overruns(db[k].peers)
    <3>1. PICK k \in 1..Len(db) : Len(db[k].peers) > Initial
      BY <2>4 DEF Overruns
    <3>2. registry'[k] \in ToSet(registry') /\ Len(registry'[k].peers) > Initial
      BY <2>1, <3>1, SetOfSeq
    <3> QED BY <3>2 DEF GrowsLong
  <2> QED BY <2>1, <2>2, <2>3, <2>4
<1>2. ASSUME NEW c \in Clients, Fetch(c) PROVE GrowsLong \/ GrowsLong'
  <2>1. Len(Fetched.list) > Initial
    BY <1>2 DEF Fetch, Overruns
  <2>2. Len(registry) > Initial
    BY <2>1, FetchedLines, Numbered
  <2> QED BY <2>2 DEF GrowsLong
<1> QED BY <1>1, <1>2 DEF Next, PublishOverruns, FetchCrashes, HeapBreaks, vars

\* A list that is longer than a datagram stays so, as long as nothing is damaged.
LEMMA LongStays ==
  ASSUME Typed, [Next]_vars, damaged' = {}, TooLong(registry)
  PROVE  TooLong(registry)'
<1>1. shares' = shares /\ limit' = limit
  BY DEF Next, Publish, PublishOverruns, Fetch, FetchCrashes, HeapBreaks, vars
<1>2. CASE \E c \in Clients : PublishLength(shares[c]) >= limit
  BY <1>1, <1>2 DEF TooLong, PublishLength
<1>3. CASE ListLength(registry) >= limit
  <2>1. CASE registry' = registry
    BY <1>1, <1>3, <2>1 DEF TooLong, ListLength
  <2>2. CASE registry' # registry
    <3>1. PICK c \in Clients : Publish(c)
      BY <2>2 DEF Next, PublishOverruns, Fetch, FetchCrashes, HeapBreaks, vars
    <3> DEFINE db == registry'
    <3>2. db \in Seq(Readable) /\ Grows(registry, db)
      BY <3>1, PublishUndamaged, PublishedFacts, RegistryGrows DEF PublishedIs
    <3>d. db = registry'
      OBVIOUS
    <3> HIDE DEF db
    <3> DEFINE x == ListLength(registry)  y == ListLength(db)
    <3>3. registry \in Seq(Readable) /\ limit \in Limits /\ limit \in Nat
      BY Numbered DEF Typed
    <3>4. LengthIs(registry, x) /\ LengthIs(db, y)
      BY <3>2, <3>3, FetchFacts DEF ListLength
    <3>5. x \in Nat /\ y \in Nat /\ x >= limit
      BY <1>3, <3>2, <3>3, FetchFacts DEF FetchedIs, ListLength
    <3> HIDE DEF x, y
    <3>6. x <= y
      BY <3>2, <3>3, <3>4, LengthGrows
    <3>7. y >= limit
      BY <3>3, <3>5, <3>6
    <3> QED BY <1>1, <3>7, <3>d DEF y, TooLong, ListLength
  <2> QED BY <2>1, <2>2
<1> QED BY <1>2, <1>3 DEF TooLong

LEMMA CrashIsLong ==
  ASSUME Typed, [Next]_vars, damaged = {}, crashed' # crashed
  PROVE  TooLong(registry)
<1>1. limit \in Nat
  BY Numbered
<1>2. ASSUME NEW c \in Clients, PublishOverruns(c) PROVE TooLong(registry)
  <2>1. PICK list \in Held(c \in damaged, shares[c]) : Sent(list).past
    BY <1>2 DEF PublishOverruns
  <2>2. list = shares[c]
    BY SentFacts
  <2>3. PublishLength(shares[c]) > limit /\ PublishLength(shares[c]) \in Nat
    BY <2>1, <2>2, PublishedFacts DEF PublishedIs, PublishLength, Sent
  <2>4. PublishLength(shares[c]) >= limit
    BY <1>1, <2>3
  <2> QED BY <2>4 DEF TooLong
<1>3. ASSUME NEW c \in Clients, FetchCrashes(c) PROVE TooLong(registry)
  <2>1. Reply.len \in Nat /\ Reply.len = ListLength(registry)
    BY FetchedFacts DEF FetchedIs, Reply, ListLength
  <2>2. CASE Reply.past
    <3>1. Reply.len > limit
      BY <2>2, FetchedFacts DEF FetchedIs
    <3>2. ListLength(registry) >= limit
      BY <1>1, <2>1, <3>1
    <3> QED BY <3>2 DEF TooLong
  <2>3. CASE ~ Reply.past
    <3>1. Fetched.null
      BY <1>3, <2>3 DEF FetchCrashes
    <3>2. ~ (Reply.len < limit)
      BY <3>1, FetchedFacts DEF FetchedIs
    <3>3. ListLength(registry) >= limit
      BY <1>1, <2>1, <3>2
    <3> QED BY <3>3 DEF TooLong
  <2> QED BY <2>2, <2>3
<1> QED BY <1>2, <1>3 DEF Next, Publish, Fetch, HeapBreaks, vars

\* Nothing crashes as long as every list fits into its datagram and no vector has
\* to grow, but for what names that are not tame may hold; and nothing is damaged
\* unless a vector has to grow.
THEOREM CrashesNeedLength ==
  Spec => []CrashNeedsLength
<1> DEFINE D == damaged # {} => GrowsLong
           I == D /\ (crashed # {} => GrowsLong \/ TooLong(registry))
<1>1. Init => I
  <2> SUFFICES ASSUME Init PROVE I
    OBVIOUS
  <2>1. ASSUME damaged # {} PROVE GrowsLong
    <3>1. \E c \in Clients : Len(shares[c]) > Initial
      BY <2>1 DEF Init, Overruns
    <3> QED BY <3>1 DEF GrowsLong
  <2> QED BY <2>1 DEF Init
<1>2. Typed /\ I /\ [Next]_vars => I'
  <2> SUFFICES ASSUME Typed, I, [Next]_vars PROVE I'
    OBVIOUS
  <2>1. D'
    <3> SUFFICES ASSUME damaged' # {} PROVE GrowsLong'
      OBVIOUS
    <3>1. CASE GrowsLong
      BY <3>1, GrowsLongStays
    <3>2. CASE ~ GrowsLong
      BY <3>2, DamageIsGrowth
    <3> QED BY <3>1, <3>2
  <2>2. ASSUME crashed' # {} PROVE GrowsLong' \/ TooLong(registry)'
    <3>1. CASE damaged' # {}
      BY <2>1, <3>1
    <3>2. CASE damaged' = {}
      <4>1. damaged \subseteq damaged'
        BY DEF Next, Publish, PublishOverruns, Fetch, FetchCrashes, HeapBreaks, vars
      <4>2. CASE GrowsLong
        BY <4>2, GrowsLongStays
      <4>3. CASE TooLong(registry)
        BY <3>2, <4>3, LongStays
      <4>4. CASE ~ GrowsLong /\ ~ TooLong(registry)
        <5>1. crashed' # crashed /\ damaged = {}
          BY <2>2, <3>2, <4>1, <4>4
        <5> QED BY <4>4, <5>1, CrashIsLong
      <4> QED BY <4>2, <4>3, <4>4
    <3> QED BY <3>1, <3>2
  <2> QED BY <2>1, <2>2
<1>3. I => CrashNeedsLength
  BY DEF CrashNeedsLength, TooLong
<1> HIDE DEF I
<1> QED BY <1>1, <1>2, <1>3, TypedInit, TypedNext, PTL DEF Spec

-----------------------------------------------------------------------------
(* Whose the files are that are listed.                                    *)

HasSource(line)     == \E s \in Shared : ReadAs(line, s[2])
SharesHash(c, hash) == \E f \in ToSet(shares[c]) : f.hash = hash

SourcedLine(line) == /\ HasSource(line)
                     /\ \A p \in ToSet(line.peers) : SharesHash(p, line.hash)

\* The lines of the directory, and of a list that was fetched.
Sourced       == Tame => \A line \in ToSet(registry) : SourcedLine(line)
ListedSourced == Tame => \A line \in ToSet(listing) :
                   /\ HasSource(line)
                   /\ \A p \in ToSet(line.peers) : \A d \in ToSet(p) \cap Clients :
                        SharesHash(d, line.hash)

\* Nothing that was published is missing, but for what did not fit.
Registered == Tame => \A c \in acked : PublishLength(shares[c]) < limit =>
                \A k \in 1..Len(shares[c]) : OnList(shares[c][k].hash, registry)

SourcedLines == {line \in Readable : SourcedLine(line)}

LEMMA SharesHashIs ==
  ASSUME Typed, NEW c \in Clients, NEW k \in 1..Len(shares[c])
  PROVE  SharesHash(c, shares[c][k].hash)
<1>1. DOMAIN shares[c] = 1..Len(shares[c])
  BY ShareListsType DEF Typed
<1> QED BY <1>1 DEF SharesHash, ToSet

LEMMA SourcedAdmits ==
  ASSUME Typed, NEW c \in Clients, NEW f \in ReadFiles(Tokens),
         NEW k \in 1..Len(shares[c]), ReadAs(f, shares[c][k])
  PROVE  Admits(SourcedLines, f, c)
<1> DEFINE s == <<c, shares[c][k]>>
<1>1. s \in Shared /\ s[2] = shares[c][k]
  BY SharedIs
<1>2. SharesHash(c, f.hash)
  BY SharesHashIs DEF ReadAs
<1>3. Admits(Readable, f, c)
  BY ReadableAdmits
<1> HIDE DEF s
<1>4. NewLine(f, c) \in SourcedLines
  <2> DEFINE x == NewLine(f, c)
  <2>1. /\ x \in Readable /\ x.hash = f.hash /\ x.name = f.name /\ x.size = f.size
        /\ ToSet(x.peers) = {c}
    BY <1>3 DEF Admits, NewLine, ToSet
  <2> HIDE DEF x
  <2>2. ReadAs(x, s[2])
    BY <1>1, <2>1 DEF ReadAs
  <2>3. SourcedLine(x)
    BY <1>1, <1>2, <2>1, <2>2 DEF SourcedLine, HasSource
  <2> QED BY <2>1, <2>3 DEF SourcedLines, x
<1>5. ASSUME NEW line \in SourcedLines, line.hash = f.hash, c \notin ToSet(line.peers)
      PROVE  WithHost(line, c) \in SourcedLines
  <2> DEFINE x == WithHost(line, c)
  <2>1. line \in Readable /\ SourcedLine(line)
    BY DEF SourcedLines
  <2>2. /\ x \in Readable /\ x.hash = line.hash /\ x.name = line.name /\ x.size = line.size
        /\ ToSet(x.peers) = ToSet(line.peers) \cup {c}
    BY <1>5, <2>1, WithHostFacts
  <2> HIDE DEF x
  <2>3. HasSource(x)
    BY <2>1, <2>2 DEF SourcedLine, HasSource, ReadAs
  <2>4. \A p \in ToSet(x.peers) : SharesHash(p, x.hash)
    BY <1>2, <1>5, <2>1, <2>2 DEF SourcedLine
  <2> QED BY <2>2, <2>3, <2>4 DEF SourcedLines, SourcedLine, x
<1> QED BY <1>4, <1>5 DEF Admits

LEMMA SourcedStays ==
  ASSUME Typed, Tame, Sourced, NEW c \in Clients
  PROVE  Register(registry, Published(c), c) \in Seq(SourcedLines)
<1> DEFINE files == Published(c)  G == SourcedLines  db == registry
           F == {f \in ReadFiles(Tokens) : \E k \in 1..Len(shares[c]) : ReadAs(f, shares[c][k])}
<1>1. /\ files \in Seq(ReadFiles(Tokens)) /\ Len(files) <= Len(shares[c])
      /\ \A k \in 1..Len(files) : ReadAs(files[k], shares[c][k])
  BY PublishedFacts, TameNames DEF PublishedIs
<1>2. Len(files) \in Nat /\ Len(shares[c]) \in Nat
  BY <1>1, PublishedFacts, ShareListsType, LenProperties
<1> HIDE DEF files
<1>3. files \in Seq(F)
  <2>1. \A k \in 1..Len(files) : files[k] \in F
    <3>1. \A k \in 1..Len(files) : k \in 1..Len(shares[c]) /\ files[k] \in ReadFiles(Tokens)
      BY <1>1, <1>2, ElementOfSeq
    <3> QED BY <1>1, <3>1
  <2>2. files = [k \in 1..Len(files) |-> files[k]]
    BY <1>1, LenProperties
  <2> HIDE DEF F
  <2>3. files \in [1..Len(files) -> F]
    BY <2>1, <2>2
  <2> QED BY <1>2, <2>3, FunctionIsSeq
<1>4. \A f \in F : Admits(G, f, c)
  BY SourcedAdmits
<1>5. db \in Seq(G) /\ G \subseteq Readable
  <2>1. /\ registry \in Seq(Readable) /\ Len(registry) \in Nat
        /\ \A k \in 1..Len(registry) : registry[k] \in Readable /\ registry[k] \in ToSet(registry)
    BY SetOfSeq, ElementOfSeq DEF Typed
  <2>2. \A k \in 1..Len(registry) : registry[k] \in G
    BY <2>1 DEF Sourced, SourcedLines
  <2>3. registry = [k \in 1..Len(registry) |-> registry[k]]
    BY <2>1, LenProperties
  <2>4. registry \in [1..Len(registry) -> G]
    BY <2>2, <2>3
  <2> QED BY <2>1, <2>4, FunctionIsSeq DEF SourcedLines
<1> HIDE DEF F, G, db
<1>6. Register(db, files, c) \in Seq(G)
  BY <1>3, <1>4, <1>5, RegisterKeeps
<1> QED BY <1>6 DEF files, G, db

LEMMA OnListGrows ==
  ASSUME NEW db \in Seq(Readable), NEW e \in Seq(Readable), Grows(db, e),
         NEW hash, OnList(hash, db)
  PROVE  OnList(hash, e)
<1>1. PICK k \in 1..Len(db) : db[k].hash = hash
  BY DEF OnList
<1>2. Len(db) \in Nat /\ Len(e) \in Nat /\ Len(db) <= Len(e) /\ e[k].hash = db[k].hash
  BY <1>1, LenProperties DEF Grows
<1>3. k \in 1..Len(e)
  BY <1>2
<1> QED BY <1>1, <1>2, <1>3 DEF OnList

\* The inductive invariant: whose the files are is known while nothing is damaged.
Inv == Typed /\ (damaged = {} => Sourced /\ ListedSourced /\ Registered)

LEMMA SourceSame ==
  ASSUME UNCHANGED <<shares, limit>>
  PROVE  /\ Tame' = Tame /\ Shared' = Shared
         /\ \A line : HasSource(line)' = HasSource(line)
         /\ \A c, hash : SharesHash(c, hash)' = SharesHash(c, hash)
         /\ \A line : SourcedLine(line)' = SourcedLine(line)
BY DEF Tame, Shared, HasSource, SharesHash, SourcedLine

LEMMA InvInit ==
  Init => Inv
<1> SUFFICES ASSUME Init PROVE Inv
  OBVIOUS
<1>1. ToSet(registry) = {} /\ ToSet(listing) = {} /\ acked = {}
  BY DEF Init, ToSet
<1> QED BY <1>1, TypedInit DEF Inv, Sourced, ListedSourced, Registered

LEMMA PublishInv ==
  ASSUME Inv, NEW c \in Clients, Publish(c), damaged' = {}
  PROVE  Sourced' /\ Registered'
<1>1. /\ shares' = shares /\ limit' = limit /\ acked' = acked \cup {c}
      /\ damaged = {} /\ registry' = Register(registry, Published(c), c)
  BY PublishUndamaged DEF Publish, Inv
<1>2. Typed /\ Sourced /\ Registered
  BY <1>1 DEF Inv
<1> DEFINE db == Register(registry, Published(c), c)
<1>3. ASSUME Tame PROVE \A line \in ToSet(db) : SourcedLine(line)
  <2>1. db \in Seq(SourcedLines)
    BY <1>2, <1>3, SourcedStays
  <2> HIDE DEF db
  <2>2. ToSet(db) \subseteq SourcedLines
    BY <2>1, SetOfSeq
  <2> QED BY <2>2 DEF SourcedLines
<1>4. ASSUME Tame, NEW d \in acked \cup {c}, PublishLength(shares[d]) < limit,
             NEW k \in 1..Len(shares[d])
      PROVE  OnList(shares[d][k].hash, db)
  <2>1. /\ registry \in Seq(Readable) /\ db \in Seq(Readable) /\ Grows(registry, db)
        /\ \A j \in 1..Len(Published(c)) : OnList(Published(c)[j].hash, db)
    BY <1>2, PublishedFacts, RegistryGrows DEF Typed, PublishedIs
  <2> HIDE DEF db
  <2>2. CASE d = c
    <3>1. PublishedIs(shares[c], limit, dm_publish(shares[c], limit), Published(c)) /\ AllTame(shares[c])
      BY <1>2, <1>4, PublishedFacts, TameNames
    <3>2. dm_publish(shares[c], limit).len < limit
      BY <1>4, <2>2 DEF PublishLength
    <3>3. Len(Published(c)) = Len(shares[c])
      BY <3>1, <3>2 DEF PublishedIs
    <3>4. k \in 1..Len(Published(c)) /\ ReadAs(Published(c)[k], shares[c][k])
      BY <1>4, <2>2, <3>1, <3>3 DEF PublishedIs
    <3>5. OnList(Published(c)[k].hash, db)
      BY <2>1, <3>4
    <3> QED BY <2>2, <3>4, <3>5 DEF ReadAs
  <2>3. CASE d # c
    <3>1. OnList(shares[d][k].hash, registry)
      BY <1>2, <1>4, <2>3 DEF Registered
    <3> QED BY <2>1, <3>1, OnListGrows
  <2> QED BY <2>2, <2>3
<1>5. /\ Tame' = Tame
      /\ \A line : SourcedLine(line)' = SourcedLine(line)
  BY <1>1, SourceSame
<1>6. Sourced'
  BY <1>1, <1>3, <1>5 DEF Sourced
<1>7. Registered'
  <2> HIDE DEF db
  <2>1. Tame => \A d \in acked \cup {c} : PublishLength(shares[d]) < limit =>
          \A k \in 1..Len(shares[d]) : OnList(shares[d][k].hash, db)
    BY <1>4
  <2>2. \A x : PublishLength(x)' = PublishLength(x)
    BY <1>1 DEF PublishLength
  <2>3. registry' = db
    BY <1>1 DEF db
  <2> QED BY <1>1, <1>5, <2>1, <2>2, <2>3 DEF Registered, PublishLength
<1> QED BY <1>6, <1>7

LEMMA FetchInv ==
  ASSUME Inv, NEW c \in Clients, Fetch(c), damaged' = {}
  PROVE  ListedSourced'
<1>1. shares' = shares /\ limit' = limit /\ damaged = {} /\ listing' = Fetched.list
  BY FetchIs DEF Fetch, Inv
<1>2. Typed /\ Sourced
  BY <1>1 DEF Inv
<1> DEFINE list == Fetched.list
<1>3. ASSUME Tame, NEW line \in ToSet(list)
      PROVE  /\ HasSource(line)
             /\ \A p \in ToSet(line.peers) : \A d \in ToSet(p) \cap Clients :
                  SharesHash(d, line.hash)
  <2>1. list \in Seq(Lines) /\ Len(list) <= Len(registry) /\ Len(list) \in Nat /\ Len(registry) \in Nat
    BY <1>2, FetchedLines
  <2>2. PICK k \in 1..Len(list) : list[k] = line
    BY <1>3, <2>1, SetOfSeq
  <2> DEFINE f == registry[k]
  <2>3. /\ f \in Readable /\ line.hash = f.hash /\ line.name = f.name /\ line.size = f.size
        /\ line.peers \in {<<>>, <<Hosts(f.peers)>>}
    BY <1>2, <2>2, FetchedLines
  <2>4. SourcedLine(f)
    <3>1. k \in 1..Len(registry)
      BY <2>1, <2>2
    <3>2. f \in ToSet(registry)
      BY <1>2, <3>1, SetOfSeq DEF Typed
    <3> QED BY <1>2, <1>3, <3>2 DEF Sourced
  <2> HIDE DEF f, list
  <2>5. HasSource(line)
    BY <2>3, <2>4 DEF SourcedLine, HasSource, ReadAs
  <2>6. ASSUME NEW p \in ToSet(line.peers), NEW d \in ToSet(p) \cap Clients
        PROVE  SharesHash(d, line.hash)
    <3>1. p = Hosts(f.peers)
      BY <2>3, <2>6 DEF ToSet
    <3>2. f.peers \in Seq(Tokens) /\ f.peers # <<>>
      BY <2>3, ReadableIsReadable DEF IsReadable, IsListed
    <3>3. /\ Hosts(f.peers) \in Seq(Tokens)
          /\ \A i \in 1..Len(Hosts(f.peers)) : Hosts(f.peers)[i] \in ToSet(f.peers) \cup {Semicolon, Blank}
      BY <3>2, TokensAreTokens, HostsFacts
    <3>4. d \in ToSet(f.peers) \cup {Semicolon, Blank}
      BY <2>6, <3>1, <3>3, SetOfSeq
    <3>5. Semicolon \notin Clients /\ Blank \notin Clients
      BY NamesAssumption, SeparatorsDiffer
    <3>6. d \in ToSet(f.peers)
      BY <2>6, <3>4, <3>5
    <3> QED BY <2>3, <2>4, <3>6 DEF SourcedLine
  <2> QED BY <2>5, <2>6
<1>4. /\ Tame' = Tame
      /\ \A line : HasSource(line)' = HasSource(line)
      /\ \A d, hash : SharesHash(d, hash)' = SharesHash(d, hash)
  BY <1>1, SourceSame
<1>5. listing' = list
  BY <1>1
<1> HIDE DEF list
<1> QED BY <1>3, <1>4, <1>5 DEF ListedSourced

LEMMA InvNext ==
  Inv /\ [Next]_vars => Inv'
<1>a. ASSUME Inv, [Next]_vars PROVE Typed'
  BY <1>a, TypedNext DEF Inv
<1> SUFFICES ASSUME Inv, [Next]_vars, damaged' = {}
             PROVE  Sourced' /\ ListedSourced' /\ Registered'
  BY <1>a DEF Inv
<1>0. damaged = {}
  BY DEF Next, Publish, PublishOverruns, Fetch, FetchCrashes, HeapBreaks, vars
<1>1. Typed /\ Sourced /\ ListedSourced /\ Registered
  BY <1>0 DEF Inv
<1>2. shares' = shares /\ limit' = limit
  BY DEF Next, Publish, PublishOverruns, Fetch, FetchCrashes, HeapBreaks, vars
<1>3. /\ Tame' = Tame
      /\ \A line : HasSource(line)' = HasSource(line)
      /\ \A c, hash : SharesHash(c, hash)' = SharesHash(c, hash)
      /\ \A line : SourcedLine(line)' = SourcedLine(line)
      /\ \A db : PublishLength(db)' = PublishLength(db)
  BY <1>2, SourceSame DEF PublishLength
<1>5. CASE UNCHANGED <<registry, acked>>
  <2>1. Sourced' /\ Registered'
    BY <1>1, <1>2, <1>3, <1>5 DEF Sourced, Registered, PublishLength
  <2>2. CASE listing' = listing
    BY <1>1, <1>3, <2>1, <2>2 DEF ListedSourced
  <2>3. CASE listing' # listing
    <3>1. PICK c \in Clients : Fetch(c)
      BY <2>3 DEF Next, Publish, PublishOverruns, FetchCrashes, HeapBreaks, vars
    <3> QED BY <2>1, <3>1, FetchInv
  <2> QED BY <2>2, <2>3
<1>6. CASE ~ UNCHANGED <<registry, acked>>
  <2>1. PICK c \in Clients : Publish(c)
    BY <1>6 DEF Next, PublishOverruns, Fetch, FetchCrashes, HeapBreaks, vars
  <2>2. listing' = listing
    BY <2>1 DEF Publish
  <2>3. ListedSourced'
    BY <1>1, <1>3, <2>2 DEF ListedSourced
  <2> QED BY <2>1, <2>3, PublishInv
<1> QED BY <1>5, <1>6

-----------------------------------------------------------------------------
(* What is listed, and what is found.                                      *)

LEMMA PlainName ==
  ASSUME NEW T, NEW name \in Seq(T), Plain(name)
  PROVE  NameOf(name) = name /\ ~ Has(name, {Semicolon})
<1>1. NameOf(name) = name
  BY DEF Plain, ReadName, NameOf
<1>2. ASSUME Has(name, {Semicolon}) PROVE FALSE
  <2>1. Before(name, {Semicolon}) \in Seq(T) /\ ~ Has(Before(name, {Semicolon}), {Semicolon})
    BY <1>2, BeforeAfterTexts
  <2>2. ~ Has(Strip(Before(name, {Semicolon})), {Semicolon})
    BY <2>1, StripHas
  <2> QED BY <1>1, <1>2, <2>2 DEF NameOf
<1> QED BY <1>1, <1>2

LEMMA SharedType ==
  ASSUME Typed, NEW s \in Shared
  PROVE  s[2].name \in Seq(Tokens) /\ s[2].hash \in HashTexts
<1>1. PICK c \in Clients : \E k \in 1..Len(shares[c]) : s[2] = shares[c][k]
  BY SharedIs
<1>2. PICK k \in 1..Len(shares[c]) : s[2] = shares[c][k]
  BY <1>1
<1>3. IsShared(shares[c][k], Tokens) /\ shares[c][k].hash \in HashTexts
  BY ShareListsType DEF Typed
<1> QED BY <1>2, <1>3 DEF IsShared

\* As long as no vector has grown and the names are tame, every line that a client
\* reads has the hash of a file that somebody shares, is under that file's name and
\* has its size if the name is plain, and names only hosts that share a file of the
\* hash.
THEOREM ListedAreShared ==
  Spec => []ListedIsShared
<1>1. Inv => ListedIsShared
  <2> SUFFICES ASSUME Inv, Undamaged, Tame, NEW line \in ToSet(listing)
               PROVE  /\ \E s \in Shared :
                           /\ s[2].hash = line.hash
                           /\ Plain(s[2].name) => s[2].name = line.name /\ s[2].size = line.size
                      /\ \A p \in ToSet(line.peers) : \A d \in ToSet(p) \cap Clients :
                           \E f \in ToSet(shares[d]) : f.hash = line.hash
    BY DEF ListedIsShared
  <2>1. /\ HasSource(line)
        /\ \A p \in ToSet(line.peers) : \A d \in ToSet(p) \cap Clients : SharesHash(d, line.hash)
    BY DEF Inv, ListedSourced, Undamaged
  <2>2. PICK s \in Shared : ReadAs(line, s[2])
    BY <2>1 DEF HasSource
  <2>3. s[2].name \in Seq(Tokens)
    BY SharedType DEF Inv
  <2>4. Plain(s[2].name) => NameOf(s[2].name) = s[2].name /\ ~ Has(s[2].name, {Semicolon})
    BY <2>3, PlainName
  <2> QED BY <2>1, <2>2, <2>4 DEF ReadAs, SharesHash
<1> QED BY <1>1, InvInit, InvNext, PTL DEF Spec

LEMMA FirstOf ==
  ASSUME NEW list, NEW n \in Nat, NEW M, M \subseteq 1..n, M # {}
  PROVE  \E k \in M : First(list, M) = <<list[k]>>
<1>1. PICK k \in M : \A j \in M : k <= j
  <2>1. M \subseteq Nat
    OBVIOUS
  <2> QED BY <2>1, LeastElement
<1>2. Min(M) \in M
  BY <1>1 DEF Min
<1> QED BY <1>2 DEF First

\* A hash is one word.
LEMMA HashWord ==
  ASSUME NEW hash \in HashTexts
  PROVE  Word(hash) = hash
<1>1. PICK h \in Hashes : hash = One(h)
  BY DEF HashTexts, One
<1>2. h \in Words /\ h \in Tokens /\ Blank \in Tokens /\ h # Blank
  BY HashesAssumption, WordsAssumption, TokensAreTokens, SeparatorsDiffer
<1>3. One(h) \in Seq(Tokens) /\ One(h)[1] = h /\ ~ Has(One(h), {Blank})
  <2>1. One(h) \in Seq(Tokens)
    BY <1>2, CatTuples
  <2>2. One(h)[1] = h
    BY DEF One
  <2>3. ~ Has(One(h), {Blank})
    BY <1>2, TupleHas
  <2> QED BY <2>1, <2>2, <2>3
<1>4. Strip(One(h)) = One(h)
  BY <1>2, <1>3, StripNothing
<1> QED BY <1>1, <1>3, <1>4 DEF Word

\* What is found in the list that is fetched, by hash and by name.
LEMMA FoundBy ==
  ASSUME Typed, ListLength(registry) < limit
  PROVE  /\ \A hash \in HashTexts : OnList(hash, registry) =>
              \E k \in 1..Len(registry) : /\ registry[k].hash = hash
                                          /\ Found(Fetched.list, hash) # <<>>
                                          /\ Found(Fetched.list, hash)[1].hash = registry[k].hash
         /\ \A name : /\ Word(name) = name /\ name \notin HashTexts
                      /\ \E k \in 1..Len(registry) : registry[k].name = name
              => \E k \in 1..Len(registry) : /\ registry[k].name = name
                                             /\ Found(Fetched.list, name) # <<>>
                                             /\ Found(Fetched.list, name)[1].hash = registry[k].hash
<1> DEFINE list == Fetched.list  n == Len(registry)
<1>1. /\ list \in Seq(Lines) /\ n \in Nat
      /\ \A k \in 1..Len(list) : list[k].hash = registry[k].hash /\ list[k].name = registry[k].name
  BY FetchedLines
<1>2. Len(list) = n
  BY FetchedFacts DEF FetchedIs, ListLength, Reply
<1>3. DOMAIN list = 1..n
  BY <1>1, <1>2, LenProperties
<1> HIDE DEF list, n
<1>4. \A k \in 1..n : list[k].hash = registry[k].hash /\ list[k].name = registry[k].name
  BY <1>1, <1>2
<1>5. ASSUME NEW hash \in HashTexts, OnList(hash, registry)
      PROVE  \E k \in 1..n : /\ registry[k].hash = hash /\ Found(list, hash) # <<>>
                             /\ Found(list, hash)[1].hash = registry[k].hash
  <2> DEFINE M == WithHash(list, hash)
  <2>1. M = {k \in 1..n : registry[k].hash = hash}
    BY <1>3, <1>4 DEF WithHash
  <2>2. M \subseteq 1..n /\ M # {}
    BY <1>5, <2>1 DEF OnList, n
  <2>3. Found(list, hash) = First(list, M)
    BY <1>5, HashWord DEF Found
  <2> HIDE DEF M
  <2>4. PICK k \in M : First(list, M) = <<list[k]>>
    BY <1>1, <2>2, FirstOf
  <2>5. Found(list, hash) # <<>> /\ Found(list, hash)[1] = list[k]
    BY <2>3, <2>4
  <2> QED BY <1>4, <2>1, <2>5
<1>6. ASSUME NEW name, Word(name) = name, name \notin HashTexts,
             \E k \in 1..n : registry[k].name = name
      PROVE  \E k \in 1..n : /\ registry[k].name = name /\ Found(list, name) # <<>>
                             /\ Found(list, name)[1].hash = registry[k].hash
  <2> DEFINE M == WithName(list, name)
  <2>1. M = {k \in 1..n : registry[k].name = name}
    BY <1>3, <1>4 DEF WithName
  <2>2. M \subseteq 1..n /\ M # {}
    BY <1>6, <2>1
  <2>3. Found(list, name) = First(list, M)
    BY <1>6 DEF Found
  <2> HIDE DEF M
  <2>4. PICK k \in M : First(list, M) = <<list[k]>>
    BY <1>1, <2>2, FirstOf
  <2>5. Found(list, name) # <<>> /\ Found(list, name)[1] = list[k]
    BY <2>3, <2>4
  <2> QED BY <1>4, <2>1, <2>5
<1> QED BY <1>5, <1>6 DEF list, n

LEMMA InvFindable ==
  ASSUME Inv
  PROVE  Findable
<1> SUFFICES ASSUME Undamaged, Tame, ListLength(registry) < limit, NEW s \in Shared,
                    s[1] \in acked, PublishLength(shares[s[1]]) < limit
             PROVE  LET f           == s[2]
                        unique      == \A t \in Shared : ReadName(t[2].name) = f.name <=> t[2].hash = f.hash
                        Gets(text)  == LET file == Found(Fetched.list, text)
                                       IN  file # <<>> /\ file[1].hash = f.hash
                    IN  /\ Gets(f.hash)
                        /\ Plain(f.name) /\ Word(f.name) = f.name /\ f.name \notin HashTexts /\ unique
                             => Gets(f.name)
  BY DEF Findable
<1> DEFINE f == s[2]
           Gets(text) == LET file == Found(Fetched.list, text) IN file # <<>> /\ file[1].hash = f.hash
<1>1. Typed /\ Sourced /\ Registered
  BY DEF Inv, Undamaged
<1>2. f.hash \in HashTexts /\ f.name \in Seq(Tokens)
  BY <1>1, SharedType
<1>3. OnList(f.hash, registry)
  <2>1. PICK c \in Clients : \E k \in 1..Len(shares[c]) : s[1] = c /\ s[2] = shares[c][k]
    BY <1>1, SharedIs
  <2>2. PICK k \in 1..Len(shares[c]) : s[1] = c /\ s[2] = shares[c][k]
    BY <2>1
  <2>3. OnList(shares[c][k].hash, registry)
    BY <1>1, <2>2 DEF Registered
  <2> QED BY <2>2, <2>3
<1>4. \A k \in 1..Len(registry) : HasSource(registry[k])
  <2>1. \A k \in 1..Len(registry) : registry[k] \in ToSet(registry)
    BY <1>1, SetOfSeq DEF Typed
  <2> QED BY <1>1, <2>1 DEF Sourced, SourcedLine
<1> HIDE DEF f
<1>5. Gets(f.hash)
  <2>1. PICK k \in 1..Len(registry) : /\ registry[k].hash = f.hash
                                      /\ Found(Fetched.list, f.hash) # <<>>
                                      /\ Found(Fetched.list, f.hash)[1].hash = registry[k].hash
    BY <1>1, <1>2, <1>3, FoundBy
  <2> QED BY <2>1
<1>6. ASSUME Plain(f.name), Word(f.name) = f.name, f.name \notin HashTexts,
             \A t \in Shared : ReadName(t[2].name) = f.name <=> t[2].hash = f.hash
      PROVE  Gets(f.name)
  <2>1. ASSUME NEW k \in 1..Len(registry)
        PROVE  registry[k].name = f.name <=> registry[k].hash = f.hash
    <3>1. PICK t \in Shared : ReadAs(registry[k], t[2])
      BY <1>4 DEF HasSource
    <3>2. registry[k].hash = t[2].hash /\ registry[k].name = ReadName(t[2].name)
      BY <3>1 DEF ReadAs, NameOf, ReadName
    <3> QED BY <1>6, <3>2
  <2>2. \E k \in 1..Len(registry) : registry[k].name = f.name
    BY <1>3, <2>1 DEF OnList
  <2>3. PICK k \in 1..Len(registry) : /\ registry[k].name = f.name
                                      /\ Found(Fetched.list, f.name) # <<>>
                                      /\ Found(Fetched.list, f.name)[1].hash = registry[k].hash
    BY <1>1, <1>6, <2>2, FoundBy
  <2> QED BY <2>1, <2>3
<1> QED BY <1>5, <1>6 DEF f

\* As long as no vector has grown, the names are tame and the lists fit, a file that
\* was published is found by its hash, and by its name if that is plain, one word,
\* unlike a hash and nobody else's.
THEOREM PublishedAreFound ==
  Spec => []Findable
<1>1. Inv => Findable
  BY InvFindable
<1> QED BY <1>1, InvInit, InvNext, PTL DEF Spec
=============================================================================
