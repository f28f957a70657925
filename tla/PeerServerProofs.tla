--------------------------- MODULE PeerServerProofs ---------------------------
(***************************************************************************)
(* Proofs about module PeerServer, for any clients, files, requests and    *)
(* descriptors.                                                            *)
(*                                                                         *)
(* A thread of client_loop keeps what it is doing in its pc, reqd_file and *)
(* read_bytes, and the rest in buffers it shares.  So the invariant has a  *)
(* part that holds whatever the other threads do (Waits), a part about     *)
(* what a buffer holds while this thread was the last to write it (Sees),  *)
(* and a part about a server that has had one request at a time (Alone).   *)
(***************************************************************************)
EXTENDS PeerServer, FiniteSetTheorems, SequenceTheorems, TLAPS

Unit   == {<<>>} \cup (Files \X Nat)
Opcodes == {"none", "accepted", "badfilereq", "badchunkreq", "chunk", "chunkreq"}
Thinks == {"switch", "find", "accepted", "badfilereq", "badchunkreq", "send", "nofile",
           "sendfirst", "read", "check", "chunk"}
Pieces == {"header", "seek"}
Labels == {"none", "new", "recv"} \cup Thinks \cup Pieces

Typed ==
  /\ turn \in [Clients -> Nat] /\ req \in [Clients -> Seq(Request)]
  /\ DOMAIN reply = Clients /\ pc \in [Clients -> Labels]
  /\ recv_buff \in [msg : Request, by : Clients \cup {Main}]
  /\ msg_buff \in [op : Opcodes, offset : 0..Past, size : 0..Past, by : Clients \cup {Main}]
  /\ data \in [units : [1..MaxSize -> Unit], by : Clients \cup {Main}]
  /\ test_mode_tcp \in BOOLEAN /\ crashed \in BOOLEAN /\ met \in BOOLEAN
  /\ main \in {"run", "testing", "freed", "exit"} /\ (main = "testing" => test_mode_tcp)

\* A request is under way or being answered, and has no reply.
Unanswered(c) == turn[c] \in 1..Len(Wants[c]) /\ reply[c] = <<>>
Serving(c) == pc[c] \in Thinks \/ (pc[c] \in Pieces /\ reqd_file[c] # NoFile)

\* Where a client and its thread are, whatever is in the buffers.
Waits(c) ==
  /\ reply[c] = <<>> \/ reply[c] = <<reply[c][1]>>
  /\ req[c] = <<>> \/ (req[c] = <<Asked(c)>> /\ Unanswered(c))
  /\ Serving(c) => req[c] = <<>> /\ Unanswered(c)
  /\ pc[c] \in {"none", "new"} => reply[c] = <<>> /\ turn[c] <= 1 /\ (turn[c] > 0 => req[c] # <<>>)
  /\ link[c] \in {"closed", "backlog"} => pc[c] = "none"
  /\ pc[c] = "recv" /\ turn[c] > 0 /\ req[c] = <<>> => reply[c] # <<>> \/ reqd_file[c] = NoFile
  /\ pc[c] \in {"nofile", "sendfirst"} => reqd_file[c] = NoFile
  /\ pc[c] \in {"accepted", "read", "check", "chunk", "badchunkreq"} => reqd_file[c] # NoFile

Fits(r, f) == r.offset + r.size <= FileSize[f]

\* What a thread knows of its request while nothing has come into recv_buff since.
SeesRequest(c) ==
  LET r == recv_buff.msg
      f == reqd_file[c]
  IN  /\ Serving(c) => r = Asked(c)
      /\ pc[c] \in {"find", "accepted", "badfilereq"} => r.op = "filereq"
      /\ pc[c] = "accepted" /\ main # "freed" => r.file # NoFile
      /\ pc[c] = "badfilereq" /\ main # "freed" => r.file = NoFile
      /\ pc[c] \in Pieces \cup {"nofile", "sendfirst", "read", "check", "chunk", "badchunkreq"}
           => r.op = "chunkreq"
      /\ pc[c] = "read" => pos[c] = r.offset
      /\ pc[c] = "check" => (read_bytes[c] = r.size <=> Fits(r, f))
      /\ pc[c] = "chunk" => read_bytes[c] = r.size /\ Fits(r, f)
      /\ pc[c] = "badchunkreq" \/ (pc[c] = "send" /\ r.op = "chunkreq") => ~ Fits(r, f) /\ f # NoFile

\* What it has put in msg_buff while nobody else has.
SeesMessage(c) ==
  LET r == recv_buff.msg
  IN  /\ pc[c] = "send" /\ main # "freed" =>
           msg_buff.op = IF r.op = "chunkreq" THEN "badchunkreq"
                         ELSE IF r.file = NoFile THEN "badfilereq" ELSE "accepted"
      /\ pc[c] = "sendfirst" => msg_buff.op = "badchunkreq"
      /\ pc[c] \in {"seek", "read", "check", "chunk"} =>
           msg_buff.op = "chunk" /\ msg_buff.offset = r.offset /\ msg_buff.size = r.size

SeesData(c) ==
  pc[c] \in {"check", "chunk"} =>
    \A k \in 1..MaxSize : k <= read_bytes[c] =>
      data.units[k] = <<reqd_file[c], recv_buff.msg.offset + k>>

Sees(c) == recv_buff.by = c => /\ SeesRequest(c)
                               /\ msg_buff.by = c => SeesMessage(c)
                               /\ data.by = c => SeesData(c)

ServerInv == TypeOK /\ Typed /\ \A c \in Clients : Waits(c) /\ Sees(c)

-----------------------------------------------------------------------------
\* A client asks for a file before it asks for pieces.
FileFirst == \A c \in Clients : Wants[c] # <<>> => Wants[c][1].op = "filereq"

Idle(c) == pc[c] \in {"none", "new", "recv"}

\* A thread that has had no company has a file open once a piece is asked for.
AloneAt(c) ==
  /\ ~ Idle(c) => recv_buff.by = c /\ \A d \in Clients : d # c => Idle(d)
  /\ pc[c] \notin {"nofile", "sendfirst"}
  /\ pc[c] \in Pieces => reqd_file[c] # NoFile
  /\ req[c] # <<>> \/ pc[c] \in Thinks => turn[c] = 1 \/ reqd_file[c] # NoFile
  /\ pc[c] = "recv" /\ reply[c] # <<>> => reqd_file[c] # NoFile \/ ~ GoesOn(reply[c][1])
  /\ pc[c] = "send" => reqd_file[c] # NoFile \/ msg_buff.op \in {"badfilereq", "chunkreq"}

Alone == ~ met => \A c \in Clients : AloneAt(c)

-----------------------------------------------------------------------------
(* Types.                                                                  *)

LEMMA PastBounds == /\ Past \in Nat /\ MaxSize \in Nat /\ 1 <= MaxSize /\ MaxSize <= Past
                    /\ \A f \in Files : FileSize[f] \in Nat /\ FileSize[f] < Past
<1>1. FileSize \in [Files -> 0..(Past - 1)] /\ MaxSize \in 1..Past
  BY SizesAssumption
<1>2. Past \in Nat /\ \A n \in 0..(Past - 1) : n \in Nat /\ n < Past
  BY DEF Past
<1> QED BY <1>1, <1>2

LEMMA RequestFields ==
  \A r \in Request : /\ r.op \in {"filereq", "chunkreq"} /\ r.file \in Files \cup {NoFile}
                     /\ r.offset \in 0..Past /\ r.size \in 1..Past
                     /\ r.op = "chunkreq" => r.size <= MaxSize
<1>1. ASSUME NEW f \in Files \cup {NoFile}
      PROVE  LET r == FileReq(f)
             IN  /\ r.op = "filereq" /\ r.file \in Files \cup {NoFile}
                 /\ r.offset \in 0..Past /\ r.size \in 1..Past
  BY DEF FileReq, Past
<1>2. ASSUME NEW o \in 0..Past, NEW n \in 1..MaxSize
      PROVE  LET r == ChunkReq(o, n)
             IN  /\ r.op = "chunkreq" /\ r.file = NoFile /\ r.offset = o /\ r.size = n
  BY DEF ChunkReq
<1>3. \A n \in 1..MaxSize : n \in 1..Past /\ n <= MaxSize
  BY PastBounds
<1> QED BY <1>1, <1>2, <1>3 DEF Request

LEMMA RequestsExist == /\ \A f \in Files \cup {NoFile} : FileReq(f) \in Request
                       /\ \A c \in Clients : \A n \in 1..Len(Wants[c]) : Wants[c][n] \in Request
                       /\ \A c \in Clients : Len(Wants[c]) \in Nat /\ Wants[c] \in Seq(Request)
<1>1. \A c \in Clients : Wants[c] \in Seq(Request)
  BY WantsAssumption
<1>2. \A s \in Seq(Request) : Len(s) \in Nat /\ \A n \in 1..Len(s) : s[n] \in Request
  BY ElementOfSeq, LenProperties
<1>3. \A f \in Files \cup {NoFile} : FileReq(f) \in Request
  BY DEF Request
<1> HIDE DEF Request
<1> QED BY <1>1, <1>2, <1>3

\* What Min and Max of two numbers are.
LEMMA LesserOfTwo == \A m, n \in Nat : Min({m, n}) = IF m <= n THEN m ELSE n
<1> TAKE m, n \in Nat
<1> DEFINE l == IF m <= n THEN m ELSE n
<1>1. l \in {m, n} /\ \A y \in {m, n} : l <= y
  OBVIOUS
<1>2. \A x \in {m, n} : (\A y \in {m, n} : x <= y) => x = l
  OBVIOUS
<1> HIDE DEF l
<1>3. Min({m, n}) = l
  BY <1>1, <1>2 DEF Min
<1> QED BY <1>3 DEF l

LEMMA GreaterOfTwo == \A m, n \in Int : Max({m, n}) = IF m <= n THEN n ELSE m
<1> TAKE m, n \in Int
<1> DEFINE l == IF m <= n THEN n ELSE m
<1>1. l \in {m, n} /\ \A y \in {m, n} : y <= l
  OBVIOUS
<1>2. \A x \in {m, n} : (\A y \in {m, n} : y <= x) => x = l
  OBVIOUS
<1> HIDE DEF l
<1>3. Max({m, n}) = l
  BY <1>1, <1>2 DEF Max
<1> QED BY <1>3 DEF l

\* The units fread returns: those there are of the ones asked for.
LEMMA UnitsRead ==
  ASSUME NEW s \in Nat, NEW p \in Nat, NEW z \in Nat
  PROVE  LET n == Min({s, Max({z - p, 0})})
         IN  /\ n \in Nat /\ n <= s /\ n <= z
             /\ \A k \in Nat : k <= n /\ k # 0 => p + k <= z
             /\ (n = s) <=> (p + s <= z \/ s = 0)
<1>1. z - p \in Int /\ 0 \in Int
  OBVIOUS
<1> DEFINE x == Max({z - p, 0})
<1>2. x = IF z - p <= 0 THEN 0 ELSE z - p
  BY <1>1, GreaterOfTwo
<1>3. x \in Nat
  BY <1>2
<1> HIDE DEF x
<1> DEFINE n == Min({s, x})
<1>4. n = IF s <= x THEN s ELSE x
  BY <1>3, LesserOfTwo
<1> HIDE DEF n
<1>5. n \in Nat /\ n <= s /\ n <= x /\ (n = s <=> s <= x)
  BY <1>3, <1>4
<1>6. n <= z /\ (s <= x <=> p + s <= z \/ s = 0)
  BY <1>2, <1>3, <1>5
<1>7. \A k \in Nat : k <= n /\ k # 0 => p + k <= z
  BY <1>2, <1>3, <1>5
<1> QED BY <1>5, <1>6, <1>7 DEF n, x

\* A descriptor is taken only when one is left.
LEMMA DescriptorLeft ==
  ASSUME TypeOK, FdsUsed < FdLimit
  PROVE  files_open + 1 \in 0..FdLimit
<1>1. IsFiniteSet(Connected)
  BY NamesAssumption, FS_Subset DEF Connected
<1>2. Cardinality(Connected) \in Nat
  BY <1>1, FS_CardinalityType
<1> DEFINE n == Cardinality(Connected)
<1> HIDE DEF n
<1>3. n \in Nat /\ files_open \in 0..FdLimit /\ n + files_open < FdLimit /\ FdLimit \in Nat
  BY <1>2, SizesAssumption DEF n, TypeOK, FdsUsed
<1> QED BY <1>3

LEMMA InitTypes == Init => TypeOK /\ Typed
<1> SUFFICES ASSUME Init PROVE TypeOK /\ Typed
  OBVIOUS
<1>1. FileReq(NoFile) \in Request
  BY RequestsExist
<1>2. FdLimit \in Nat /\ 0 \in 0..Past /\ 0 \in 0..FdLimit
  BY SizesAssumption DEF Past
<1>3. TypeOK
  <2>1. \A c \in Clients : turn[c] \in 0..Len(Wants[c]) /\ Len(req[c]) <= 1
    BY RequestsExist DEF Init
  <2> QED BY <1>1, <1>2, <2>1 DEF Init, TypeOK
<1>4. Typed
  <2>1. data \in [units : [1..MaxSize -> Unit], by : Clients \cup {Main}]
    BY DEF Init, Unit
  <2>2. msg_buff \in [op : Opcodes, offset : 0..Past, size : 0..Past, by : Clients \cup {Main}]
    BY <1>2 DEF Init, Opcodes
  <2>3. recv_buff \in [msg : Request, by : Clients \cup {Main}]
    BY <1>1 DEF Init
  <2>4. req \in [Clients -> Seq(Request)] /\ turn \in [Clients -> Nat] /\ pc \in [Clients -> Labels]
    BY DEF Init, Labels
  <2> QED BY <2>1, <2>2, <2>3, <2>4 DEF Init, Typed
<1> QED BY <1>3, <1>4

\* The steps of the clients.
LEMMA ClientTypes ==
  ASSUME TypeOK, Typed, NEW c \in Clients, Connect(c) \/ Ask(c) \/ Leave(c)
  PROVE  TypeOK' /\ Typed'
<1>1. CASE Connect(c)
  <2>1. TypeOK'
    BY <1>1 DEF Connect, TypeOK, localVars, buffVars, procVars, modeVars
  <2>2. Typed'
    BY <1>1 DEF Connect, Typed, localVars, buffVars, procVars, modeVars
  <2> QED BY <2>1, <2>2
<1>2. CASE Ask(c)
  <2> DEFINE r == Wants[c][turn[c] + 1]
  <2>1. turn[c] + 1 \in 1..Len(Wants[c]) /\ turn[c] \in Nat /\ r \in Request
    <3>1. turn[c] \in 0..Len(Wants[c]) /\ turn[c] < Len(Wants[c])
      BY <1>2 DEF Ask, TypeOK
    <3>2. Len(Wants[c]) \in Nat /\ \A n \in 1..Len(Wants[c]) : Wants[c][n] \in Request
      BY RequestsExist
    <3>3. turn[c] + 1 \in 1..Len(Wants[c]) /\ turn[c] \in Nat
      BY <3>1, <3>2
    <3> HIDE DEF Request
    <3> QED BY <3>2, <3>3
  <2> HIDE DEF r
  <2>2. <<r>> \in Seq(Request) /\ Len(<<r>>) <= 1
    <3> HIDE DEF Request
    <3> QED BY <2>1
  <2>3. /\ turn' = [turn EXCEPT ![c] = @ + 1] /\ req' = [req EXCEPT ![c] = <<r>>]
        /\ reply' = [reply EXCEPT ![c] = <<>>]
        /\ UNCHANGED <<link, localVars, buffVars, procVars, met>>
    BY <1>2 DEF Ask, r
  <2>4. \A d \in Clients : turn'[d] \in 0..Len(Wants[d]) /\ Len(req'[d]) <= 1
    <3>1. /\ turn \in [Clients -> Nat] /\ DOMAIN req = Clients
          /\ \A d \in Clients : turn[d] \in 0..Len(Wants[d]) /\ Len(req[d]) <= 1
      BY DEF TypeOK, Typed
    <3>2. \A d \in Clients : turn'[d] \in 0..Len(Wants[d])
      <4>1. turn[c] + 1 \in 0..Len(Wants[c])
        BY <2>1, RequestsExist
      <4> QED BY <2>3, <3>1, <4>1
    <3>3. \A d \in Clients : Len(req'[d]) <= 1
      BY <2>2, <2>3, <3>1
    <3> QED BY <3>2, <3>3
  <2>5. turn' \in [Clients -> Nat] /\ req' \in [Clients -> Seq(Request)] /\ DOMAIN reply' = Clients
    <3>1. turn \in [Clients -> Nat] /\ req \in [Clients -> Seq(Request)] /\ DOMAIN reply = Clients
      BY DEF Typed
    <3>2. turn[c] + 1 \in Nat
      BY <2>1
    <3> HIDE DEF Request
    <3> QED BY <2>2, <2>3, <3>1, <3>2
  <2>6. TypeOK'
    BY <2>3, <2>4, <2>5 DEF TypeOK, localVars, buffVars, procVars, modeVars
  <2>7. Typed'
    BY <2>3, <2>4, <2>5 DEF Typed, localVars, buffVars, procVars, modeVars
  <2> QED BY <2>6, <2>7
<1>3. CASE Leave(c)
  <2>1. link' \in [Clients -> {"closed", "backlog", "up", "fin"}]
    BY <1>3 DEF Leave, TypeOK
  <2>2. UNCHANGED <<turn, req, reply, localVars, buffVars, procVars, met>>
    BY <1>3 DEF Leave
  <2>3. TypeOK'
    BY <2>1, <2>2 DEF TypeOK, localVars, buffVars, procVars, modeVars
  <2>4. Typed'
    BY <2>2 DEF Typed, localVars, buffVars, procVars, modeVars
  <2> QED BY <2>3, <2>4
<1> QED BY <1>1, <1>2, <1>3

LEMMA SameTypes == TypeOK /\ Typed /\ UNCHANGED vars => TypeOK' /\ Typed'
<1>1. TypeOK /\ UNCHANGED vars => TypeOK'
  BY DEF TypeOK, vars, clientVars, localVars, buffVars, modeVars, procVars
<1>2. Typed /\ UNCHANGED vars => Typed'
  BY DEF Typed, vars, clientVars, localVars, buffVars, modeVars, procVars
<1> QED BY <1>1, <1>2

\* The steps of the main and accept threads.
LEMMA MainTypes ==
  ASSUME TypeOK, Typed,
         \/ StartServer \/ TestServer \/ StartFails \/ BuildRequest \/ Quit \/ Terminated
         \/ EnterAccept \/ AcceptFails
         \/ \E c \in Clients : Accept(c) \/ HandOver(c)
  PROVE  TypeOK' /\ Typed'
<1>1. CASE StartServer
  BY <1>1 DEF StartServer, TypeOK, Typed, clientVars, localVars, buffVars
<1>2. CASE TestServer
  BY <1>2 DEF TestServer, TypeOK, Typed, clientVars, localVars, buffVars, modeVars
<1>3. CASE StartFails
  <2>1. files_open' \in 0..FdLimit
    BY <1>3, DescriptorLeft DEF StartFails, TypeOK
  <2> QED BY <1>3, <2>1 DEF StartFails, TypeOK, Typed, clientVars, localVars, buffVars, modeVars
<1>4. CASE BuildRequest
  <2>1. MaxSize \in 0..Past /\ 0 \in 0..Past
    BY PastBounds
  <2> QED BY <1>4, <2>1 DEF BuildRequest, TypeOK, Typed, Opcodes, clientVars, localVars, procVars, modeVars
<1>5. CASE Quit
  BY <1>5 DEF Quit, TypeOK, Typed, clientVars, localVars, buffVars, modeVars
<1>6. CASE Terminated
  <2>1. UNCHANGED vars
    BY <1>6 DEF Terminated
  <2> QED BY <2>1, SameTypes
<1>7. CASE EnterAccept \/ AcceptFails
  <2>1. /\ accept_thread' \in {accept_thread, "cancelled", "waiting", "failing"}
        /\ crashed' \in {crashed, TRUE}
        /\ UNCHANGED <<clientVars, localVars, buffVars, test_mode_tcp, nfs, files_open, main, met>>
    BY <1>7 DEF EnterAccept, AcceptFails
  <2>2. TypeOK'
    BY <2>1 DEF TypeOK, clientVars, localVars, buffVars
  <2>3. Typed'
    BY <2>1 DEF Typed, clientVars, localVars, buffVars
  <2> QED BY <2>2, <2>3
<1>8. ASSUME NEW c \in Clients, Accept(c) \/ HandOver(c) PROVE TypeOK' /\ Typed'
  <2>1. /\ link' = link \/ link' = [link EXCEPT ![c] = "up"]
        /\ pc' = pc \/ \E l \in {"new", "recv"} : pc' = [pc EXCEPT ![c] = l]
        /\ accept_thread' \in {accept_thread, "handing", "entering", "waiting"}
        /\ crashed' \in {crashed, TRUE}
        /\ UNCHANGED <<turn, req, reply, reqd_file, pos, read_bytes, buffVars, test_mode_tcp,
                       nfs, files_open, main, met>>
    BY <1>8 DEF Accept, HandOver, clientVars
  <2>2. TypeOK'
    BY <2>1 DEF TypeOK, buffVars
  <2>3. Typed'
    BY <2>1 DEF Typed, Labels, buffVars
  <2> QED BY <2>2, <2>3
<1> QED BY <1>1, <1>2, <1>3, <1>4, <1>5, <1>6, <1>7, <1>8

LEMMA CloseTypes ==
  ASSUME TypeOK, Typed, EndLoop \/ Exit \/ Tested
  PROVE  TypeOK' /\ Typed'
<1>1. \A d \in Clients : 0 \in 0..Len(Wants[d]) /\ Len(<<>>) <= 1 /\ 0 \in Nat /\ <<>> \in Seq(Request)
  BY RequestsExist
<1>2. ASSUME CloseServer
      PROVE  /\ nfs' = "closed" /\ link' \in [Clients -> {"closed", "backlog", "up", "fin"}]
             /\ \A d \in Clients : turn'[d] \in 0..Len(Wants[d]) /\ Len(req'[d]) <= 1
             /\ turn' \in [Clients -> Nat] /\ req' \in [Clients -> Seq(Request)]
             /\ DOMAIN reply' = Clients
  BY <1>1, <1>2 DEF CloseServer, TypeOK, Typed
<1>3. CASE EndLoop
  <2>1. /\ DOMAIN reply' = Clients /\ link' \in [Clients -> {"closed", "backlog", "up", "fin"}]
        /\ \A d \in Clients : turn'[d] \in 0..Len(Wants[d]) /\ Len(req'[d]) <= 1
        /\ turn' \in [Clients -> Nat] /\ req' \in [Clients -> Seq(Request)]
        /\ nfs' \in {"null", "open", "closed"}
    BY <1>2, <1>3 DEF EndLoop, TypeOK, Typed, clientVars
  <2>2. UNCHANGED <<localVars, buffVars, test_mode_tcp, files_open, main, met>>
        /\ crashed' \in BOOLEAN /\ accept_thread' \in {accept_thread, "cancelled", "ended"}
    BY <1>3 DEF EndLoop, Typed
  <2>3. TypeOK'
    BY <2>1, <2>2 DEF TypeOK, localVars, buffVars
  <2>4. Typed'
    BY <2>1, <2>2 DEF Typed, localVars, buffVars
  <2> QED BY <2>3, <2>4
<1>4. CASE Tested
  <2>1. files_open' \in 0..FdLimit
    BY <1>4, DescriptorLeft DEF Tested, TypeOK
  <2> QED BY <1>2, <1>4, <2>1 DEF Tested, TypeOK, Typed, localVars, buffVars, modeVars
<1>5. CASE Exit
  <2>1. 0 \in 0..Past /\ 0 \in 0..FdLimit
    BY SizesAssumption, PastBounds
  <2>2. /\ \A d \in Clients : turn'[d] \in 0..Len(Wants[d]) /\ Len(req'[d]) <= 1
        /\ turn' \in [Clients -> Nat] /\ req' \in [Clients -> Seq(Request)]
        /\ DOMAIN reply' = Clients /\ pc' \in [Clients -> Labels]
    BY <1>1, <1>5 DEF Exit, Labels
  <2> QED BY <1>5, <2>1, <2>2 DEF Exit, TypeOK, Typed, buffVars, modeVars
<1> QED BY <1>3, <1>4, <1>5

\* The steps of client_loop.  That the units read are the file's takes that a file
\* is open by then.
LEMMA ThreadTypes ==
  ASSUME TypeOK, Typed, NEW c \in Clients, Waits(c), Thread(c)
  PROVE  TypeOK' /\ Typed'
<1> DEFINE r == recv_buff.msg
<1>1. /\ r \in Request /\ r.file \in Files \cup {NoFile}
      /\ r.offset \in 0..Past /\ r.size \in 0..Past /\ r.size \in Nat
  <2>1. r \in Request
    BY DEF TypeOK
  <2>2. \A n \in 1..Past : n \in 0..Past /\ n \in Nat
    BY PastBounds
  <2> HIDE DEF r
  <2> QED BY <2>1, <2>2, RequestFields
<1> USE DEF Labels, Thinks, Pieces
<1>2. CASE Recv(c)
  <2>1. Head(req[c]) \in Request /\ <<>> \in Seq(Request) /\ Len(<<>>) <= 1
    <3>1. req[c] \in Seq(Request) /\ req[c] # <<>>
      BY <1>2 DEF Recv, Typed
    <3> QED BY <3>1, HeadTailProperties
  <2> DEFINE b == [msg |-> Head(req[c]), by |-> c]
  <2>2. b \in [msg : Request, by : Clients \cup {Main}] /\ b.msg \in Request /\ b.by \in Clients
    BY <2>1
  <2>3. met' \in BOOLEAN
    BY <1>2 DEF Recv
  <2>4. /\ recv_buff' = b /\ req' = [req EXCEPT ![c] = <<>>] /\ pc' = [pc EXCEPT ![c] = "switch"]
        /\ UNCHANGED <<link, turn, reply, reqd_file, pos, read_bytes, msg_buff, data, procVars>>
    BY <1>2 DEF Recv, Goto
  <2> HIDE DEF b
  <2>5. TypeOK'
    BY <2>1, <2>2, <2>4 DEF TypeOK, Typed, procVars, modeVars
  <2>6. Typed'
    BY <2>1, <2>2, <2>3, <2>4 DEF Typed, procVars, modeVars
  <2> QED BY <2>5, <2>6
<1>3. CASE RecvEnd(c)
  <2>1. 0 \in 0..Len(Wants[c]) /\ 0 \in Nat
    BY RequestsExist
  <2>2. TypeOK'
    BY <1>3, <2>1 DEF RecvEnd, Goto, TypeOK, Typed, buffVars, procVars, modeVars
  <2>3. Typed'
    BY <1>3, <2>1 DEF RecvEnd, Goto, Typed, buffVars, procVars, modeVars
  <2> QED BY <2>2, <2>3
<1>4. CASE Switch(c)
  <2>1. pc' \in [Clients -> Labels]
    BY <1>4 DEF Switch, Goto, Typed
  <2>2. UNCHANGED <<clientVars, reqd_file, pos, read_bytes, buffVars, procVars, met>>
    BY <1>4 DEF Switch
  <2>3. TypeOK'
    BY <2>1, <2>2 DEF TypeOK, clientVars, buffVars, procVars, modeVars
  <2>4. Typed'
    BY <2>1, <2>2 DEF Typed, clientVars, buffVars, procVars, modeVars
  <2> QED BY <2>3, <2>4
<1>5. CASE Find(c)
  <2>0. /\ pc' = pc \/ \E l \in {"badfilereq", "accepted", "recv"} : Goto(c, l)
        /\ reqd_file' = reqd_file \/ \E f \in Files \cup {NoFile} :
                                      reqd_file' = [reqd_file EXCEPT ![c] = f]
    BY <1>1, <1>5 DEF Find
  <2>1. pc' \in [Clients -> Labels] /\ reqd_file' \in [Clients -> Files \cup {NoFile}]
    <3>1. pc' \in [Clients -> Labels]
      BY <2>0 DEF Goto, Typed
    <3>2. reqd_file' \in [Clients -> Files \cup {NoFile}]
      BY <2>0 DEF TypeOK
    <3> QED BY <3>1, <3>2
  <2>2. files_open' \in 0..FdLimit /\ crashed' \in BOOLEAN
    BY <1>5, DescriptorLeft DEF Find, Typed, TypeOK
  <2>3. UNCHANGED <<clientVars, pos, read_bytes, buffVars, modeVars, nfs, main, met>>
    BY <1>5 DEF Find
  <2>4. TypeOK'
    BY <2>1, <2>2, <2>3 DEF TypeOK, clientVars, buffVars, modeVars
  <2>5. Typed'
    BY <2>1, <2>2, <2>3 DEF Typed, clientVars, buffVars, modeVars
  <2> QED BY <2>4, <2>5
<1>6. CASE Opcode(c)
  <2>1. PICK op \in {"accepted", "badfilereq", "badchunkreq"} :
          msg_buff' = [msg_buff EXCEPT !.op = op, !.by = c]
    BY <1>6 DEF Opcode
  <2>2. msg_buff' \in [op : Opcodes, offset : 0..Past, size : 0..Past, by : Clients \cup {Main}]
    BY <2>1 DEF Typed, Opcodes
  <2>3. pc' \in [Clients -> Labels]
    BY <1>6 DEF Opcode, Goto, Typed
  <2>4. UNCHANGED <<clientVars, reqd_file, pos, read_bytes, recv_buff, data, procVars, met>>
    BY <1>6 DEF Opcode
  <2>5. TypeOK'
    BY <2>2, <2>3, <2>4 DEF TypeOK, clientVars, procVars, modeVars
  <2>6. Typed'
    BY <2>2, <2>3, <2>4 DEF Typed, clientVars, procVars, modeVars
  <2> QED BY <2>5, <2>6
<1>7. CASE SendOpcode(c)
  <2>1. pc' \in [Clients -> Labels] /\ DOMAIN reply' = Clients
    BY <1>7 DEF SendOpcode, Goto, Typed
  <2>2. UNCHANGED <<link, turn, req, reqd_file, pos, read_bytes, buffVars, procVars, met>>
    BY <1>7 DEF SendOpcode
  <2>3. TypeOK'
    BY <2>1, <2>2 DEF TypeOK, buffVars, procVars, modeVars
  <2>4. Typed'
    BY <2>1, <2>2 DEF Typed, buffVars, procVars, modeVars
  <2> QED BY <2>3, <2>4
<1>8. CASE ChunkHeader(c)
  <2>1. msg_buff' \in [op : Opcodes, offset : 0..Past, size : 0..Past, by : Clients \cup {Main}]
    BY <1>1, <1>8 DEF ChunkHeader, Opcodes
  <2>2. pc' \in [Clients -> Labels]
    BY <1>8 DEF ChunkHeader, Goto, Typed
  <2>3. UNCHANGED <<clientVars, reqd_file, pos, read_bytes, recv_buff, data, procVars, met>>
    BY <1>8 DEF ChunkHeader
  <2>4. TypeOK'
    BY <2>1, <2>2, <2>3 DEF TypeOK, clientVars, procVars, modeVars
  <2>5. Typed'
    BY <2>1, <2>2, <2>3 DEF Typed, clientVars, procVars, modeVars
  <2> QED BY <2>4, <2>5
<1>9. CASE Seek(c)
  <2>1. pc' \in [Clients -> Labels] /\ pos' \in [Clients -> 0..Past] /\ crashed' \in BOOLEAN
    BY <1>1, <1>9 DEF Seek, Goto, Typed, TypeOK
  <2>2. UNCHANGED <<clientVars, reqd_file, read_bytes, buffVars, modeVars, nfs, files_open, main, met>>
    BY <1>9 DEF Seek
  <2>3. TypeOK'
    BY <2>1, <2>2 DEF TypeOK, clientVars, buffVars, modeVars
  <2>4. Typed'
    BY <2>1, <2>2 DEF Typed, clientVars, buffVars, modeVars
  <2> QED BY <2>3, <2>4
<1>10. CASE Read(c)
  <2> DEFINE f == reqd_file[c]  n == Min({r.size, Max({FileSize[f] - pos[c], 0})})
             u == [k \in 1..MaxSize |-> IF k <= n THEN <<f, pos[c] + k>> ELSE data.units[k]]
  <2>1. f \in Files /\ FileSize[f] \in Nat /\ FileSize[f] < Past /\ pos[c] \in Nat
    BY <1>10, PastBounds DEF Read, At, Waits, TypeOK
  <2>2. /\ read_bytes' = [read_bytes EXCEPT ![c] = n] /\ pos' = [pos EXCEPT ![c] = 0]
        /\ data' = [units |-> u, by |-> c] /\ pc' = [pc EXCEPT ![c] = "check"]
        /\ UNCHANGED crashed \/ crashed' = TRUE
        /\ UNCHANGED <<clientVars, reqd_file, recv_buff, msg_buff, modeVars, nfs, files_open,
                       main, met>>
    BY <1>10 DEF Read, Goto
  <2> HIDE DEF f
  <2>3. n \in Nat /\ n <= FileSize[f] /\ \A k \in Nat : k <= n /\ k # 0 => pos[c] + k <= FileSize[f]
    BY <1>1, <2>1, UnitsRead
  <2> HIDE DEF n
  <2>4. n \in 0..Past /\ 0 \in 0..Past
    BY <2>1, <2>3, PastBounds
  <2>5. \A k \in 1..MaxSize : /\ u[k] \in Unit
                              /\ u[k] = <<>> \/ (u[k][1] \in Files /\ u[k][2] \in 1..FileSize[u[k][1]])
    <3> SUFFICES ASSUME NEW k \in 1..MaxSize
                 PROVE  /\ u[k] \in Unit
                        /\ u[k] = <<>> \/ (u[k][1] \in Files /\ u[k][2] \in 1..FileSize[u[k][1]])
      OBVIOUS
    <3>1. k \in Nat /\ k # 0
      BY PastBounds
    <3>2. CASE k <= n
      <4>1. pos[c] + k \in 1..FileSize[f] /\ pos[c] + k \in Nat
        BY <2>1, <2>3, <3>1, <3>2
      <4>2. u[k] = <<f, pos[c] + k>>
        BY <3>2
      <4> QED BY <2>1, <4>1, <4>2 DEF Unit
    <3>3. CASE ~ (k <= n)
      <4>1. u[k] = data.units[k]
        BY <3>3
      <4>2. data.units[k] \in Unit
        BY DEF Typed
      <4> QED BY <4>1, <4>2 DEF TypeOK
    <3> QED BY <3>2, <3>3
  <2>6. u \in [1..MaxSize -> Unit]
    BY <2>5
  <2> HIDE DEF u
  <2>7. data' \in [units : [1..MaxSize -> Unit], by : Clients \cup {Main}] /\ data'.units = u
    BY <2>2, <2>6
  <2>8. TypeOK'
    BY <2>2, <2>4, <2>5, <2>7 DEF TypeOK, clientVars, modeVars
  <2>9. Typed'
    BY <2>2, <2>7 DEF Typed, clientVars, modeVars
  <2> QED BY <2>8, <2>9
<1>11. CASE Check(c)
  <2>1. pc' \in [Clients -> Labels] /\ read_bytes' \in [Clients -> 0..Past]
    <3>1. 0 \in 0..Past
      BY PastBounds
    <3>2. pc' = [pc EXCEPT ![c] = "chunk"] \/ pc' = [pc EXCEPT ![c] = "badchunkreq"]
      BY <1>11 DEF Check, Goto
    <3>3. read_bytes' = read_bytes \/ read_bytes' = [read_bytes EXCEPT ![c] = 0]
      BY <1>11 DEF Check
    <3>4. pc' \in [Clients -> Labels]
      BY <3>2 DEF Typed
    <3>5. read_bytes' \in [Clients -> 0..Past]
      BY <3>1, <3>3 DEF TypeOK
    <3> QED BY <3>4, <3>5
  <2>2. UNCHANGED <<clientVars, reqd_file, pos, buffVars, procVars, met>>
    BY <1>11 DEF Check
  <2>3. TypeOK'
    BY <2>1, <2>2 DEF TypeOK, clientVars, buffVars, procVars, modeVars
  <2>4. Typed'
    BY <2>1, <2>2 DEF Typed, clientVars, buffVars, procVars, modeVars
  <2> QED BY <2>3, <2>4
<1>12. CASE SendChunk(c)
  <2>1. /\ pc' \in [Clients -> Labels] /\ DOMAIN reply' = Clients
        /\ read_bytes' \in [Clients -> 0..Past]
    <3>1. 0 \in 0..Past
      BY PastBounds
    <3>2. /\ pc' = [pc EXCEPT ![c] = "recv"] /\ read_bytes' = [read_bytes EXCEPT ![c] = 0]
          /\ DOMAIN reply' = DOMAIN reply
      BY <1>12 DEF SendChunk, Goto
    <3> QED BY <3>1, <3>2 DEF Typed, TypeOK
  <2>2. UNCHANGED <<link, turn, req, reqd_file, pos, buffVars, procVars, met>>
    BY <1>12 DEF SendChunk
  <2>3. TypeOK'
    BY <2>1, <2>2 DEF TypeOK, buffVars, procVars, modeVars
  <2>4. Typed'
    BY <2>1, <2>2 DEF Typed, buffVars, procVars, modeVars
  <2> QED BY <2>3, <2>4
<1> QED BY <1>2, <1>3, <1>4, <1>5, <1>6, <1>7, <1>8, <1>9, <1>10, <1>11, <1>12 DEF Thread

-----------------------------------------------------------------------------
(* The invariant.                                                          *)

\* Nothing of c and its thread changes, and the buffers only by somebody else's hand.
Same(c) == /\ link'[c] = link[c] /\ turn'[c] = turn[c] /\ req'[c] = req[c]
           /\ reply'[c] = reply[c] /\ pc'[c] = pc[c] /\ reqd_file'[c] = reqd_file[c]
           /\ pos'[c] = pos[c] /\ read_bytes'[c] = read_bytes[c]
Spared(c) == /\ main = "freed" => main' = "freed"
             /\ recv_buff' = recv_buff \/ recv_buff'.by # c
             /\ msg_buff' = msg_buff \/ msg_buff'.by # c
             /\ data' = data \/ data'.by # c

LEMMA SameWaits == \A c \in Clients : Same(c) /\ Waits(c) => Waits(c)'
BY DEF Same, Waits, Serving, Unanswered, Asked

LEMMA SameSees == \A c \in Clients : Same(c) /\ Spared(c) /\ Sees(c) => Sees(c)'
<1> SUFFICES ASSUME NEW c \in Clients, Same(c), Spared(c), Sees(c), recv_buff'.by = c
             PROVE  /\ SeesRequest(c)' /\ (msg_buff'.by = c => SeesMessage(c)')
                    /\ (data'.by = c => SeesData(c)')
  BY DEF Sees
<1>1. recv_buff' = recv_buff /\ recv_buff.by = c
  BY DEF Spared
<1>2. SeesRequest(c)'
  BY <1>1 DEF Sees, Same, Spared, SeesRequest, Serving, Asked, Fits
<1>3. msg_buff'.by = c => SeesMessage(c)'
  BY <1>1 DEF Sees, Same, Spared, SeesMessage
<1>4. data'.by = c => SeesData(c)'
  BY <1>1 DEF Sees, Same, Spared, SeesData
<1> QED BY <1>2, <1>3, <1>4

\* Another client and its thread, and the main thread, leave c alone.
LEMMA OthersSpare ==
  ASSUME TypeOK, Typed, NEW c \in Clients, NEW d \in Clients, d # c,
         Connect(d) \/ Ask(d) \/ Leave(d) \/ Accept(d) \/ HandOver(d) \/ Thread(d)
  PROVE  Same(c) /\ Spared(c)
<1>m. main' = main
  BY DEF Connect, Ask, Leave, Accept, HandOver, Thread, Recv, RecvEnd, Switch, Find, Opcode,
     SendOpcode, ChunkHeader, Seek, Read, Check, SendChunk, procVars
<1> USE <1>m DEF Same, Spared
<1>1. CASE Connect(d)
  BY <1>1 DEF Connect, TypeOK, localVars, buffVars
<1>2. CASE Ask(d)
  BY <1>2 DEF Ask, Typed, localVars, buffVars
<1>3. CASE Leave(d)
  BY <1>3 DEF Leave, TypeOK, localVars, buffVars
<1>4. CASE Accept(d) \/ HandOver(d)
  BY <1>4 DEF Accept, HandOver, TypeOK, Typed, clientVars, buffVars
<1>5. CASE Recv(d)
  BY <1>5 DEF Recv, Goto, TypeOK, Typed
<1>6. CASE RecvEnd(d)
  BY <1>6 DEF RecvEnd, Goto, TypeOK, Typed, buffVars
<1>7. CASE Switch(d)
  BY <1>7 DEF Switch, Goto, Typed, clientVars, buffVars
<1>8. CASE Find(d)
  BY <1>8 DEF Find, Goto, Typed, TypeOK, clientVars, buffVars
<1>9. CASE Opcode(d)
  BY <1>9 DEF Opcode, Goto, Typed, clientVars
<1>10. CASE SendOpcode(d)
  BY <1>10 DEF SendOpcode, Goto, Typed, buffVars
<1>11. CASE ChunkHeader(d)
  BY <1>11 DEF ChunkHeader, Goto, Typed, clientVars
<1>12. CASE Seek(d)
  BY <1>12 DEF Seek, Goto, Typed, TypeOK, clientVars, buffVars
<1>13. CASE Read(d)
  <2>1. /\ recv_buff' = recv_buff /\ msg_buff' = msg_buff /\ data'.by = d
        /\ pc' = [pc EXCEPT ![d] = "check"] /\ pos' = [pos EXCEPT ![d] = 0]
        /\ read_bytes' = [read_bytes EXCEPT ![d] = read_bytes'[d]]
        /\ UNCHANGED <<clientVars, reqd_file>>
    <3>1. \A n : read_bytes' = [read_bytes EXCEPT ![d] = n] => read_bytes'[d] = n
      BY DEF TypeOK
    <3> QED BY <1>13, <3>1 DEF Read, Goto
  <2> QED BY <2>1 DEF Typed, TypeOK, clientVars
<1>14. CASE Check(d)
  BY <1>14 DEF Check, Goto, Typed, TypeOK, clientVars, buffVars
<1>15. CASE SendChunk(d)
  BY <1>15 DEF SendChunk, Goto, Typed, TypeOK, buffVars
<1> QED BY <1>1, <1>2, <1>3, <1>4, <1>5, <1>6, <1>7, <1>8, <1>9, <1>10, <1>11, <1>12, <1>13,
           <1>14, <1>15 DEF Thread

LEMMA MainSpares ==
  ASSUME NEW c \in Clients,
         \/ StartServer \/ TestServer \/ StartFails \/ BuildRequest \/ Quit \/ Terminated
         \/ EnterAccept \/ AcceptFails \/ UNCHANGED vars
  PROVE  Same(c) /\ Spared(c)
BY NamesAssumption DEF StartServer, TestServer, StartFails, BuildRequest, Quit, Terminated, Same,
   EnterAccept, AcceptFails, procVars, modeVars,
   Spared, vars, clientVars, localVars, buffVars

\* Closing the socket or the process puts a client where it began.
LEMMA ClosingKeeps ==
  ASSUME TypeOK, Typed, NEW c \in Clients, Waits(c), Sees(c),
         EndLoop \/ Exit \/ Tested
  PROVE  Waits(c)' /\ Sees(c)'
<1>1. ASSUME CloseServer, UNCHANGED <<localVars, buffVars>>, main = "freed" => main' = "freed"
      PROVE  Waits(c)' /\ Sees(c)'
  <2>1. CASE link[c] = "backlog"
    <3>1. pc[c] = "none" /\ pc' = pc
      BY <1>1, <2>1 DEF Waits, localVars
    <3>2. link'[c] = "closed" /\ turn'[c] = 0 /\ req'[c] = <<>> /\ reply'[c] = <<>>
      BY <1>1, <2>1 DEF CloseServer
    <3>3. Waits(c)'
      BY <3>1, <3>2 DEF Waits, Serving, Thinks, Pieces
    <3>4. Sees(c)'
      BY <3>1 DEF Sees, SeesRequest, SeesMessage, SeesData, Serving, Thinks, Pieces
    <3> QED BY <3>3, <3>4
  <2>2. CASE link[c] # "backlog"
    <3>1. Same(c) /\ Spared(c)
      BY <1>1, <2>2 DEF CloseServer, localVars, buffVars, Same, Spared
    <3> QED BY <3>1, SameWaits, SameSees
  <2> QED BY <2>1, <2>2
<1>2. CASE Exit
  <2>1. /\ pc'[c] = "none" /\ link'[c] = "closed" /\ turn'[c] = 0 /\ req'[c] = <<>>
        /\ reply'[c] = <<>>
    BY <1>2 DEF Exit
  <2>2. Waits(c)'
    BY <2>1 DEF Waits, Serving, Thinks, Pieces
  <2>3. Sees(c)'
    BY <2>1 DEF Sees, SeesRequest, SeesMessage, SeesData, Serving, Thinks, Pieces
  <2> QED BY <2>2, <2>3
<1>3. ASSUME UNCHANGED <<clientVars, localVars, buffVars, main>>
      PROVE  Waits(c)' /\ Sees(c)'
  <2>1. Same(c) /\ Spared(c)
    BY <1>3 DEF clientVars, localVars, buffVars, Same, Spared
  <2> QED BY <2>1, SameWaits, SameSees
<1> QED BY <1>1, <1>2, <1>3 DEF EndLoop, Tested

\* The steps of a client and its own thread keep what holds whatever the buffers hold.
LEMMA OwnWaits ==
  ASSUME TypeOK, Typed, NEW c \in Clients, Waits(c),
         Connect(c) \/ Ask(c) \/ Leave(c) \/ Accept(c) \/ HandOver(c) \/ Thread(c)
  PROVE  Waits(c)'
<1> USE DEF Waits, Serving, Unanswered, Asked, Thinks, Pieces
<1>0. /\ turn[c] \in 0..Len(Wants[c]) /\ turn[c] \in Nat /\ Len(Wants[c]) \in Nat
      /\ reply[c] = <<>> \/ reply[c] = <<reply[c][1]>>
  BY RequestsExist DEF TypeOK, Typed
<1>1. CASE Connect(c)
  BY <1>1 DEF Connect, TypeOK, localVars
<1>2. CASE Ask(c)
  <2>1. reply[c] = <<>> => turn[c] = 0
    BY <1>2 DEF Ask
  <2>2. /\ turn'[c] = turn[c] + 1 /\ req'[c] = <<Wants[c][turn[c] + 1]>> /\ reply'[c] = <<>>
        /\ turn[c] + 1 \in 1..Len(Wants[c])
    BY <1>0, <1>2 DEF Ask, Typed
  <2>3. UNCHANGED <<link, pc, reqd_file, pos, read_bytes>>
    BY <1>2 DEF Ask, localVars
  <2>4. ~ Serving(c)
    BY <1>0, <2>1
  <2>5. req'[c] = <<Wants[c][turn'[c]]>> /\ turn'[c] \in 1..Len(Wants[c]) /\ req'[c] # <<>>
    BY <2>2
  <2>6. pc[c] \in {"none", "new"} => turn'[c] <= 1
    BY <1>0, <2>1, <2>2
  <2> QED BY <2>2, <2>3, <2>4, <2>5, <2>6
<1>3. CASE Leave(c)
  BY <1>3 DEF Leave, TypeOK, localVars
<1>4. CASE Accept(c) \/ HandOver(c)
  BY <1>4 DEF Accept, HandOver, TypeOK, Typed, clientVars
<1>5. CASE Recv(c)
  BY <1>5 DEF Recv, At, Goto, Typed
<1>6. CASE RecvEnd(c)
  BY <1>6 DEF RecvEnd, At, Goto, TypeOK, Typed
<1>7. CASE Switch(c)
  BY <1>7 DEF Switch, At, Goto, Typed, clientVars
<1>8. CASE Find(c)
  <2>1. /\ pc[c] = "find" /\ UNCHANGED clientVars
        /\ \/ pc'[c] = "badfilereq" /\ reqd_file'[c] = reqd_file[c]
           \/ pc'[c] = "accepted" /\ reqd_file'[c] # NoFile
           \/ pc'[c] = "recv" /\ reqd_file'[c] = NoFile
           \/ pc'[c] = pc[c] /\ reqd_file'[c] = reqd_file[c]
    BY <1>8 DEF Find, At, Goto, Typed, TypeOK
  <2> QED BY <2>1 DEF clientVars
<1>9. CASE Opcode(c)
  BY <1>9 DEF Opcode, At, Goto, Typed, clientVars
<1>10. CASE SendOpcode(c)
  <2>1. reply[c] = <<>> /\ turn[c] > 0 /\ req[c] = <<>>
    BY <1>0, <1>10 DEF SendOpcode, At
  <2> DEFINE m == [op |-> msg_buff.op, offset |-> 0, size |-> 0, data |-> <<>>]
  <2>2. reply'[c] = Append(<<>>, m)
    BY <1>10, <2>1 DEF SendOpcode, Typed
  <2> HIDE DEF m
  <2>3. reply'[c] = <<m>>
    BY <2>2
  <2>4. reply'[c] = <<reply'[c][1]>> /\ reply'[c] # <<>>
    BY <2>3
  <2> QED BY <1>10, <2>1, <2>4 DEF SendOpcode, At, Goto, Typed
<1>11. CASE ChunkHeader(c)
  BY <1>11 DEF ChunkHeader, At, Goto, Typed, clientVars
<1>12. CASE Seek(c)
  BY <1>12 DEF Seek, At, Goto, Typed, TypeOK, clientVars
<1>13. CASE Read(c)
  <2>1. /\ pc[c] = "read" /\ pc'[c] = "check" /\ UNCHANGED <<clientVars, reqd_file>>
    BY <1>13 DEF Read, At, Goto, Typed
  <2> QED BY <2>1 DEF clientVars
<1>14. CASE Check(c)
  BY <1>14 DEF Check, At, Goto, Typed, clientVars
<1>15. CASE SendChunk(c)
  <2>1. reply[c] = <<>> /\ turn[c] > 0 /\ req[c] = <<>>
    BY <1>0, <1>15 DEF SendChunk, At
  <2> DEFINE m == [op |-> msg_buff.op, offset |-> msg_buff.offset, size |-> msg_buff.size,
                   data |-> SubSeq(data.units, 1, Min({read_bytes[c], MaxSize}))]
  <2>2. reply'[c] = Append(<<>>, m)
    BY <1>15, <2>1 DEF SendChunk, Typed
  <2> HIDE DEF m
  <2>3. reply'[c] = <<m>>
    BY <2>2
  <2>4. reply'[c] = <<reply'[c][1]>> /\ reply'[c] # <<>>
    BY <2>3
  <2>5. pc'[c] = "recv" /\ UNCHANGED <<link, turn, req, reqd_file>>
    BY <1>15 DEF SendChunk, Goto, Typed
  <2> QED BY <2>1, <2>4, <2>5
<1> QED BY <1>1, <1>2, <1>3, <1>4, <1>5, <1>6, <1>7, <1>8, <1>9, <1>10, <1>11, <1>12, <1>13,
           <1>14, <1>15 DEF Thread

\* And what the thread knows of the buffers it was the last to write.
LEMMA OwnSees ==
  ASSUME TypeOK, Typed, NEW c \in Clients, Waits(c), Sees(c),
         Connect(c) \/ Ask(c) \/ Leave(c) \/ Accept(c) \/ HandOver(c) \/ Thread(c)
  PROVE  Sees(c)'
<1> DEFINE r == recv_buff.msg
<1>0. /\ r \in Request /\ r.op \in {"filereq", "chunkreq"} /\ r.size \in Nat /\ r.offset \in Nat
      /\ r.size # 0
  <2>1. r \in Request
    BY DEF TypeOK
  <2>2. \A n \in 1..Past : n \in Nat /\ n # 0
    BY PastBounds
  <2>3. \A n \in 0..Past : n \in Nat
    BY PastBounds
  <2> HIDE DEF r
  <2> QED BY <2>1, <2>2, <2>3, RequestFields
<1> HIDE DEF r
<1>m. main' = main
  BY DEF Connect, Ask, Leave, Accept, HandOver, Thread, Recv, RecvEnd, Switch, Find, Opcode,
     SendOpcode, ChunkHeader, Seek, Read, Check, SendChunk, procVars
<1> USE <1>m DEF Thinks, Pieces
<1>1. CASE Connect(c)
  BY <1>1 DEF Connect, localVars, buffVars, Sees, SeesRequest, SeesMessage, SeesData, Serving, Asked, Fits
<1>2. CASE Ask(c)
  <2>1. ~ Serving(c)
    BY <1>2, RequestsExist DEF Ask, Waits, Unanswered
  <2>2. UNCHANGED <<localVars, buffVars>>
    BY <1>2 DEF Ask
  <2> QED BY <2>1, <2>2 DEF localVars, buffVars, Sees, SeesRequest, SeesMessage, SeesData, Serving, Fits
<1>3. CASE Leave(c)
  BY <1>3 DEF Leave, localVars, buffVars, Sees, SeesRequest, SeesMessage, SeesData, Serving, Asked, Fits
<1>4. ASSUME pc'[c] \in {"none", "new", "recv"} PROVE Sees(c)'
  BY <1>4 DEF Sees, SeesRequest, SeesMessage, SeesData, Serving
<1>5. CASE Recv(c)
  <2>1. pc'[c] = "switch" /\ recv_buff'.msg = Asked(c) /\ turn' = turn
    BY <1>5, HeadTailProperties DEF Recv, At, Goto, Typed, Waits
  <2> QED BY <2>1 DEF Sees, SeesRequest, SeesMessage, SeesData, Serving, Asked
<1>6. ASSUME UNCHANGED <<clientVars, buffVars>>, recv_buff.by = c => SeesRequest(c)',
             pc'[c] \notin {"check", "chunk", "send", "sendfirst", "seek", "read"}
      PROVE  Sees(c)'
  BY <1>6 DEF Sees, SeesMessage, SeesData, buffVars
<1>7. CASE Switch(c)
  <2>1. /\ pc[c] = "switch" /\ UNCHANGED <<clientVars, reqd_file, pos, read_bytes, buffVars>>
        /\ \/ pc'[c] = "find" /\ r.op = "filereq"
           \/ pc'[c] = "nofile" /\ r.op # "filereq"
           \/ pc'[c] = "header" /\ r.op # "filereq"
    BY <1>7 DEF Switch, At, Goto, Typed, r
  <2>2. SeesRequest(c) => r = Asked(c)
    BY <2>1 DEF SeesRequest, Serving, r
  <2>3. turn' = turn /\ recv_buff' = recv_buff
    BY <2>1 DEF clientVars, buffVars
  <2>4. SeesRequest(c) => SeesRequest(c)'
    BY <1>0, <2>1, <2>2, <2>3 DEF SeesRequest, Asked, r
  <2> QED BY <1>6, <2>1, <2>4 DEF Sees
<1>8. CASE Find(c)
  <2>1. /\ pc[c] = "find" /\ UNCHANGED <<clientVars, buffVars>>
        /\ \/ pc'[c] = "badfilereq" /\ (main = "freed" \/ r.file = NoFile)
           \/ pc'[c] = "accepted" /\ (main = "freed" \/ r.file # NoFile)
           \/ pc'[c] = "recv"
           \/ pc'[c] = pc[c]
    BY <1>8 DEF Find, At, Goto, Typed, TypeOK, r
  <2>2. SeesRequest(c) => SeesRequest(c)'
    BY <2>1 DEF clientVars, buffVars, SeesRequest, Serving, Asked, r
  <2> QED BY <1>6, <2>1, <2>2 DEF Sees
<1>9. CASE Opcode(c)
  <2>1. /\ UNCHANGED <<clientVars, reqd_file, pos, read_bytes, recv_buff, data>>
        /\ \/ pc[c] \in {"accepted", "badfilereq", "badchunkreq"} /\ msg_buff'.op = pc[c] /\ pc'[c] = "send"
           \/ pc[c] = "nofile" /\ msg_buff'.op = "badchunkreq" /\ pc'[c] = "sendfirst"
    BY <1>9 DEF Opcode, At, Goto, Typed
  <2>2. SeesRequest(c) => SeesRequest(c)' /\ SeesMessage(c)'
    BY <1>0, <2>1 DEF Waits, clientVars, SeesRequest, SeesMessage, Serving, Asked, Fits, r
  <2> QED BY <2>1, <2>2 DEF Sees, SeesData
<1>10. CASE SendOpcode(c)
  <2>1. CASE pc[c] = "send"
    BY <1>4, <1>10, <2>1 DEF SendOpcode, At, Goto, Typed
  <2>2. CASE pc[c] = "sendfirst"
    <3>1. /\ pc'[c] = "header" /\ reqd_file'[c] = NoFile /\ recv_buff' = recv_buff
      BY <1>10, <2>2 DEF SendOpcode, At, Goto, Typed, Waits, buffVars
    <3> QED BY <2>2, <3>1 DEF Sees, SeesRequest, SeesMessage, SeesData, Serving
  <2> QED BY <1>10, <2>1, <2>2 DEF SendOpcode, At
<1>11. CASE ChunkHeader(c)
  <2>1. /\ UNCHANGED <<clientVars, reqd_file, pos, read_bytes, recv_buff, data>>
        /\ pc[c] = "header" /\ pc'[c] = "seek"
        /\ msg_buff'.op = "chunk" /\ msg_buff'.offset = r.offset /\ msg_buff'.size = r.size
    BY <1>11 DEF ChunkHeader, At, Goto, Typed, r
  <2>2. SeesRequest(c) => SeesRequest(c)' /\ SeesMessage(c)'
    BY <2>1 DEF clientVars, SeesRequest, SeesMessage, Serving, Asked, r
  <2> QED BY <2>1, <2>2 DEF Sees, SeesData
<1>12. CASE Seek(c)
  <2>1. /\ UNCHANGED <<clientVars, reqd_file, read_bytes, buffVars>> /\ pc[c] = "seek"
        /\ \/ pc'[c] = "seek" /\ pos' = pos
           \/ pc'[c] = "read" /\ pos'[c] = r.offset /\ reqd_file[c] # NoFile
           \/ pc'[c] = "badchunkreq" /\ r.offset = Past /\ reqd_file[c] # NoFile
    BY <1>12 DEF Seek, At, Goto, Typed, TypeOK, r
  <2>2. CASE pc'[c] = "badchunkreq"
    <3>1. reqd_file[c] \in Files /\ r.offset = Past
      BY <2>1, <2>2 DEF TypeOK
    <3>2. ~ (r.offset + r.size <= FileSize[reqd_file[c]])
      BY <1>0, <3>1, PastBounds
    <3> QED BY <2>1, <2>2, <3>1, <3>2 DEF clientVars, buffVars, Sees, SeesRequest, SeesMessage,
               SeesData, Serving, Asked, Fits, r
  <2>3. CASE pc'[c] # "badchunkreq"
    BY <2>1, <2>3 DEF clientVars, buffVars, Sees, SeesRequest, SeesMessage, SeesData, Serving,
       Asked, r
  <2> QED BY <2>2, <2>3
<1>13. CASE Read(c)
  <2> DEFINE f == reqd_file[c]  n == Min({r.size, Max({FileSize[f] - pos[c], 0})})
             u == [k \in 1..MaxSize |-> IF k <= n THEN <<f, pos[c] + k>> ELSE data.units[k]]
  <2>1. f \in Files /\ FileSize[f] \in Nat /\ pos[c] \in Nat
    BY <1>13, PastBounds DEF Read, At, Waits, TypeOK
  <2>2. /\ read_bytes'[c] = n /\ data' = [units |-> u, by |-> c]
        /\ pc[c] = "read" /\ pc'[c] = "check"
        /\ UNCHANGED <<clientVars, reqd_file, recv_buff, msg_buff>>
    BY <1>13 DEF Read, At, Goto, TypeOK, Typed, r
  <2>3. data'.units = u
    BY <2>2
  <2>4. \A k \in 1..MaxSize : k <= n => u[k] = <<f, pos[c] + k>>
    OBVIOUS
  <2> HIDE DEF u
  <2>5. n = r.size <=> pos[c] + r.size <= FileSize[f]
    BY <1>0, <2>1, UnitsRead
  <2> HIDE DEF n
  <2>6. recv_buff.by = c => SeesRequest(c) /\ r = Asked(c) /\ pos[c] = r.offset
    BY <2>2 DEF Sees, SeesRequest, Serving, r
  <2>7. recv_buff.by = c => SeesRequest(c)'
    BY <2>2, <2>5, <2>6 DEF clientVars, SeesRequest, Serving, Asked, Fits, r, f
  <2>8. recv_buff.by = c /\ msg_buff.by = c => SeesMessage(c)'
    BY <2>2 DEF Sees, SeesMessage, r
  <2>9. recv_buff.by = c => SeesData(c)'
    BY <2>2, <2>3, <2>4, <2>6 DEF SeesData, r, f
  <2> QED BY <2>2, <2>7, <2>8, <2>9 DEF Sees
<1>14. CASE Check(c)
  <2>1. /\ UNCHANGED <<clientVars, reqd_file, buffVars>> /\ pc[c] = "check"
        /\ \/ pc'[c] = "chunk" /\ read_bytes[c] = r.size /\ read_bytes' = read_bytes
           \/ pc'[c] = "badchunkreq" /\ read_bytes[c] # r.size
    BY <1>14 DEF Check, At, Goto, Typed, r
  <2>2. SeesRequest(c) => SeesRequest(c)'
    BY <2>1 DEF Waits, clientVars, buffVars, SeesRequest, Serving, Asked, Fits, r
  <2> QED BY <2>1, <2>2 DEF Sees, SeesMessage, SeesData, buffVars
<1>15. CASE SendChunk(c)
  BY <1>4, <1>15 DEF SendChunk, Goto, Typed
<1>16. CASE Accept(c) \/ HandOver(c)
  BY <1>4, <1>16 DEF Accept, HandOver, Typed
<1>17. CASE RecvEnd(c)
  BY <1>4, <1>17 DEF RecvEnd, Goto, Typed
<1> QED BY <1>1, <1>2, <1>3, <1>5, <1>7, <1>8, <1>9, <1>10, <1>11, <1>12, <1>13, <1>14, <1>15,
           <1>16, <1>17 DEF Thread

LEMMA ServerInvariant == Spec => []ServerInv
<1>1. Init => ServerInv
  <2> SUFFICES ASSUME Init PROVE ServerInv
    OBVIOUS
  <2>1. TypeOK /\ Typed
    BY InitTypes
  <2>2. ASSUME NEW c \in Clients PROVE Waits(c) /\ Sees(c)
    <3>1. /\ link[c] = "closed" /\ turn[c] = 0 /\ req[c] = <<>> /\ reply[c] = <<>> /\ pc[c] = "none"
      BY DEF Init
    <3>2. Waits(c)
      BY <3>1 DEF Waits, Serving, Thinks, Pieces
    <3>3. Sees(c)
      BY <3>1 DEF Sees, SeesRequest, SeesMessage, SeesData, Serving, Thinks, Pieces
    <3> QED BY <3>2, <3>3
  <2> QED BY <2>1, <2>2 DEF ServerInv
<1>2. ServerInv /\ [Next]_vars => ServerInv'
  <2> SUFFICES ASSUME ServerInv, [Next]_vars PROVE ServerInv'
    OBVIOUS
  <2>1. TypeOK /\ Typed /\ \A c \in Clients : Waits(c) /\ Sees(c)
    BY DEF ServerInv
  <2>2. ASSUME NEW d \in Clients, Connect(d) \/ Ask(d) \/ Leave(d) \/ Accept(d) \/ HandOver(d) \/ Thread(d)
        PROVE  ServerInv'
    <3>1. TypeOK' /\ Typed'
      BY <2>1, <2>2, ClientTypes, MainTypes, ThreadTypes
    <3>2. ASSUME NEW c \in Clients PROVE Waits(c)' /\ Sees(c)'
      <4>1. CASE c = d
        BY <2>1, <2>2, <4>1, OwnWaits, OwnSees
      <4>2. CASE c # d
        BY <2>1, <2>2, <4>2, OthersSpare, SameWaits, SameSees
      <4> QED BY <4>1, <4>2
    <3> QED BY <3>1, <3>2 DEF ServerInv
  <2>3. CASE \/ StartServer \/ TestServer \/ StartFails \/ BuildRequest \/ Quit \/ Terminated
             \/ EnterAccept \/ AcceptFails \/ UNCHANGED vars
    <3>1. TypeOK' /\ Typed'
      BY <2>1, <2>3, MainTypes, SameTypes
    <3>2. ASSUME NEW c \in Clients PROVE Waits(c)' /\ Sees(c)'
      BY <2>1, <2>3, MainSpares, SameWaits, SameSees
    <3> QED BY <3>1, <3>2 DEF ServerInv
  <2>4. CASE EndLoop \/ Exit \/ Tested
    <3>1. TypeOK' /\ Typed'
      BY <2>1, <2>4, CloseTypes
    <3>2. ASSUME NEW c \in Clients PROVE Waits(c)' /\ Sees(c)'
      BY <2>1, <2>4, ClosingKeeps
    <3> QED BY <3>1, <3>2 DEF ServerInv
  <2> QED BY <2>2, <2>3, <2>4 DEF Next
<1> QED BY <1>1, <1>2, PTL DEF Spec

\* Whatever threads do to each other's buffers, and however often the server is
\* started, tested and left without descriptors, what is in recv_buff is a request
\* that somebody made, every unit of data is one of a file that is shared, and no more
\* descriptors are lost than there are (client_loop, nf_server.c, nf_message.c).
THEOREM TypeCorrect == Spec => []TypeOK
<1>1. ServerInv => TypeOK
  BY DEF ServerInv
<1> QED BY <1>1, ServerInvariant, PTL

\* Whatever the other threads put in the buffers, a thread of client_loop that is done
\* with a request has replied once, unless fopen failed; only a thread with no file
\* open replies on its way to fseek.
THEOREM OneReplyForEach == Spec => []OneReplyEach
<1>1. ASSUME ServerInv, NEW c \in Clients
      PROVE  /\ pc[c] = "recv" /\ turn[c] > 0 /\ req[c] = <<>> =>
                  Len(reply[c]) = 1 \/ (reply[c] = <<>> /\ reqd_file[c] = NoFile)
             /\ pc[c] # "recv" /\ reply[c] # <<>> =>
                  reqd_file[c] = NoFile /\ pc[c] \in {"header", "seek"}
  <2>1. Waits(c) /\ pc[c] \in Labels
    BY <1>1 DEF ServerInv, Typed
  <2>2. reply[c] = <<>> \/ Len(reply[c]) = 1
    <3>1. \A x : Len(<<x>>) = 1
      OBVIOUS
    <3> QED BY <2>1, <3>1 DEF Waits
  <2> QED BY <2>1, <2>2 DEF Waits, Serving, Unanswered, Labels, Thinks, Pieces
<1>2. ServerInv => OneReplyEach
  BY <1>1 DEF OneReplyEach
<1> QED BY <1>2, ServerInvariant, PTL

-----------------------------------------------------------------------------
(* Replies.                                                                *)

\* The two steps that reply, and what they send.
LEMMA ReplySteps ==
  ASSUME ServerInv, NEW c \in Clients, [Next]_vars, Replies(c)
  PROVE  /\ reply[c] = <<>> /\ Serving(c)
         /\ \/ /\ pc[c] \in {"send", "sendfirst"}
               /\ Last(reply'[c]) = [op |-> msg_buff.op, offset |-> 0, size |-> 0, data |-> <<>>]
            \/ /\ pc[c] = "chunk"
               /\ Last(reply'[c]) = [op |-> msg_buff.op, offset |-> msg_buff.offset,
                     size |-> msg_buff.size,
                     data |-> SubSeq(data.units, 1, Min({read_bytes[c], MaxSize}))]
<1>0. TypeOK /\ Typed /\ Waits(c)
  BY DEF ServerInv
<1>1. reply'[c] # reply[c]
  BY DEF Replies
<1>2. reply'[c] # <<>>
  <2>1. reply[c] = <<>> \/ Len(reply[c]) = 1
    <3>1. \A x : Len(<<x>>) = 1
      OBVIOUS
    <3> QED BY <1>0, <3>1 DEF Waits
  <2> QED BY <2>1 DEF Replies
<1>3. SendOpcode(c) \/ SendChunk(c)
  <2>1. ~ \E d \in Clients : d # c /\ (Connect(d) \/ Ask(d) \/ Leave(d) \/ Accept(d) \/ HandOver(d) \/ Thread(d))
    BY <1>0, <1>1, OthersSpare DEF Same
  <2>2. ~ (\/ StartServer \/ TestServer \/ StartFails \/ BuildRequest \/ Quit \/ Terminated
           \/ EnterAccept \/ AcceptFails \/ UNCHANGED vars)
    BY <1>1, MainSpares DEF Same
  <2>3. ~ (EndLoop \/ Exit \/ Tested)
    BY <1>1, <1>2 DEF EndLoop, Exit, Tested, CloseServer, clientVars
  <2>4. ~ (Connect(c) \/ Leave(c) \/ Accept(c) \/ HandOver(c))
    BY <1>1 DEF Connect, Leave, Accept, HandOver, clientVars
  <2>5. ~ (Ask(c) \/ RecvEnd(c))
    BY <1>0, <1>2 DEF Ask, RecvEnd, Typed
  <2>6. ~ (Recv(c) \/ Switch(c) \/ Find(c) \/ Opcode(c) \/ ChunkHeader(c) \/ Seek(c) \/ Read(c)
           \/ Check(c))
    BY <1>1 DEF Recv, Switch, Find, Opcode, ChunkHeader, Seek, Read, Check, clientVars
  <2> QED BY <2>1, <2>2, <2>3, <2>4, <2>5, <2>6 DEF Next, Thread
<1>4. \A m : Append(<<>>, m) = <<m>> /\ Last(<<m>>) = m
  BY DEF Last
<1>5. CASE SendOpcode(c)
  <2>1. pc[c] \in {"send", "sendfirst"}
    BY <1>5 DEF SendOpcode, At
  <2>2. reply[c] = <<>> /\ Serving(c)
    BY <1>0, <2>1 DEF Waits, Serving, Unanswered, Thinks
  <2> DEFINE m == [op |-> msg_buff.op, offset |-> 0, size |-> 0, data |-> <<>>]
  <2>3. reply'[c] = Append(reply[c], m)
    BY <1>0, <1>5 DEF SendOpcode, Typed
  <2> HIDE DEF m
  <2>4. Last(reply'[c]) = m
    BY <1>4, <2>2, <2>3
  <2> QED BY <2>1, <2>2, <2>4 DEF m
<1>6. CASE SendChunk(c)
  <2>1. pc[c] = "chunk"
    BY <1>6 DEF SendChunk, At
  <2>2. reply[c] = <<>> /\ Serving(c)
    BY <1>0, <2>1 DEF Waits, Serving, Unanswered, Thinks
  <2> DEFINE m == [op |-> msg_buff.op, offset |-> msg_buff.offset, size |-> msg_buff.size,
                   data |-> SubSeq(data.units, 1, Min({read_bytes[c], MaxSize}))]
  <2>3. reply'[c] = Append(reply[c], m)
    BY <1>0, <1>6 DEF SendChunk, Typed
  <2> HIDE DEF m
  <2>4. Last(reply'[c]) = m
    BY <1>4, <2>2, <2>3
  <2> QED BY <2>1, <2>2, <2>4 DEF m
<1> QED BY <1>3, <1>5, <1>6

\* The units sent are those the request names, when the data is this thread's.
LEMMA UnitsSent ==
  ASSUME ServerInv, NEW c \in Clients, pc[c] = "chunk", recv_buff.by = c, data.by = c
  PROVE  LET r == Asked(c)
             f == reqd_file[c]
         IN  SubSeq(data.units, 1, Min({read_bytes[c], MaxSize})) =
               [k \in 1..r.size |-> <<f, r.offset + k>>]
<1> DEFINE r == Asked(c)  f == reqd_file[c]
<1>1. /\ r = recv_buff.msg /\ r.op = "chunkreq" /\ read_bytes[c] = r.size
      /\ \A k \in 1..MaxSize : k <= r.size => data.units[k] = <<f, r.offset + k>>
  <2>1. SeesRequest(c) /\ SeesData(c) /\ Serving(c)
    BY DEF ServerInv, Sees, Serving, Thinks
  <2> QED BY <2>1 DEF SeesRequest, SeesData
<1>2. /\ r \in Request
      /\ \A k \in 1..MaxSize : data.units[k] \in Unit
  BY <1>1 DEF ServerInv, TypeOK, Typed
<1> HIDE DEF r, f
<1>3. r.size \in 1..MaxSize /\ MaxSize \in Nat
  <2>1. r.size \in 1..Past /\ r.size <= MaxSize
    BY <1>1, <1>2, RequestFields
  <2> QED BY <2>1, PastBounds
<1>4. Min({r.size, MaxSize}) = r.size
  BY <1>3, LesserOfTwo
<1> DEFINE s == r.size
<1>5. s \in Nat /\ s >= 1 /\ s \in Int /\ 1 \in Int /\ s \in 1..MaxSize /\ 1..s \subseteq 1..MaxSize
  BY <1>3
<1> HIDE DEF s
<1> DEFINE t == SubSeq(data.units, 1, s)
<1>6. /\ t \in Seq(Unit) /\ Len(t) = (IF 1 <= s THEN s - 1 + 1 ELSE 0)
      /\ \A i \in 1..(s - 1 + 1) : t[i] = data.units[1 + i - 1]
  BY <1>2, <1>5, SubSeqProperties
<1> HIDE DEF t
<1>7. /\ Len(t) = s
      /\ \A i \in 1..s : 1 + i - 1 = i /\ i \in 1..MaxSize /\ i <= s /\ i \in 1..(s - 1 + 1)
  BY <1>5, <1>6
<1>8. \A i \in 1..s : t[i] = <<f, r.offset + i>>
  <2>1. \A i \in 1..s : t[i] = data.units[i]
    BY <1>6, <1>7
  <2>2. \A i \in 1..s : data.units[i] = <<f, r.offset + i>>
    BY <1>1, <1>7 DEF s
  <2> QED BY <2>1, <2>2
<1>9. t = [i \in 1..Len(t) |-> t[i]]
  BY <1>6, LenProperties, IsASeq
<1>10. t = [i \in 1..s |-> <<f, r.offset + i>>]
  BY <1>7, <1>8, <1>9
<1> QED BY <1>1, <1>4, <1>10 DEF r, f, s, t

\* A reply of client_loop that was built while no other thread used recv_buff and
\* msg_buff is the protocol's answer to the request that the client made.
THEOREM RightWhenUndisturbed == Spec => UndisturbedReplies
<1>1. ASSUME ServerInv, [Next]_vars, NEW c \in Clients, Replies(c), Undisturbed(c)
      PROVE  Last(reply'[c]) = Answer(c)
  <2> DEFINE r == Asked(c)  f == reqd_file[c]
             bare(op) == [op |-> op, offset |-> 0, size |-> 0, data |-> <<>>]
  <2>1. reply[c] = <<>> /\ Serving(c) /\ recv_buff.by = c /\ msg_buff.by = c
    BY <1>1, ReplySteps DEF Undisturbed
  <2>2. SeesRequest(c) /\ SeesMessage(c) /\ Waits(c)
    BY <1>1, <2>1 DEF ServerInv, Sees
  <2>3. r = recv_buff.msg /\ r.op \in {"filereq", "chunkreq"}
    <3>1. recv_buff.msg \in Request /\ r = recv_buff.msg
      BY <1>1, <2>1, <2>2 DEF ServerInv, TypeOK, SeesRequest
    <3> QED BY <3>1, RequestFields
  <2>4. r.op = "chunkreq" => FileAsked(c) = f
    BY <1>1 DEF Undisturbed
  <2>5. CASE pc[c] = "send"
    <3>1. Last(reply'[c]) = bare(msg_buff.op)
      BY <1>1, <2>5, ReplySteps
    <3>2. /\ msg_buff.op = IF r.op = "chunkreq" THEN "badchunkreq"
                           ELSE IF r.file = NoFile THEN "badfilereq" ELSE "accepted"
          /\ r.op = "chunkreq" => ~ Fits(r, f)
      BY <1>1, <2>2, <2>3, <2>5 DEF SeesMessage, SeesRequest, Undisturbed
    <3> HIDE DEF r, f
    <3>3. CASE r.op = "filereq"
      BY <3>1, <3>2, <3>3 DEF Answer, r
    <3>4. CASE r.op = "chunkreq"
      BY <2>4, <3>1, <3>2, <3>4 DEF Answer, Fits, r
    <3> QED BY <2>3, <3>3, <3>4
  <2>6. CASE pc[c] = "sendfirst"
    <3>1. Last(reply'[c]) = bare(msg_buff.op)
      BY <1>1, <2>6, ReplySteps
    <3>2. msg_buff.op = "badchunkreq" /\ r.op = "chunkreq" /\ f = NoFile
      BY <2>2, <2>3, <2>6 DEF SeesMessage, SeesRequest, Waits
    <3> HIDE DEF r, f
    <3> QED BY <2>4, <3>1, <3>2 DEF Answer, r
  <2>7. CASE pc[c] = "chunk"
    <3>1. Last(reply'[c]) = [op |-> msg_buff.op, offset |-> msg_buff.offset,
                     size |-> msg_buff.size,
                     data |-> SubSeq(data.units, 1, Min({read_bytes[c], MaxSize}))]
      BY <1>1, <2>7, ReplySteps
    <3>2. /\ msg_buff.op = "chunk" /\ msg_buff.offset = r.offset /\ msg_buff.size = r.size
          /\ r.op = "chunkreq" /\ Fits(r, f) /\ f # NoFile
      BY <2>2, <2>3, <2>7 DEF SeesMessage, SeesRequest, Waits, Pieces
    <3>3. SubSeq(data.units, 1, Min({read_bytes[c], MaxSize})) =
               [k \in 1..r.size |-> <<f, r.offset + k>>]
      BY <1>1, <2>1, <2>7, UnitsSent DEF Undisturbed
    <3> HIDE DEF r, f
    <3> QED BY <2>4, <3>1, <3>2, <3>3 DEF Answer, Fits, r
  <2> QED BY <1>1, <2>5, <2>6, <2>7, ReplySteps
<1>2. ServerInv /\ [Next]_vars =>
        \A c \in Clients : Replies(c) /\ Undisturbed(c) => Last(reply'[c]) = Answer(c)
  BY <1>1
<1> QED BY <1>2, ServerInvariant, PTL DEF Spec, UndisturbedReplies

-----------------------------------------------------------------------------
(* Crashes.                                                                *)

\* What of a thread and the process this part looks at.
Locked(c) == /\ turn'[c] = turn[c] /\ req'[c] = req[c] /\ reply'[c] = reply[c]
             /\ pc'[c] = pc[c] /\ reqd_file'[c] = reqd_file[c]

\* Alone, for a server that is not yet at two requests.
LEMMA AloneFacts ==
  ASSUME FileFirst, ServerInv, Alone, ~ met, NEW c \in Clients
  PROVE  /\ AloneAt(c) /\ Waits(c) /\ pc[c] \in Labels
         /\ ~ Idle(c) => /\ recv_buff.by = c /\ SeesRequest(c)
                         /\ pc[c] \in Thinks \cup Pieces /\ Serving(c)
                         /\ recv_buff.msg = Asked(c) /\ recv_buff.msg \in Request
                         /\ recv_buff.msg.op = "chunkreq" => reqd_file[c] # NoFile
<1>1. AloneAt(c) /\ Waits(c) /\ pc[c] \in Labels /\ Sees(c) /\ recv_buff.msg \in Request
  BY DEF Alone, ServerInv, Typed, TypeOK
<1>2. ASSUME ~ Idle(c)
      PROVE  /\ recv_buff.by = c /\ SeesRequest(c)
             /\ pc[c] \in Thinks \cup Pieces /\ Serving(c)
             /\ recv_buff.msg = Asked(c)
  <2>1. recv_buff.by = c /\ pc[c] \in Thinks \cup Pieces /\ Serving(c)
    BY <1>1, <1>2 DEF AloneAt, Idle, Labels, Serving
  <2>2. SeesRequest(c)
    BY <1>1, <2>1 DEF Sees
  <2> QED BY <2>1, <2>2 DEF SeesRequest
<1>3. ASSUME ~ Idle(c), recv_buff.msg.op = "chunkreq" PROVE reqd_file[c] # NoFile
  <2>1. turn[c] \in 1..Len(Wants[c]) /\ recv_buff.msg = Wants[c][turn[c]]
    BY <1>1, <1>2, <1>3 DEF Waits, Unanswered, Asked
  <2>2. CASE turn[c] = 1
    <3>1. Wants[c] \in Seq(Request) /\ Len(Wants[c]) # 0
      BY <2>1, <2>2, RequestsExist
    <3>2. Wants[c][1].op = "filereq"
      BY <3>1, EmptySeq DEF FileFirst
    <3> QED BY <1>3, <2>1, <2>2, <3>2
  <2>3. CASE turn[c] # 1
    BY <1>1, <1>2, <1>3, <2>3 DEF AloneAt
  <2> QED BY <2>2, <2>3
<1> QED BY <1>1, <1>2, <1>3

\* A step that leaves the threads where they are.
LEMMA LockedAlone ==
  ASSUME NEW c \in Clients, AloneAt(c), \A d \in Clients : Locked(d), recv_buff' = recv_buff,
         msg_buff' = msg_buff \/ msg_buff'.op = "chunkreq"
  PROVE  AloneAt(c)'
BY DEF AloneAt, Locked, Idle

\* A step of d leaves the others alone with what they have; none is at a request but
\* d, unless d is done.
LEMMA OthersAlone ==
  ASSUME ServerInv, NEW c \in Clients, NEW d \in Clients, c # d, AloneAt(c), AloneAt(d), ~ met',
         Connect(d) \/ Ask(d) \/ Leave(d) \/ Accept(d) \/ HandOver(d) \/ Thread(d)
  PROVE  AloneAt(c)'
<1>1. Same(c) /\ TypeOK /\ Typed
  BY OthersSpare DEF ServerInv
<1>2. CASE Idle(c)
  <2>1. Idle(c)' /\ pc'[c] # "send"
    BY <1>1, <1>2 DEF Idle, Same
  <2> QED BY <1>1, <2>1 DEF AloneAt, Same
<1>3. CASE ~ Idle(c)
  <2>1. recv_buff.by = c /\ \A e \in Clients : e # c => Idle(e)
    BY <1>3 DEF AloneAt
  <2>2. Connect(d) \/ Ask(d) \/ Leave(d) \/ Accept(d) \/ HandOver(d) \/ RecvEnd(d)
    <3>1. pc[d] \in {"none", "new", "recv"}
      BY <2>1 DEF Idle
    <3>2. ~ Recv(d)
      BY <1>3 DEF Recv, Idle
    <3> QED BY <3>1, <3>2 DEF Thread, Switch, Find, Opcode, SendOpcode, ChunkHeader, Seek, Read,
                             Check, SendChunk, At
  <2>3. /\ UNCHANGED buffVars /\ Idle(d)'
        /\ pc' = pc \/ pc' = [pc EXCEPT ![d] = pc'[d]]
    <3>1. Idle(d) /\ pc \in [Clients -> Labels]
      BY <1>1, <2>1 DEF Typed
    <3>2. \A x : pc' = [pc EXCEPT ![d] = x] => pc'[d] = x
      BY <3>1
    <3>3. UNCHANGED buffVars /\ (pc' = pc \/ \E l \in {"none", "new", "recv"} : pc' = [pc EXCEPT ![d] = l])
      BY <2>2 DEF Connect, Ask, Leave, Accept, HandOver, RecvEnd, Goto, localVars
    <3> QED BY <3>1, <3>2, <3>3 DEF Idle
  <2>4. \A e \in Clients : e # c => Idle(e)'
    BY <1>1, <2>1, <2>3 DEF Idle, Typed
  <2>5. recv_buff' = recv_buff /\ msg_buff' = msg_buff
    BY <2>3 DEF buffVars
  <2> QED BY <1>1, <2>1, <2>4, <2>5 DEF AloneAt, Same, Idle
<1> QED BY <1>2, <1>3

\* The steps of the client's own thread that is alone.
LEMMA OwnAlone ==
  ASSUME FileFirst, ServerInv, Alone, ~ met, ~ met', NEW c \in Clients,
         Connect(c) \/ Ask(c) \/ Leave(c) \/ Accept(c) \/ HandOver(c) \/ Thread(c)
  PROVE  AloneAt(c)'
<1>0. /\ TypeOK /\ Typed /\ Waits(c) /\ AloneAt(c) /\ pc[c] \in Labels
      /\ ~ Idle(c) => /\ recv_buff.by = c /\ Serving(c) /\ SeesRequest(c)
                      /\ recv_buff.msg.op = "chunkreq" => reqd_file[c] # NoFile
                      /\ \A d \in Clients : d # c => Idle(d)
                      /\ turn[c] = 1 \/ reqd_file[c] # NoFile
                      /\ req[c] = <<>> /\ reply[c] = <<>>
  BY AloneFacts DEF ServerInv, AloneAt, Waits, Serving, Unanswered
<1> USE DEF Idle, Thinks, Pieces
<1>1. \A d \in Clients \ {c} : Idle(d) => Idle(d)'
  BY <1>0, OthersSpare DEF Same
<1>2. CASE Connect(c) \/ Leave(c)
  BY <1>0, <1>2 DEF Connect, Leave, localVars, buffVars, AloneAt
<1>3. CASE Ask(c)
  <2>1. Idle(c)
    BY <1>0, <1>3 DEF Ask, Waits, Serving, Unanswered
  <2>2. turn[c] = 0 \/ reqd_file[c] # NoFile
    <3>1. CASE turn[c] = 0
      BY <3>1
    <3>2. CASE \E n \in DOMAIN reply[c] : GoesOn(reply[c][n])
      <4>1. PICK n \in DOMAIN reply[c] : GoesOn(reply[c][n])
        BY <3>2
      <4>2. reply[c] = <<reply[c][1]>> /\ reply[c] # <<>>
        BY <1>0, <4>1 DEF Waits
      <4>3. \A x : DOMAIN <<x>> = {1}
        OBVIOUS
      <4>4. n = 1
        BY <4>1, <4>2, <4>3
      <4> QED BY <1>0, <2>1, <4>1, <4>2, <4>4 DEF AloneAt, Waits
    <3> QED BY <1>3, <3>1, <3>2 DEF Ask
  <2>3. /\ turn'[c] = turn[c] + 1 /\ reply'[c] = <<>>
        /\ UNCHANGED <<localVars, buffVars>>
    BY <1>0, <1>3 DEF Ask, Typed
  <2>4. turn'[c] = 1 \/ reqd_file'[c] # NoFile
    BY <2>2, <2>3 DEF localVars
  <2> QED BY <1>0, <2>1, <2>3, <2>4 DEF localVars, buffVars, AloneAt
<1>4. CASE Accept(c) \/ HandOver(c)
  <2>1. /\ UNCHANGED <<turn, req, reply, reqd_file, buffVars>>
        /\ pc'[c] \in {"new", "recv"} /\ reply[c] = <<>>
    BY <1>0, <1>4 DEF Accept, HandOver, Typed, Waits, clientVars
  <2> QED BY <1>0, <2>1 DEF AloneAt
<1>5. CASE Recv(c)
  <2>1. /\ recv_buff'.by = c /\ pc'[c] = "switch" /\ req[c] # <<>>
        /\ UNCHANGED <<turn, reply, reqd_file>>
    BY <1>0, <1>5 DEF Recv, Goto, Typed
  <2>2. \A d \in Clients : d # c => Idle(d)
    BY <1>5 DEF Recv
  <2> QED BY <1>0, <1>1, <2>1, <2>2 DEF AloneAt
<1>6. CASE RecvEnd(c)
  <2>1. pc'[c] = "none" /\ req'[c] = <<>>
    BY <1>0, <1>6 DEF RecvEnd, Goto, Typed
  <2> QED BY <2>1 DEF AloneAt
<1>7. CASE Switch(c)
  <2>1. /\ pc[c] = "switch" /\ UNCHANGED <<clientVars, reqd_file, buffVars>>
        /\ \/ pc'[c] = "find"
           \/ pc'[c] = "header" /\ reqd_file[c] # NoFile
    <3>1. recv_buff.msg.op \in {"filereq", "chunkreq"}
      BY <1>0, RequestFields DEF TypeOK
    <3> QED BY <1>0, <1>7, <3>1 DEF Switch, At, Goto, Typed
  <2> QED BY <1>0, <1>1, <2>1 DEF clientVars, buffVars, AloneAt
<1>8. CASE Find(c)
  <2>1. /\ pc[c] = "find" /\ UNCHANGED <<clientVars, buffVars>>
        /\ \/ pc'[c] = "badfilereq" /\ reqd_file'[c] = reqd_file[c]
           \/ pc'[c] = "accepted" /\ reqd_file'[c] # NoFile
           \/ pc'[c] = "recv" /\ reqd_file'[c] = NoFile
           \/ pc'[c] = pc[c] /\ reqd_file'[c] = reqd_file[c]
    BY <1>0, <1>8 DEF Find, At, Goto, Typed, TypeOK
  <2> QED BY <1>0, <1>1, <2>1 DEF clientVars, buffVars, AloneAt
<1>9. CASE Opcode(c)
  <2>1. /\ UNCHANGED <<clientVars, reqd_file, recv_buff>>
        /\ pc[c] \in {"accepted", "badfilereq", "badchunkreq"} /\ msg_buff'.op = pc[c]
        /\ pc'[c] = "send"
    BY <1>0, <1>9 DEF Opcode, At, Goto, Typed, AloneAt
  <2> QED BY <1>0, <1>1, <2>1 DEF Waits, clientVars, AloneAt
<1>10. CASE SendOpcode(c)
  <2> DEFINE m == [op |-> msg_buff.op, offset |-> 0, size |-> 0, data |-> <<>>]
  <2>1. /\ pc[c] = "send" /\ pc'[c] = "recv" /\ UNCHANGED <<turn, req, reqd_file>>
        /\ reply'[c] = Append(reply[c], m)
    BY <1>0, <1>10 DEF SendOpcode, At, Goto, Typed, AloneAt
  <2>2. msg_buff.op \in {"badfilereq", "chunkreq"} => ~ GoesOn(m)
    BY DEF GoesOn
  <2> HIDE DEF m
  <2>3. reply'[c] = <<m>>
    <3>1. \A x : Append(<<>>, x) = <<x>>
      OBVIOUS
    <3>2. reply[c] = <<>>
      BY <1>0, <2>1
    <3> QED BY <2>1, <3>1, <3>2
  <2>4. reply'[c][1] = m
    BY <2>3
  <2> QED BY <1>0, <2>1, <2>2, <2>4 DEF AloneAt
<1>11. CASE ChunkHeader(c)
  <2>1. /\ UNCHANGED <<clientVars, reqd_file, recv_buff>> /\ pc[c] = "header" /\ pc'[c] = "seek"
    BY <1>0, <1>11 DEF ChunkHeader, At, Goto, Typed
  <2> QED BY <1>0, <1>1, <2>1 DEF clientVars, AloneAt
<1>12. CASE Seek(c)
  <2>1. /\ UNCHANGED <<clientVars, reqd_file, buffVars>> /\ pc[c] = "seek"
        /\ pc'[c] \in {"seek", "read", "badchunkreq"} /\ (reqd_file[c] # NoFile \/ pc'[c] = "seek")
    BY <1>0, <1>12 DEF Seek, At, Goto, Typed
  <2> QED BY <1>0, <1>1, <2>1 DEF clientVars, buffVars, AloneAt
<1>13. CASE Read(c)
  <2>1. /\ UNCHANGED <<clientVars, reqd_file, recv_buff>> /\ pc[c] = "read" /\ pc'[c] = "check"
    BY <1>0, <1>13 DEF Read, At, Goto, Typed
  <2> QED BY <1>0, <1>1, <2>1 DEF clientVars, AloneAt
<1>14. CASE Check(c)
  <2>1. /\ UNCHANGED <<clientVars, reqd_file, buffVars>> /\ pc[c] = "check"
        /\ pc'[c] \in {"chunk", "badchunkreq"}
    BY <1>0, <1>14 DEF Check, At, Goto, Typed
  <2> QED BY <1>0, <1>1, <2>1 DEF clientVars, buffVars, AloneAt
<1>15. CASE SendChunk(c)
  <2>1. /\ UNCHANGED <<turn, req, reqd_file>> /\ pc[c] = "chunk" /\ pc'[c] = "recv"
    BY <1>0, <1>15 DEF SendChunk, At, Goto, Typed
  <2> QED BY <1>0, <2>1 DEF Waits, AloneAt
<1> QED BY <1>2, <1>3, <1>4, <1>5, <1>6, <1>7, <1>8, <1>9, <1>10, <1>11, <1>12, <1>13,
           <1>14, <1>15 DEF Thread

\* The steps of the main and accept threads, and those that close.
LEMMA MainAlone ==
  ASSUME ServerInv, Alone, ~ met, NEW c \in Clients,
         \/ StartServer \/ TestServer \/ StartFails \/ BuildRequest \/ Quit \/ Terminated
         \/ EnterAccept \/ AcceptFails \/ UNCHANGED vars \/ EndLoop \/ Exit \/ Tested
  PROVE  AloneAt(c)'
<1>0. AloneAt(c) /\ \A d \in Clients : Waits(d)
  BY DEF Alone, ServerInv
<1>1. CASE \/ StartServer \/ TestServer \/ StartFails \/ BuildRequest \/ Quit \/ Terminated
           \/ EnterAccept \/ AcceptFails \/ UNCHANGED vars
  <2>1. \A d \in Clients : Locked(d)
    BY <1>1, MainSpares DEF Same, Locked
  <2>2. recv_buff' = recv_buff /\ (msg_buff' = msg_buff \/ msg_buff'.op = "chunkreq")
    BY <1>1 DEF StartServer, TestServer, StartFails, BuildRequest, Quit, Terminated,
       EnterAccept, AcceptFails, vars, buffVars
  <2> QED BY <1>0, <2>1, <2>2, LockedAlone
<1>2. CASE Exit
  <2>1. pc'[c] = "none" /\ req'[c] = <<>>
    BY <1>2 DEF Exit
  <2> QED BY <2>1 DEF AloneAt, Idle, Thinks, Pieces
<1>3. CASE EndLoop \/ Tested
  <2>1. CloseServer \/ UNCHANGED clientVars
    BY <1>3 DEF EndLoop, Tested
  <2>3. UNCHANGED <<localVars, buffVars>>
    BY <1>3 DEF EndLoop, Tested
  <2>2. /\ UNCHANGED <<pc, reqd_file, recv_buff, msg_buff>>
        /\ \/ turn'[c] = turn[c] /\ req'[c] = req[c] /\ reply'[c] = reply[c]
           \/ req'[c] = <<>> /\ reply'[c] = <<>> /\ pc[c] = "none"
    BY <1>0, <2>1, <2>3 DEF CloseServer, clientVars, localVars, buffVars, Waits
  <2> QED BY <1>0, <2>2 DEF AloneAt, Idle, Thinks, Pieces
<1> QED BY <1>1, <1>2, <1>3

\* What a crash of a server that is at one request at a time is due to.
LEMMA CrashSteps ==
  ASSUME FileFirst, ServerInv, Alone, CrashNeedsCompany, [Next]_vars, crashed', ~ met'
  PROVE  CrashNeedsCompany'
<1>0. TypeOK /\ Typed /\ \A c \in Clients : Waits(c)
  BY DEF ServerInv
<1>1. ~ met
  BY DEF Next, vars, Connect, Ask, Leave, Accept, HandOver, Thread, Recv, RecvEnd, Switch, Find, Opcode,
     SendOpcode, ChunkHeader, Seek, Read, Check, SendChunk, EnterAccept, AcceptFails, EndLoop,
     Tested, StartServer,
     TestServer, StartFails, BuildRequest, Quit, Exit, Terminated
<1>2. CASE crashed
  <2>1. UNCHANGED vars
    BY <1>2 DEF Next, Alive, Connect, Ask, Leave, Accept, HandOver, Thread, At, Recv, RecvEnd, Switch, Find,
       Opcode, SendOpcode, ChunkHeader, Seek, Read, Check, SendChunk, EnterAccept, AcceptFails,
       EndLoop, Tested, StartServer, TestServer, StartFails, BuildRequest, Quit, Exit, Terminated
  <2> QED BY <2>1 DEF CrashNeedsCompany, vars, localVars, procVars, modeVars
<1>3. CASE ~ crashed
  <2>1. \/ StartFails \/ Quit \/ EnterAccept \/ EndLoop \/ Tested
        \/ \E c \in Clients : HandOver(c) \/ Find(c) \/ Seek(c) \/ Read(c)
    BY <1>3 DEF Next, vars, procVars, modeVars, Connect, Ask, Leave, Accept, Thread, Recv, RecvEnd,
       Switch, Opcode, SendOpcode, ChunkHeader, Check, SendChunk, AcceptFails,
       StartServer, TestServer, BuildRequest, Exit, Terminated
  <2>2. CASE StartFails
    BY <2>2 DEF StartFails, modeVars, CrashNeedsCompany
  <2>3. CASE Quit
    BY <1>3, <2>3 DEF Quit, modeVars, CrashNeedsCompany
  <2>7. CASE EnterAccept
    BY <1>3, <2>7 DEF EnterAccept, CrashNeedsCompany
  <2>8. CASE EndLoop
    BY <1>3, <2>8 DEF EndLoop, CrashNeedsCompany
  <2>9. CASE Tested
    BY <1>0, <2>9 DEF Tested, Typed, modeVars, CrashNeedsCompany
  <2>10. ASSUME NEW c \in Clients, HandOver(c) PROVE CrashNeedsCompany'
    BY <1>3, <2>10 DEF HandOver, CrashNeedsCompany
  <2>4. ASSUME NEW c \in Clients, Find(c) PROVE CrashNeedsCompany'
    <3>1. main' = "freed" /\ pc'[c] = "find"
      BY <1>3, <2>4 DEF Find, At
    <3> QED BY <3>1 DEF CrashNeedsCompany
  <2>5. ASSUME NEW c \in Clients, Seek(c) PROVE FALSE
    BY <1>1, <1>3, <2>5, AloneFacts DEF Seek, At, AloneAt, Pieces
  <2>6. ASSUME NEW c \in Clients, Read(c) PROVE FALSE
    <3> DEFINE r == recv_buff.msg  f == reqd_file[c]
               n == Min({r.size, Max({FileSize[f] - pos[c], 0})})
    <3>1. pc[c] = "read" /\ n > MaxSize
      BY <1>3, <2>6 DEF Read, At
    <3>2. r \in Request /\ r.op = "chunkreq"
      BY <1>1, <3>1, AloneFacts DEF Idle, SeesRequest, Pieces
    <3>3. f \in Files /\ FileSize[f] \in Nat /\ pos[c] \in Nat
      BY <1>0, <3>1, PastBounds DEF Waits, TypeOK
    <3> HIDE DEF r, f
    <3>4. r.size \in Nat /\ r.size <= MaxSize
      <4>1. \A k \in 1..Past : k \in Nat
        BY PastBounds
      <4> QED BY <3>2, <4>1, RequestFields
    <3>5. n \in Nat /\ n <= r.size
      BY <3>3, <3>4, UnitsRead
    <3> HIDE DEF n
    <3> QED BY <3>1, <3>4, <3>5, PastBounds
  <2> QED BY <2>1, <2>2, <2>3, <2>4, <2>5, <2>6, <2>7, <2>8, <2>9, <2>10
<1> QED BY <1>2, <1>3

\* If clients ask for a file before its pieces, client_loop brings the server down
\* only when two threads have been at a request at once: with one at a time no fseek
\* meets a file that is not open and no fread passes the end of msg_buff, whatever the
\* main thread's download puts there and however the clients come and go; or by the
\* exit that frees the database, by a cancelled thread that had ended, or in the test.
THEOREM CrashesNeedCompany ==
  ASSUME FileFirst
  PROVE  Spec => []CrashNeedsCompany
<1>1. Init => Alone /\ CrashNeedsCompany
  BY DEF Init, Alone, AloneAt, Idle, Thinks, Pieces, CrashNeedsCompany
<1>2. ServerInv /\ (Alone /\ CrashNeedsCompany) /\ [Next]_vars => (Alone /\ CrashNeedsCompany)'
  <2> SUFFICES ASSUME ServerInv, Alone, CrashNeedsCompany, [Next]_vars
               PROVE  (Alone /\ CrashNeedsCompany)'
    OBVIOUS
  <2>1. ASSUME ~ met' PROVE Alone'
    <3>1. ~ met
      BY <2>1 DEF Next, vars, Connect, Ask, Leave, Accept, HandOver, Thread, Recv, RecvEnd, Switch, Find,
         Opcode, SendOpcode, ChunkHeader, Seek, Read, Check, SendChunk, EnterAccept, AcceptFails,
         EndLoop, Tested, StartServer, TestServer, StartFails, BuildRequest, Quit, Exit, Terminated
    <3>2. ASSUME NEW c \in Clients PROVE AloneAt(c)'
      <4>1. AloneAt(c)
        BY <3>1 DEF Alone
      <4>2. ASSUME NEW d \in Clients, Connect(d) \/ Ask(d) \/ Leave(d) \/ Accept(d) \/ HandOver(d) \/ Thread(d)
            PROVE  AloneAt(c)'
        <5>1. CASE c = d
          BY <2>1, <3>1, <4>2, <5>1, OwnAlone
        <5>2. CASE c # d
          <6>1. AloneAt(d)
            BY <3>1 DEF Alone
          <6> QED BY <2>1, <4>1, <4>2, <5>2, <6>1, OthersAlone
        <5> QED BY <5>1, <5>2
      <4> QED BY <3>1, <4>2, MainAlone DEF Next
    <3> QED BY <3>2 DEF Alone
  <2>2. Alone'
    BY <2>1 DEF Alone
  <2>3. CrashNeedsCompany'
    BY CrashSteps DEF CrashNeedsCompany
  <2> QED BY <2>2, <2>3
<1> QED BY <1>1, <1>2, ServerInvariant, PTL DEF Spec

==============================================================================
