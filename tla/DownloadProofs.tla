--------------------------- MODULE DownloadProofs ---------------------------
(***************************************************************************)
(* Proofs about the downloader for every number of peers and chunks and    *)
(* every set of faults.  The inductive invariant IInv adds to the          *)
(* properties of Download that a connection without a live socket carries  *)
(* no message, that nothing is under way before the file is requested,     *)
(* and that peers_reached counts the connections made.                     *)
(*                                                                         *)
(* EndInv, for the crashes, says that a pointer dangles only, and poll()   *)
(* reports trouble only, where the peer has ended its connection, and that *)
(* bytes are read as opcodes only after a header that came in parts.       *)
(*                                                                         *)
(* RInv, for the refinement of ChunkTransfer, says that chunks are asked   *)
(* for in order, that nothing is asked for while setting up, and why the   *)
(* loop may have been told to stop.                                        *)
(***************************************************************************)
EXTENDS Download, FiniteSetTheorems, SequenceTheorems, TLAPS

Quiet(p) == req[p] = <<>> /\ inbox[p] = <<>>

QuietUnlessOpen == \A p \in Peers : conn[p] # "open" => Quiet(p)

\* Before the poll loop, the peers not come to yet have been sent nothing, and
\* no pointer dangles.
SetupQuiet ==
  /\ pc = "connect" => \A p \in Peers : Quiet(p) /\ (p >= i => conn[p] = "null")
  /\ pc = "filereq" => \A p \in Peers : p >= i => Quiet(p)
  /\ pc \in {"connect", "filereq"} => \A p \in Peers : conn[p] # "freed"

NetInv == TypeOK /\ OneRequestInFlight /\ QuietUnlessOpen /\ SetupQuiet /\ ChunkHeldOnce

Connected == {p \in Peers : conn[p] # "null"}

\* What was written came, and nothing was before anything is asked for.
WrittenCame ==
  /\ \A c \in written : chunk_states[c] = "FINISHED"
  /\ pc \in {"connect", "filereq"} => written = {}

ReachedCounts == pc \in {"connect", "filereq"} => peers_reached = Cardinality(Connected)

IInv == NetInv /\ WrittenCame /\ RemainingCounts /\ ReachedCounts /\ PollSlotsFit

-----------------------------------------------------------------------------
(* Channels of at most one message *)

LEMMA QuietChannel ==
  ASSUME NEW S, NEW s \in Seq(S), Len(s) = 0
  PROVE  s = <<>> /\ DOMAIN s = {}
BY EmptySeq

LEMMA PutInEmpty ==
  ASSUME NEW S, NEW m \in S, NEW s \in Seq(S), Len(s) = 0
  PROVE  /\ Append(s, m) \in Seq(S) /\ Len(Append(s, m)) = 1
         /\ DOMAIN Append(s, m) = {1} /\ Append(s, m)[1] = m
OBVIOUS

\* At most one message over two channels: when the first holds one, it is
\* alone and the other channel is empty.
LEMMA OnlyMessage ==
  ASSUME NEW S, NEW s \in Seq(S), s # <<>>,
         NEW T, NEW t \in Seq(T),
         Len(s) + Len(t) <= 1 \/ Len(t) + Len(s) <= 1
  PROVE  /\ Len(s) = 1 /\ Len(t) = 0
<1> DEFINE n == Len(s)  k == Len(t)
<1>1. n \in Nat /\ n > 0
  OBVIOUS
<1>2. k \in Nat
  OBVIOUS
<1>3. n + k <= 1 \/ k + n <= 1
  OBVIOUS
<1> HIDE DEF n, k
<1>4. n = 1 /\ k = 0
  BY <1>1, <1>2, <1>3
<1> QED
  BY <1>4 DEF n, k

LEMMA TakeOnly ==
  ASSUME NEW S, NEW s \in Seq(S), Len(s) = 1
  PROVE  /\ DOMAIN s = {1} /\ Head(s) = s[1] /\ s[1] \in S
         /\ Tail(s) \in Seq(S) /\ Tail(s) = <<>>
<1>1. Tail(s) \in Seq(S)
  OBVIOUS
<1>2. Len(Tail(s)) = 0
  OBVIOUS
<1>3. Tail(s) = <<>>
  BY <1>1, <1>2, QuietChannel
<1>4. DOMAIN s = {1}
  OBVIOUS
<1>5. Head(s) = s[1] /\ s[1] \in S
  OBVIOUS
<1> QED
  BY <1>1, <1>3, <1>4, <1>5

\* What a peer's channels hold, by the invariants.
LEMMA RequestHeld ==
  ASSUME TypeOK, OneRequestInFlight, NEW p \in Peers, req[p] # <<>>
  PROVE  /\ inbox[p] = <<>> /\ Tail(req[p]) = <<>>
         /\ Head(req[p]) \in Request
         /\ \A c : Owes(p, c) <=> Head(req[p]).chunk = c
<1>1. req[p] \in Seq(Request) /\ inbox[p] \in Seq(Reply)
  BY DEF TypeOK
<1>2. Len(req[p]) + Len(inbox[p]) <= 1
  BY DEF OneRequestInFlight
<1>3. Len(req[p]) = 1 /\ Len(inbox[p]) = 0
  BY <1>1, <1>2, OnlyMessage
<1>4. inbox[p] = <<>> /\ DOMAIN inbox[p] = {}
  BY <1>1, <1>3, QuietChannel
<1>5. /\ DOMAIN req[p] = {1} /\ Head(req[p]) = req[p][1]
      /\ req[p][1] \in Request /\ Tail(req[p]) = <<>>
  BY <1>1, <1>3, TakeOnly
<1> QED
  BY <1>4, <1>5 DEF Owes

LEMMA ReplyHeld ==
  ASSUME TypeOK, OneRequestInFlight, NEW p \in Peers, inbox[p] # <<>>
  PROVE  /\ req[p] = <<>> /\ Tail(inbox[p]) = <<>> /\ Len(inbox[p]) = 1
         /\ Head(inbox[p]) \in Reply
         /\ \A c : Owes(p, c) <=> Head(inbox[p]).chunk = c
<1>1. req[p] \in Seq(Request) /\ inbox[p] \in Seq(Reply)
  BY DEF TypeOK
<1>2. Len(req[p]) + Len(inbox[p]) <= 1
  BY DEF OneRequestInFlight
<1>3. Len(inbox[p]) = 1 /\ Len(req[p]) = 0
  BY <1>1, <1>2, OnlyMessage
<1>4. req[p] = <<>> /\ DOMAIN req[p] = {}
  BY <1>1, <1>3, QuietChannel
<1>5. /\ DOMAIN inbox[p] = {1} /\ Head(inbox[p]) = inbox[p][1]
      /\ inbox[p][1] \in Reply /\ Tail(inbox[p]) = <<>>
  BY <1>1, <1>3, TakeOnly
<1> QED
  BY <1>3, <1>4, <1>5 DEF Owes

\* The channels of p end up holding r and b, one message at most, and those
\* of the other peers are left alone.
ChannelTypes == req \in [Peers -> Seq(Request)] /\ inbox \in [Peers -> Seq(Reply)]

LEMMA ChannelStep ==
  ASSUME TypeOK, OneRequestInFlight, NEW p \in Peers,
         NEW r \in Seq(Request), NEW b \in Seq(Reply), Len(r) + Len(b) <= 1,
         req' = [req EXCEPT ![p] = r], inbox' = [inbox EXCEPT ![p] = b]
  PROVE  /\ ChannelTypes' /\ OneRequestInFlight'
         /\ \A q \in Peers : q # p => (Quiet(q)' <=> Quiet(q))
         /\ \A q \in Peers, c \in Chunks : q # p => (Owes(q, c)' <=> Owes(q, c))
         /\ \A c \in Chunks : Owes(p, c)' <=> \/ \E k \in DOMAIN r : r[k].chunk = c
                                              \/ \E k \in DOMAIN b : b[k].chunk = c
<1>1. ChannelTypes'
  BY DEF TypeOK, ChannelTypes
<1>2. req'[p] = r /\ inbox'[p] = b
  BY DEF TypeOK
<1>3. \A q \in Peers : q # p => req'[q] = req[q] /\ inbox'[q] = inbox[q]
  BY DEF TypeOK
<1>4. OneRequestInFlight'
  BY <1>2, <1>3 DEF OneRequestInFlight
<1>5. \A q \in Peers : q # p => (Quiet(q)' <=> Quiet(q))
  BY <1>3 DEF Quiet
<1>6. \A q \in Peers, c \in Chunks : q # p => (Owes(q, c)' <=> Owes(q, c))
  BY <1>3 DEF Owes
<1>7. \A c \in Chunks : Owes(p, c)' <=> \/ \E k \in DOMAIN r : r[k].chunk = c
                                        \/ \E k \in DOMAIN b : b[k].chunk = c
  BY <1>2 DEF Owes
<1> QED
  BY <1>1, <1>4, <1>5, <1>6, <1>7

\* The channels of p end up empty.
LEMMA DrainStep ==
  ASSUME TypeOK, OneRequestInFlight, NEW p \in Peers,
         req' = [req EXCEPT ![p] = <<>>], inbox' = [inbox EXCEPT ![p] = <<>>]
  PROVE  /\ ChannelTypes' /\ OneRequestInFlight' /\ Quiet(p)'
         /\ \A q \in Peers : q # p => (Quiet(q)' <=> Quiet(q))
         /\ \A q \in Peers, c \in Chunks : Owes(q, c)' => q # p /\ Owes(q, c)
<1> DEFINE e == <<>>
<1>1. /\ e \in Seq(Request) /\ e \in Seq(Reply) /\ Len(e) + Len(e) <= 1
      /\ DOMAIN e = {}
  BY EmptySeq
<1>2. Quiet(p)'
  BY DEF Quiet, TypeOK
<1>3. req' = [req EXCEPT ![p] = e] /\ inbox' = [inbox EXCEPT ![p] = e]
  OBVIOUS
<1> HIDE DEF e
<1>4. /\ ChannelTypes' /\ OneRequestInFlight'
      /\ \A q \in Peers : q # p => (Quiet(q)' <=> Quiet(q))
      /\ \A q \in Peers, c \in Chunks : q # p => (Owes(q, c)' <=> Owes(q, c))
      /\ \A c \in Chunks : Owes(p, c)' <=> \/ \E k \in DOMAIN e : e[k].chunk = c
                                           \/ \E k \in DOMAIN e : e[k].chunk = c
  BY <1>1, <1>3, ChannelStep
<1> QED
  BY <1>1, <1>2, <1>4

\* The channels of p end up holding one message, to p or from it.
LEMMA PutStep ==
  ASSUME TypeOK, OneRequestInFlight, NEW p \in Peers, NEW m,
         \/ /\ m \in Request
            /\ req' = [req EXCEPT ![p] = Append(<<>>, m)]
            /\ inbox' = [inbox EXCEPT ![p] = <<>>]
         \/ /\ m \in Reply
            /\ req' = [req EXCEPT ![p] = <<>>]
            /\ inbox' = [inbox EXCEPT ![p] = Append(<<>>, m)]
  PROVE  /\ ChannelTypes' /\ OneRequestInFlight'
         /\ \A q \in Peers : q # p => (Quiet(q)' <=> Quiet(q))
         /\ \A q \in Peers, c \in Chunks :
              Owes(q, c)' <=> IF q = p THEN m.chunk = c ELSE Owes(q, c)
<1> DEFINE e == <<>>  s == Append(<<>>, m)
<1>1. /\ e \in Seq(Request) /\ e \in Seq(Reply) /\ Len(e) = 0
      /\ <<>> \in Seq(Request) /\ <<>> \in Seq(Reply) /\ Len(<<>>) = 0
      /\ DOMAIN e = {}
  BY EmptySeq
<1> HIDE DEF e, s
<1>2. CASE /\ m \in Request
           /\ req' = [req EXCEPT ![p] = Append(<<>>, m)]
           /\ inbox' = [inbox EXCEPT ![p] = <<>>]
  <2>1. s \in Seq(Request) /\ Len(s) = 1 /\ DOMAIN s = {1} /\ s[1] = m
    BY <1>1, <1>2, PutInEmpty DEF s
  <2>2. Len(s) + Len(e) <= 1
    BY <1>1, <2>1
  <2>3. req' = [req EXCEPT ![p] = s] /\ inbox' = [inbox EXCEPT ![p] = e]
    BY <1>2 DEF s, e
  <2>4. /\ ChannelTypes' /\ OneRequestInFlight'
        /\ \A q \in Peers : q # p => (Quiet(q)' <=> Quiet(q))
        /\ \A q \in Peers, c \in Chunks : q # p => (Owes(q, c)' <=> Owes(q, c))
        /\ \A c \in Chunks : Owes(p, c)' <=> \/ \E k \in DOMAIN s : s[k].chunk = c
                                             \/ \E k \in DOMAIN e : e[k].chunk = c
    BY <1>1, <2>1, <2>2, <2>3, ChannelStep
  <2> QED
    BY <1>1, <2>1, <2>4
<1>3. CASE /\ m \in Reply
           /\ req' = [req EXCEPT ![p] = <<>>]
           /\ inbox' = [inbox EXCEPT ![p] = Append(<<>>, m)]
  <2>1. s \in Seq(Reply) /\ Len(s) = 1 /\ DOMAIN s = {1} /\ s[1] = m
    BY <1>1, <1>3, PutInEmpty DEF s
  <2>2. Len(e) + Len(s) <= 1
    BY <1>1, <2>1
  <2>3. req' = [req EXCEPT ![p] = e] /\ inbox' = [inbox EXCEPT ![p] = s]
    BY <1>3 DEF s, e
  <2>4. /\ ChannelTypes' /\ OneRequestInFlight'
        /\ \A q \in Peers : q # p => (Quiet(q)' <=> Quiet(q))
        /\ \A q \in Peers, c \in Chunks : q # p => (Owes(q, c)' <=> Owes(q, c))
        /\ \A c \in Chunks : Owes(p, c)' <=> \/ \E k \in DOMAIN e : e[k].chunk = c
                                             \/ \E k \in DOMAIN s : s[k].chunk = c
    BY <1>1, <2>1, <2>2, <2>3, ChannelStep
  <2> QED
    BY <1>1, <2>1, <2>4
<1> QED
  BY <1>2, <1>3

-----------------------------------------------------------------------------
(* Steps of the network part *)

\* Chunks no longer under way, and nothing else, keep every chunk in one hand.
LEMMA HeldShrinks ==
  ASSUME ChunkHeldOnce, chunk_states' = chunk_states,
         \A q \in Peers, c \in Chunks : Owes(q, c)' => Owes(q, c)
  PROVE  ChunkHeldOnce'
BY DEF ChunkHeldOnce

ChunkStateTypes == chunk_states \in [Chunks -> {"QUEUED", "AWAITING", "FINISHED"}]
ConnTypes == conn \in [Peers -> {"null", "open", "freed"}]
LinkTypes == link \in [Peers -> {"up", "fin", "rst"}]

\* select_request_chunk, for the handler of a message from p, on chunk states
\* cs that differ from the current ones in the chunk received only.
LEMMA SelectRequestStep ==
  ASSUME NetInv, NEW p \in Peers, inbox[p] # <<>>,
         NEW cs \in [Chunks -> {"QUEUED", "AWAITING", "FINISHED"}],
         \A c \in Chunks : cs[c] # chunk_states[c] => cs[c] = "FINISHED" /\ Owes(p, c),
         NEW n \in {0, 1, 2}, SelectRequest(p, cs, n)
  PROVE  /\ ChannelTypes' /\ OneRequestInFlight' /\ QuietUnlessOpen'
         /\ ChunkStateTypes' /\ ConnTypes' /\ LinkTypes' /\ stop' \in {0, 1, 2}
         /\ ChunkHeldOnce'
         /\ \A c \in Chunks : chunk_states'[c] = "FINISHED" <=> cs[c] = "FINISHED"
<1> USE DEF NetInv
<1>1. /\ req[p] = <<>> /\ Tail(inbox[p]) = <<>>
      /\ \A c : Owes(p, c) <=> Head(inbox[p]).chunk = c
  BY ReplyHeld
<1>2. conn[p] = "open"
  BY DEF QuietUnlessOpen, Quiet
<1>3. req = [req EXCEPT ![p] = <<>>]
  BY <1>1 DEF TypeOK
<1>4. \A q \in Peers, c \in Chunks : q # p /\ Owes(q, c) => cs[c] = "AWAITING"
  BY DEF ChunkHeldOnce
<1>5. CASE /\ NoneQueued(cs)
           /\ chunk_states' = cs /\ stop' = n
           /\ inbox' = [inbox EXCEPT ![p] = Tail(@)]
           /\ UNCHANGED <<conn, req, link>>
  <2>1. inbox' = [inbox EXCEPT ![p] = <<>>] /\ req' = [req EXCEPT ![p] = <<>>]
    BY <1>1, <1>3, <1>5 DEF TypeOK
  <2>2. /\ ChannelTypes' /\ OneRequestInFlight' /\ Quiet(p)'
        /\ \A q \in Peers : q # p => (Quiet(q)' <=> Quiet(q))
        /\ \A q \in Peers, c \in Chunks : Owes(q, c)' => q # p /\ Owes(q, c)
    BY <2>1, DrainStep
  <2>3. ChunkHeldOnce'
    BY <1>4, <1>5, <2>2 DEF ChunkHeldOnce
  <2>4. QuietUnlessOpen'
    BY <1>5, <2>2 DEF QuietUnlessOpen
  <2> QED
    BY <1>5, <2>2, <2>3, <2>4 DEF ChunkStateTypes, ConnTypes, LinkTypes, TypeOK
<1>6. CASE /\ \E c \in Chunks :
                /\ IsNext(cs, c)
                /\ Send(p, Msg("chunkreq", c))
                /\ chunk_states' = [cs EXCEPT ![c] = "AWAITING"]
           /\ stop' = 0
           /\ inbox' = [inbox EXCEPT ![p] = Tail(@)]
           /\ UNCHANGED conn
  <2>1. PICK d \in Chunks : /\ IsNext(cs, d)
                            /\ Send(p, Msg("chunkreq", d))
                            /\ chunk_states' = [cs EXCEPT ![d] = "AWAITING"]
    BY <1>6
  <2>2. inbox' = [inbox EXCEPT ![p] = <<>>]
    BY <1>1, <1>6 DEF TypeOK
  <2>3. LinkTypes'
    BY <2>1 DEF Send, TypeOK, LinkTypes
  <2>4. /\ ChannelTypes' /\ OneRequestInFlight'
        /\ \A q \in Peers : q # p => (Quiet(q)' <=> Quiet(q))
        /\ \A q \in Peers, c \in Chunks :
             Owes(q, c)' => IF q = p THEN c = d ELSE Owes(q, c)
    <3>1. CASE link[p] = "up"
      <4> DEFINE m == Msg("chunkreq", d)
      <4>1. m \in Request /\ m.chunk = d
        BY DEF Msg, Request
      <4>2. req' = [req EXCEPT ![p] = Append(<<>>, m)]
        BY <1>1, <2>1, <3>1 DEF Send, TypeOK
      <4> HIDE DEF m
      <4>3. /\ ChannelTypes' /\ OneRequestInFlight'
            /\ \A q \in Peers : q # p => (Quiet(q)' <=> Quiet(q))
            /\ \A q \in Peers, c \in Chunks :
                 Owes(q, c)' <=> IF q = p THEN m.chunk = c ELSE Owes(q, c)
        BY <2>2, <4>1, <4>2, PutStep
      <4> QED
        BY <4>1, <4>3
    <3>2. CASE link[p] # "up"
      <4>1. req' = [req EXCEPT ![p] = <<>>]
        BY <1>3, <2>1, <3>2 DEF Send
      <4> QED
        BY <2>2, <4>1, DrainStep
    <3> QED
      BY <3>1, <3>2
  <2>5. \A q \in Peers : q # p => ~ Owes(q, d)
    BY <1>4, <2>1 DEF IsNext
  <2>6. ChunkHeldOnce'
    BY <1>4, <2>1, <2>4, <2>5 DEF ChunkHeldOnce
  <2>7. QuietUnlessOpen'
    BY <1>2, <1>6, <2>4 DEF QuietUnlessOpen
  <2>8. /\ ChunkStateTypes'
        /\ \A c \in Chunks : chunk_states'[c] = "FINISHED" <=> cs[c] = "FINISHED"
    BY <2>1 DEF ChunkStateTypes, IsNext
  <2> QED
    BY <1>6, <2>3, <2>4, <2>6, <2>7, <2>8 DEF ConnTypes, TypeOK
<1>7. CASE /\ ~ NoneQueued(cs) /\ link[p] = "rst"
           /\ Destroy(p, "freed")
           /\ chunk_states' = cs /\ stop' = 0
  <2>1. /\ ChannelTypes' /\ OneRequestInFlight' /\ Quiet(p)'
        /\ \A q \in Peers : q # p => (Quiet(q)' <=> Quiet(q))
        /\ \A q \in Peers, c \in Chunks : Owes(q, c)' => q # p /\ Owes(q, c)
    BY <1>7, DrainStep DEF Destroy
  <2>2. ChunkHeldOnce'
    BY <1>4, <1>7, <2>1 DEF ChunkHeldOnce
  <2>3. QuietUnlessOpen'
    BY <1>7, <2>1 DEF QuietUnlessOpen, Destroy, TypeOK
  <2> QED
    BY <1>7, <2>1, <2>2, <2>3
    DEF ChunkStateTypes, ConnTypes, LinkTypes, TypeOK, Destroy
<1> QED
  BY <1>5, <1>6, <1>7 DEF SelectRequest

-----------------------------------------------------------------------------
(* Counting *)

LEMMA SubsetBounds ==
  /\ \A S \in SUBSET Chunks : IsFiniteSet(S) /\ Cardinality(S) \in 0..NChunks
  /\ \A S \in SUBSET Peers : IsFiniteSet(S) /\ Cardinality(S) \in 0..NPeers
<1>1. IsFiniteSet(Chunks) /\ Cardinality(Chunks) = NChunks
  BY FS_Interval, SizesAssumption DEF Chunks
<1>2. IsFiniteSet(Peers) /\ Cardinality(Peers) = NPeers
  BY FS_Interval, SizesAssumption DEF Peers
<1>3. ASSUME NEW S \in SUBSET Chunks
      PROVE  IsFiniteSet(S) /\ Cardinality(S) \in 0..NChunks
  BY <1>1, FS_Subset, FS_CardinalityType, SizesAssumption
<1>4. ASSUME NEW S \in SUBSET Peers
      PROVE  IsFiniteSet(S) /\ Cardinality(S) \in 0..NPeers
  BY <1>2, FS_Subset, FS_CardinalityType, SizesAssumption
<1> QED
  BY <1>3, <1>4

\* No chunk is written or one is; the count follows.
LEMMA CountKept ==
  ASSUME WrittenCame, RemainingCounts, UNCHANGED <<chunks_remaining, written>>,
         \A c \in Chunks : chunk_states[c] = "FINISHED" => chunk_states'[c] = "FINISHED",
         written \subseteq Chunks,
         pc' \in {"connect", "filereq"} => pc \in {"connect", "filereq"}
  PROVE  WrittenCame' /\ RemainingCounts'
BY DEF WrittenCame, RemainingCounts

LEMMA CountDown ==
  ASSUME WrittenCame, RemainingCounts, chunks_remaining' = chunks_remaining - 1,
         NEW d \in Chunks, chunk_states[d] # "FINISHED", written \subseteq Chunks,
         written' = written \cup {d}, pc' \notin {"connect", "filereq"},
         \A c \in Chunks : chunk_states'[c] = "FINISHED"
                             <=> c = d \/ chunk_states[c] = "FINISHED"
  PROVE  WrittenCame' /\ RemainingCounts' /\ chunks_remaining' \in 0..NChunks
<1> DEFINE U == Chunks \ written
<1>1. U' = U \ {d}
  OBVIOUS
<1>2. d \in U /\ IsFiniteSet(U)
  BY SubsetBounds DEF WrittenCame
<1>3. Cardinality(U') = Cardinality(U) - 1
  BY <1>1, <1>2, FS_RemoveElement
<1>4. Cardinality(U') \in 0..NChunks
  BY SubsetBounds
<1>5. WrittenCame'
  BY DEF WrittenCame
<1> QED
  BY <1>3, <1>4, <1>5 DEF RemainingCounts

-----------------------------------------------------------------------------
(* The initial state and the set-up *)

THEOREM InitInv == Init => IInv
<1> SUFFICES ASSUME Init PROVE IInv
  OBVIOUS
<1> USE SizesAssumption DEF Init
<1>1. TypeOK
  BY EmptySeq DEF TypeOK, Peers, Results
<1>2. OneRequestInFlight /\ QuietUnlessOpen /\ SetupQuiet
  BY EmptySeq DEF OneRequestInFlight, QuietUnlessOpen, SetupQuiet, Quiet
<1>3. ChunkHeldOnce
  BY DEF ChunkHeldOnce, Owes
<1>4. WrittenCame /\ RemainingCounts
  <2>1. Cardinality(Chunks) = NChunks /\ Chunks \ {} = Chunks
    BY FS_Interval DEF Chunks
  <2> QED
    BY <2>1 DEF WrittenCame, RemainingCounts
<1>5. ReachedCounts /\ PollSlotsFit
  <2>1. Connected = {}
    BY DEF Connected
  <2> QED
    BY <2>1, FS_EmptySet DEF ReachedCounts, PollSlotsFit
<1> QED
  BY <1>1, <1>2, <1>3, <1>4, <1>5 DEF IInv, NetInv

LEMMA ConnectPeerInv == IInv /\ ConnectPeer => IInv'
<1> SUFFICES ASSUME IInv, ConnectPeer PROVE IInv'
  OBVIOUS
<1> USE SizesAssumption DEF IInv, NetInv
<1>1. i \in Peers /\ conn[i] = "null" /\ Connected \in SUBSET Peers
  BY DEF ConnectPeer, TypeOK, Peers, SetupQuiet, Connected
<1>2. UNCHANGED <<req, inbox, link, chunk_states, chunks_remaining, written, stop, pc,
                  fds, revents, result, short>> /\ i' = i + 1 /\ pc = "connect"
  BY DEF ConnectPeer, netVars, chunkVars
<1>3. IsFiniteSet(Connected) /\ peers_reached = Cardinality(Connected)
  BY <1>1, <1>2, SubsetBounds DEF ReachedCounts
<1>4. peers_reached' = Cardinality(Connected') /\ conn' \in [Peers -> {"null", "open", "freed"}]
  <2>1. CASE conn' = [conn EXCEPT ![i] = "open"] /\ peers_reached' = peers_reached + 1
    <3>1. Connected' = Connected \cup {i} /\ i \notin Connected
      BY <1>1, <2>1 DEF Connected, TypeOK
    <3> QED
      BY <1>1, <1>3, <2>1, <3>1, FS_AddElement DEF TypeOK
  <2>2. CASE UNCHANGED <<conn, peers_reached>>
    BY <1>3, <2>2 DEF Connected, TypeOK
  <2> QED
    BY <2>1, <2>2 DEF ConnectPeer
<1>5. peers_reached' \in 0..NPeers
  <2>1. Connected' \in SUBSET Peers
    BY DEF Connected
  <2> QED
    BY <1>4, <2>1, SubsetBounds
<1>6. TypeOK'
  BY <1>1, <1>2, <1>4, <1>5 DEF TypeOK, Peers
<1>7. SetupQuiet' /\ QuietUnlessOpen' /\ OneRequestInFlight'
  <2>1. \A p \in Peers : Quiet(p)'
    BY <1>2 DEF SetupQuiet, Quiet
  <2>4. \A p \in Peers : conn'[p] # "freed"
    BY <1>2 DEF SetupQuiet, ConnectPeer, TypeOK
  <2>2. \A p \in Peers : p >= i + 1 => conn'[p] = "null"
    <3>1. \A p \in Peers : p >= i + 1 => p # i /\ conn[p] = "null"
      BY <1>1, <1>2 DEF SetupQuiet, Peers
    <3> QED
      BY <3>1 DEF ConnectPeer, TypeOK
  <2>3. OneRequestInFlight'
    BY <1>2 DEF OneRequestInFlight
  <2> QED
    BY <1>2, <2>1, <2>2, <2>3, <2>4 DEF SetupQuiet, QuietUnlessOpen
<1>8. ChunkHeldOnce'
  BY <1>2, HeldShrinks DEF Owes
<1>9. WrittenCame' /\ RemainingCounts' /\ ReachedCounts' /\ PollSlotsFit'
  BY <1>2, <1>4 DEF WrittenCame, RemainingCounts, ReachedCounts, PollSlotsFit
<1> QED
  BY <1>6, <1>7, <1>8, <1>9

LEMMA EndConnectInv == IInv /\ EndConnect => IInv'
<1> SUFFICES ASSUME IInv, EndConnect PROVE IInv'
  OBVIOUS
<1> USE SizesAssumption DEF IInv, NetInv
<1>1. /\ UNCHANGED <<req, inbox, link, conn, stop, peers_reached, fds, revents, result,
                     written, short>>
      /\ i' = 1 /\ pc = "connect" /\ pc' = "filereq"
      /\ chunk_states' = [c \in Chunks |-> "QUEUED"] /\ chunks_remaining' = NChunks
  BY DEF EndConnect, netVars
<1>2. TypeOK'
  BY <1>1 DEF TypeOK, Peers
<1>3. SetupQuiet' /\ QuietUnlessOpen' /\ OneRequestInFlight'
  BY <1>1 DEF SetupQuiet, QuietUnlessOpen, Quiet, OneRequestInFlight
<1>4. ChunkHeldOnce'
  <2>1. \A q \in Peers : req'[q] = <<>> /\ inbox'[q] = <<>>
    BY <1>1 DEF SetupQuiet, Quiet
  <2> QED
    BY <2>1 DEF ChunkHeldOnce, Owes
<1>5. WrittenCame' /\ RemainingCounts'
  <2>1. written' = {}
    BY <1>1 DEF WrittenCame
  <2>2. Cardinality(Chunks) = NChunks /\ Chunks \ {} = Chunks
    BY FS_Interval DEF Chunks
  <2> QED
    BY <1>1, <2>1, <2>2 DEF WrittenCame, RemainingCounts
<1>6. ReachedCounts' /\ PollSlotsFit'
  BY <1>1 DEF ReachedCounts, PollSlotsFit, Connected
<1> QED
  BY <1>2, <1>3, <1>4, <1>5, <1>6

LEMMA RequestFileInv == IInv /\ RequestFile => IInv'
<1> SUFFICES ASSUME IInv, RequestFile PROVE IInv'
  OBVIOUS
<1> USE SizesAssumption DEF IInv, NetInv
<1>0. i \in Peers
  BY DEF RequestFile, TypeOK, Peers
<1>a. PICK j \in Peers : j = i
  BY <1>0
<1>1. Quiet(j)
  BY <1>a DEF RequestFile, SetupQuiet, Peers
<1>2. UNCHANGED <<chunk_states, chunks_remaining, written, stop, pc,
                  fds, revents, result, short>> /\ i' = j + 1 /\ pc = "filereq"
  BY <1>a DEF RequestFile, chunkVars
<1>3. WrittenCame' /\ RemainingCounts' /\ PollSlotsFit'
  BY <1>2 DEF WrittenCame, RemainingCounts, PollSlotsFit
<1>4. \A p \in Peers : p >= i' => p # j /\ Quiet(p)
  BY <1>2, <1>a DEF SetupQuiet, Peers
<1>5. req = [req EXCEPT ![j] = <<>>] /\ inbox = [inbox EXCEPT ![j] = <<>>]
  BY <1>1 DEF Quiet, TypeOK
<1>6. \A c \in Chunks : ~ Owes(j, c)
  BY <1>1 DEF Owes, Quiet
<1>7. CASE conn[j] = "null" /\ UNCHANGED <<conn, peers_reached, netVars>>
  <2>1. TypeOK'
    BY <1>2, <1>7 DEF TypeOK, Peers, netVars
  <2>2. OneRequestInFlight' /\ QuietUnlessOpen'
    BY <1>7 DEF OneRequestInFlight, QuietUnlessOpen, Quiet, netVars
  <2>3. SetupQuiet'
    BY <1>2, <1>4, <1>7 DEF SetupQuiet, Quiet, netVars
  <2>4. ChunkHeldOnce'
    BY <1>2, <1>7, HeldShrinks DEF Owes, netVars
  <2>5. ReachedCounts'
    BY <1>2, <1>7 DEF ReachedCounts, Connected
  <2> QED
    BY <1>3, <2>1, <2>2, <2>3, <2>4, <2>5
<1>8. CASE /\ conn[j] # "null"
           /\ Send(j, Msg("filereq", NoChunk))
           /\ UNCHANGED <<conn, peers_reached, inbox>>
  <2>1. LinkTypes'
    BY <1>8 DEF Send, TypeOK, LinkTypes
  <2>2. /\ ChannelTypes' /\ OneRequestInFlight'
        /\ \A q \in Peers : q # j => (Quiet(q)' <=> Quiet(q))
        /\ \A q \in Peers, c \in Chunks : Owes(q, c)' => Owes(q, c)
    <3>1. CASE link[j] = "up"
      <4> DEFINE m == Msg("filereq", NoChunk)
      <4>1. m \in Request /\ \A c \in Chunks : m.chunk # c
        BY DEF Msg, Request, NoChunk, Chunks
      <4>2. req' = [req EXCEPT ![j] = Append(<<>>, m)]
        BY <1>1, <1>8, <3>1 DEF Send, TypeOK, Quiet
      <4> HIDE DEF m
      <4>3. inbox' = [inbox EXCEPT ![j] = <<>>]
        BY <1>5, <1>8
      <4>4. /\ ChannelTypes' /\ OneRequestInFlight'
            /\ \A q \in Peers : q # j => (Quiet(q)' <=> Quiet(q))
            /\ \A q \in Peers, c \in Chunks :
                 Owes(q, c)' <=> IF q = j THEN m.chunk = c ELSE Owes(q, c)
        BY <1>1, <4>1, <4>2, <4>3, PutStep
      <4> QED
        BY <4>1, <4>4
    <3>2. CASE link[j] # "up"
      <4>1. req' = [req EXCEPT ![j] = <<>>] /\ inbox' = [inbox EXCEPT ![j] = <<>>]
        BY <1>5, <1>8, <3>2 DEF Send
      <4> QED
        BY <1>1, <4>1, DrainStep
    <3> QED
      BY <3>1, <3>2
  <2>3. TypeOK'
    BY <1>1, <1>2, <1>8, <2>1, <2>2 DEF TypeOK, Peers, LinkTypes, ChannelTypes
  <2>4. SetupQuiet'
    BY <1>2, <1>4, <1>8, <2>2 DEF SetupQuiet
  <2>5. QuietUnlessOpen'
    <3>1. conn[j] = "open" /\ conn' = conn
      BY <1>1, <1>2, <1>8 DEF SetupQuiet, TypeOK
    <3> QED
      BY <2>2, <3>1 DEF QuietUnlessOpen
  <2>6. ChunkHeldOnce'
    BY <1>2, <2>2, HeldShrinks
  <2>7. ReachedCounts'
    BY <1>2, <1>8 DEF ReachedCounts, Connected
  <2> QED
    BY <1>3, <2>2, <2>3, <2>4, <2>5, <2>6, <2>7
<1>9. CASE /\ conn[j] # "null" /\ link[j] = "rst"
           /\ Destroy(j, "null")
           /\ peers_reached' = peers_reached - 1
  <2>1. /\ ChannelTypes' /\ OneRequestInFlight' /\ Quiet(j)'
        /\ \A q \in Peers : q # j => (Quiet(q)' <=> Quiet(q))
        /\ \A q \in Peers, c \in Chunks : Owes(q, c)' => q # j /\ Owes(q, c)
    <3>1. req' = [req EXCEPT ![j] = <<>>] /\ inbox' = [inbox EXCEPT ![j] = <<>>]
      BY <1>9 DEF Destroy
    <3> QED
      BY <1>1, <3>1, DrainStep
  <2>2. Connected' = Connected \ {j} /\ j \in Connected /\ Connected \in SUBSET Peers
    BY <1>1, <1>9 DEF Connected, Destroy, TypeOK
  <2>3. peers_reached' = Cardinality(Connected') /\ peers_reached' \in 0..NPeers
    <3>1. IsFiniteSet(Connected) /\ peers_reached = Cardinality(Connected)
      BY <1>2, <2>2, SubsetBounds DEF ReachedCounts
    <3>2. Cardinality(Connected') = Cardinality(Connected) - 1
      BY <2>2, <3>1, FS_RemoveElement
    <3>3. Connected' \in SUBSET Peers
      BY DEF Connected
    <3>4. Cardinality(Connected') \in 0..NPeers
      BY <3>3, SubsetBounds
    <3> QED
      BY <1>9, <3>1, <3>2, <3>4
  <2>4. TypeOK'
    BY <1>1, <1>2, <1>9, <2>1, <2>3 DEF TypeOK, Peers, ChannelTypes, Destroy
  <2>5. SetupQuiet'
    <3>1. \A q \in Peers : conn'[q] # "freed"
      BY <1>2, <1>9 DEF SetupQuiet, Destroy, TypeOK
    <3> QED
      BY <1>2, <1>4, <2>1, <3>1 DEF SetupQuiet
  <2>6. QuietUnlessOpen'
    <3>1. \A q \in Peers : q # j => conn'[q] = conn[q]
      BY <1>9 DEF Destroy, TypeOK
    <3> QED
      BY <2>1, <3>1 DEF QuietUnlessOpen
  <2>7. ChunkHeldOnce'
    BY <1>2, <2>1, HeldShrinks
  <2> QED
    BY <1>3, <2>1, <2>3, <2>4, <2>5, <2>6, <2>7 DEF ReachedCounts
<1> QED
  BY <1>a, <1>7, <1>8, <1>9 DEF RequestFile

LEMMA EndRequestsInv == IInv /\ EndRequests => IInv'
<1> SUFFICES ASSUME IInv, EndRequests PROVE IInv'
  OBVIOUS
<1> USE SizesAssumption DEF IInv, NetInv
<1>1. /\ UNCHANGED <<req, inbox, link, conn, stop, peers_reached, revents, i,
                     chunk_states, chunks_remaining, written, short>>
      /\ pc = "filereq" /\ pc' \in {"poll", "done"}
      /\ pc' = "poll" => fds' = Connected
      /\ fds' \in SUBSET Peers /\ result' \in Results
  BY DEF EndRequests, netVars, chunkVars, Connected, TypeOK, Results
<1>2. TypeOK'
  BY <1>1 DEF TypeOK
<1>3. SetupQuiet' /\ QuietUnlessOpen' /\ OneRequestInFlight'
  BY <1>1 DEF SetupQuiet, QuietUnlessOpen, Quiet, OneRequestInFlight
<1>4. ChunkHeldOnce'
  BY <1>1, HeldShrinks DEF Owes
<1>5. WrittenCame' /\ RemainingCounts' /\ ReachedCounts'
  BY <1>1 DEF WrittenCame, RemainingCounts, ReachedCounts
<1>6. PollSlotsFit'
  BY <1>1 DEF PollSlotsFit, ReachedCounts
<1> QED
  BY <1>2, <1>3, <1>4, <1>5, <1>6

-----------------------------------------------------------------------------
(* The poll loop *)

ScalarTypes ==
  /\ pc \in {"connect", "filereq", "poll", "done"} /\ i \in 1..(NPeers + 1)
  /\ fds \in SUBSET Peers /\ peers_reached \in 0..NPeers
  /\ revents \in [Peers -> {"none", "in", "other"}]
  /\ result \in Results /\ short \in SUBSET Peers

\* What the handler of a message may do to the loop.
WalkGoesOn == UNCHANGED <<pc, i, fds, peers_reached, result>>
Breaks == Ends("crashed") \/ Ends("astray")

\* What every step of the walk over the sockets leaves in place.
LEMMA WalkStep ==
  ASSUME IInv, NEW p \in Peers, NEW what, AtSocket(p, what),
         WalkGoesOn \/ Breaks, short' \in {short, short \cup {p}}
  PROVE  pc = "poll" /\ ScalarTypes' /\ SetupQuiet' /\ ReachedCounts' /\ PollSlotsFit'
<1>1. /\ pc = "poll" /\ pc' \in {"poll", "done"}
      /\ UNCHANGED <<i, fds, peers_reached>>
      /\ result' \in {result, "crashed", "astray"}
  BY DEF AtSocket, WalkGoesOn, Breaks, Ends
<1>2. revents' = [revents EXCEPT ![p] = "none"]
  BY DEF AtSocket
<1>3. ScalarTypes'
  BY <1>1, <1>2 DEF IInv, NetInv, TypeOK, ScalarTypes, Results
<1>4. SetupQuiet' /\ ReachedCounts'
  BY <1>1 DEF SetupQuiet, ReachedCounts
<1>5. PollSlotsFit'
  BY <1>1 DEF IInv, PollSlotsFit
<1> QED
  BY <1>1, <1>3, <1>4, <1>5

LEMMA PollInv == IInv /\ Poll => IInv'
<1> SUFFICES ASSUME IInv, Poll PROVE IInv'
  OBVIOUS
<1>1. /\ UNCHANGED <<pc, i, conn, fds, peers_reached, chunk_states, chunks_remaining,
                     written, stop, result, short, req, inbox, link>>
      /\ revents' = [p \in Peers |-> IF p \in fds THEN Reported(p) ELSE "none"]
  BY DEF Poll, loopVars, chunkVars, netVars
<1>2. TypeOK'
  BY <1>1 DEF IInv, NetInv, TypeOK, Reported
<1>3. SetupQuiet' /\ QuietUnlessOpen' /\ OneRequestInFlight'
  BY <1>1 DEF IInv, NetInv, SetupQuiet, QuietUnlessOpen, Quiet, OneRequestInFlight
<1>4. ChunkHeldOnce'
  BY <1>1, HeldShrinks DEF IInv, NetInv, Owes
<1>5. WrittenCame' /\ RemainingCounts' /\ ReachedCounts' /\ PollSlotsFit'
  BY <1>1 DEF IInv, WrittenCame, RemainingCounts, ReachedCounts, PollSlotsFit, Connected
<1> QED
  BY <1>2, <1>3, <1>4, <1>5 DEF IInv, NetInv

LEMMA FinishInv == IInv /\ (Finish \/ PollFails) => IInv'
<1> SUFFICES ASSUME IInv, Finish \/ PollFails PROVE IInv'
  OBVIOUS
<1>1. /\ UNCHANGED <<i, conn, fds, peers_reached, revents, chunk_states,
                     chunks_remaining, written, stop, short, req, inbox, link>>
      /\ pc' = "done" /\ result' \in Results
  BY DEF Finish, PollFails, Disconnect, chunkVars, netVars, Results
<1>2. TypeOK'
  BY <1>1 DEF IInv, NetInv, TypeOK
<1>3. SetupQuiet' /\ QuietUnlessOpen' /\ OneRequestInFlight'
  BY <1>1 DEF IInv, NetInv, SetupQuiet, QuietUnlessOpen, Quiet, OneRequestInFlight
<1>4. ChunkHeldOnce'
  BY <1>1, HeldShrinks DEF IInv, NetInv, Owes
<1>5. WrittenCame' /\ RemainingCounts' /\ ReachedCounts' /\ PollSlotsFit'
  BY <1>1 DEF IInv, WrittenCame, RemainingCounts, ReachedCounts, PollSlotsFit
<1> QED
  BY <1>2, <1>3, <1>4, <1>5 DEF IInv, NetInv

\* A step of the walk that drops a connection, or touches none.
LEMMA DropInv ==
  ASSUME IInv, NEW p \in Peers, NEW what, AtSocket(p, what),
         UNCHANGED loopVars \/ Breaks,
         UNCHANGED chunkVars, stop' \in {0, 1, 2},
         \/ \E how \in {"null", "freed"} : Destroy(p, how)
         \/ UNCHANGED <<conn, netVars>>
  PROVE  IInv'
<1>0. (WalkGoesOn \/ Breaks) /\ short' = short
  BY DEF loopVars, WalkGoesOn, Breaks, Ends
<1>1. pc = "poll" /\ ScalarTypes' /\ SetupQuiet' /\ ReachedCounts' /\ PollSlotsFit'
  BY <1>0, WalkStep
<1>a. pc' \notin {"connect", "filereq"}
  BY <1>0, <1>1 DEF WalkGoesOn, Breaks, Ends
<1>2. /\ WrittenCame' /\ RemainingCounts'
      /\ UNCHANGED <<chunk_states, chunks_remaining, written>>
  BY <1>a DEF IInv, WrittenCame, RemainingCounts, chunkVars
<1>3. CASE \E how \in {"null", "freed"} : Destroy(p, how)
  <2>1. PICK how \in {"null", "freed"} : Destroy(p, how)
    BY <1>3
  <2>2. req' = [req EXCEPT ![p] = <<>>] /\ inbox' = [inbox EXCEPT ![p] = <<>>]
    BY <2>1 DEF Destroy
  <2>3. /\ ChannelTypes' /\ OneRequestInFlight' /\ Quiet(p)'
        /\ \A q \in Peers : q # p => (Quiet(q)' <=> Quiet(q))
        /\ \A q \in Peers, c \in Chunks : Owes(q, c)' => q # p /\ Owes(q, c)
    BY <2>2, DrainStep DEF IInv, NetInv
  <2>4. ChunkHeldOnce'
    BY <1>2, <2>3, HeldShrinks DEF IInv, NetInv
  <2>5. QuietUnlessOpen'
    <3>1. \A q \in Peers : q # p => conn'[q] = conn[q]
      BY <2>1 DEF Destroy, IInv, NetInv, TypeOK
    <3> QED
      BY <2>3, <3>1 DEF IInv, NetInv, QuietUnlessOpen
  <2>6. TypeOK'
    BY <1>1, <1>2, <2>1, <2>3
    DEF IInv, NetInv, TypeOK, ScalarTypes, ChannelTypes, Destroy
  <2> QED
    BY <1>1, <1>2, <2>3, <2>4, <2>5, <2>6 DEF IInv, NetInv
<1>4. CASE UNCHANGED <<conn, netVars>>
  <2>1. TypeOK'
    BY <1>1, <1>2, <1>4 DEF IInv, NetInv, TypeOK, ScalarTypes, netVars
  <2>2. OneRequestInFlight' /\ QuietUnlessOpen'
    BY <1>4 DEF IInv, NetInv, OneRequestInFlight, QuietUnlessOpen, Quiet, netVars
  <2>3. ChunkHeldOnce'
    BY <1>2, <1>4, HeldShrinks DEF IInv, NetInv, Owes, netVars
  <2> QED
    BY <1>1, <1>2, <2>1, <2>2, <2>3 DEF IInv, NetInv
<1> QED
  BY <1>3, <1>4

LEMMA BadReventsInv == ASSUME IInv, NEW p \in Peers, BadRevents(p) PROVE IInv'
<1>1. AtSocket(p, "other") /\ UNCHANGED chunkVars /\ stop' = stop
  BY DEF BadRevents
<1>2. stop' \in {0, 1, 2}
  BY <1>1 DEF IInv, NetInv, TypeOK
<1>3. UNCHANGED loopVars \/ Breaks
  BY DEF BadRevents, Crash, Breaks
<1>4. (\E how \in {"null", "freed"} : Destroy(p, how)) \/ UNCHANGED <<conn, netVars>>
  BY DEF BadRevents
<1> QED
  BY <1>1, <1>2, <1>3, <1>4, DropInv

LEMMA RecvEndInv == ASSUME IInv, NEW p \in Peers, RecvEnd(p) PROVE IInv'
<1>1. /\ AtSocket(p, "in") /\ Destroy(p, "null")
      /\ UNCHANGED loopVars /\ UNCHANGED chunkVars /\ stop' = stop
  BY DEF RecvEnd
<1>2. stop' \in {0, 1, 2}
  BY <1>1 DEF IInv, NetInv, TypeOK
<1> QED
  BY <1>1, <1>2, DropInv

\* A handler that takes the message and leaves the connection as it is; what
\* comes instead is b, of no chunk.
LEMMA TakeInv ==
  ASSUME IInv, NEW p \in Peers, AtSocket(p, "in"), inbox[p] # <<>>,
         UNCHANGED <<conn, req, link>>, WalkGoesOn, short' \in {short, short \cup {p}},
         \/ inbox' = [inbox EXCEPT ![p] = Tail(@)]
         \/ inbox' = [inbox EXCEPT ![p][1] = Msg("tail", NoChunk)],
         ChunkStateTypes', stop' \in {0, 1, 2},
         UNCHANGED <<chunks_remaining, written>>,
         \A c \in Chunks : chunk_states[c] = "FINISHED" => chunk_states'[c] = "FINISHED",
         \A c \in Chunks : chunk_states'[c] # chunk_states[c] => Owes(p, c)
  PROVE  IInv'
<1>1. pc = "poll" /\ ScalarTypes' /\ SetupQuiet' /\ ReachedCounts' /\ PollSlotsFit'
  BY WalkStep
<1>2. /\ req[p] = <<>> /\ Tail(inbox[p]) = <<>> /\ Len(inbox[p]) = 1
  BY ReplyHeld DEF IInv, NetInv
<1>3. /\ ChannelTypes' /\ OneRequestInFlight'
      /\ \A q \in Peers : q # p => (Quiet(q)' <=> Quiet(q))
      /\ \A q \in Peers, c \in Chunks : Owes(q, c)' => q # p /\ Owes(q, c)
  <2>1. CASE inbox' = [inbox EXCEPT ![p] = Tail(@)]
    <3>1. req' = [req EXCEPT ![p] = <<>>]
      BY <1>2 DEF IInv, NetInv, TypeOK
    <3>2. inbox' = [inbox EXCEPT ![p] = <<>>]
      BY <1>2, <2>1
    <3> QED
      BY <3>1, <3>2, DrainStep DEF IInv, NetInv
  <2>2. CASE inbox' = [inbox EXCEPT ![p][1] = Msg("tail", NoChunk)]
    <3> DEFINE m == Msg("tail", NoChunk)
    <3>1. m \in Reply /\ \A c \in Chunks : m.chunk # c
      BY DEF Msg, Reply, NoChunk, Chunks
    <3>2. inbox[p] \in Seq(Reply)
      BY DEF IInv, NetInv, TypeOK
    <3> HIDE DEF m
    <3>3. [inbox[p] EXCEPT ![1] = m] = Append(<<>>, m)
      BY <1>2, <3>2
    <3>4. inbox' = [inbox EXCEPT ![p] = Append(<<>>, m)]
      BY <2>2, <3>3 DEF m
    <3>5. req' = [req EXCEPT ![p] = <<>>]
      BY <1>2 DEF IInv, NetInv, TypeOK
    <3>6. /\ ChannelTypes' /\ OneRequestInFlight'
          /\ \A q \in Peers : q # p => (Quiet(q)' <=> Quiet(q))
          /\ \A q \in Peers, c \in Chunks :
               Owes(q, c)' <=> IF q = p THEN m.chunk = c ELSE Owes(q, c)
      BY <3>1, <3>4, <3>5, PutStep DEF IInv, NetInv
    <3> QED
      BY <3>1, <3>6
  <2> QED
    BY <2>1, <2>2
<1>4. ChunkHeldOnce'
  BY <1>3 DEF IInv, NetInv, ChunkHeldOnce
<1>5. QuietUnlessOpen'
  <2>1. conn[p] = "open"
    BY DEF IInv, NetInv, QuietUnlessOpen, Quiet
  <2> QED
    BY <1>3, <2>1 DEF IInv, NetInv, QuietUnlessOpen
<1>6. WrittenCame' /\ RemainingCounts'
  <2>1. pc' = pc /\ written \subseteq Chunks
    BY DEF WalkGoesOn, IInv, NetInv, TypeOK
  <2> QED
    BY <2>1, CountKept DEF IInv
<1>7. TypeOK'
  BY <1>1, <1>3 DEF IInv, NetInv, TypeOK, ScalarTypes, ChannelTypes, ChunkStateTypes
<1> QED
  BY <1>1, <1>3, <1>4, <1>5, <1>6, <1>7 DEF IInv, NetInv

LEMMA LeftoverInv ==
  ASSUME IInv, NEW p \in Peers, OpChunkShort(p) \/ OpChunkCut(p) \/ OpTail(p)
  PROVE  IInv'
<1>1. AtSocket(p, "in") /\ inbox[p] # <<>> /\ UNCHANGED chunkVars
  BY DEF OpChunkShort, OpChunkCut, OpTail, Received
<1>2. stop' \in {0, 1, 2}
  BY DEF OpChunkShort, OpChunkCut, OpTail, IInv, NetInv, TypeOK
<1>3. CASE /\ WalkGoesOn /\ UNCHANGED <<conn, req, link>> /\ short' \in {short, short \cup {p}}
           /\ \/ inbox' = [inbox EXCEPT ![p] = Tail(@)]
              \/ inbox' = [inbox EXCEPT ![p][1] = Msg("tail", NoChunk)]
  <2>1. ChunkStateTypes' /\ UNCHANGED <<chunk_states, chunks_remaining, written>>
    BY <1>1 DEF IInv, NetInv, TypeOK, ChunkStateTypes, chunkVars
  <2> QED
    BY <1>1, <1>2, <1>3, <2>1, TakeInv
<1>4. CASE /\ UNCHANGED loopVars \/ Breaks
           /\ (\E how \in {"null", "freed"} : Destroy(p, how)) \/ UNCHANGED <<conn, netVars>>
  BY <1>1, <1>2, <1>4, DropInv
<1> QED
  BY <1>3, <1>4 DEF OpChunkShort, OpChunkCut, OpTail, Crash, Breaks, WalkGoesOn, loopVars

\* A handler that ends in select_request_chunk without a chunk received.
LEMMA AskInv ==
  ASSUME IInv, NEW p \in Peers, AtSocket(p, "in"), inbox[p] # <<>>,
         NEW n \in {0, 1, 2}, SelectRequest(p, chunk_states, n),
         UNCHANGED <<loopVars, chunks_remaining, written>>
  PROVE  IInv'
<1>0. WalkGoesOn /\ short' = short
  BY DEF loopVars, WalkGoesOn
<1>1. pc = "poll" /\ ScalarTypes' /\ SetupQuiet' /\ ReachedCounts' /\ PollSlotsFit'
  BY <1>0, WalkStep
<1>2. chunk_states \in [Chunks -> {"QUEUED", "AWAITING", "FINISHED"}]
  BY DEF IInv, NetInv, TypeOK
<1>3. /\ ChannelTypes' /\ OneRequestInFlight' /\ QuietUnlessOpen'
      /\ ChunkStateTypes' /\ ConnTypes' /\ LinkTypes' /\ stop' \in {0, 1, 2}
      /\ ChunkHeldOnce'
      /\ \A c \in Chunks : chunk_states'[c] = "FINISHED" <=> chunk_states[c] = "FINISHED"
  BY <1>2, SelectRequestStep DEF IInv
<1>4. WrittenCame' /\ RemainingCounts'
  <2>1. pc' = pc /\ written \subseteq Chunks
    BY <1>0 DEF WalkGoesOn, IInv, NetInv, TypeOK
  <2> QED
    BY <1>3, <2>1, CountKept DEF IInv
<1>5. TypeOK'
  BY <1>1, <1>3 DEF IInv, NetInv, TypeOK, ScalarTypes, ChannelTypes, ChunkStateTypes,
                    ConnTypes, LinkTypes
<1> QED
  BY <1>1, <1>3, <1>4, <1>5 DEF IInv, NetInv

LEMMA OpAcceptedInv == ASSUME IInv, NEW p \in Peers, OpAccepted(p) PROVE IInv'
BY AskInv DEF OpAccepted, Received

LEMMA OpBadChunkReqInv == ASSUME IInv, NEW p \in Peers, OpBadChunkReq(p) PROVE IInv'
BY AskInv DEF OpBadChunkReq, Received

LEMMA OpBadFileReqInv == ASSUME IInv, NEW p \in Peers, OpBadFileReq(p) PROVE IInv'
<1>1. WalkGoesOn /\ UNCHANGED <<short, conn, req, link, chunk_states, chunks_remaining, written>>
  BY DEF OpBadFileReq, WalkGoesOn, loopVars, chunkVars
<1>2. AtSocket(p, "in") /\ inbox[p] # <<>> /\ inbox' = [inbox EXCEPT ![p] = Tail(@)]
      /\ stop' \in {0, 1, 2}
  BY DEF OpBadFileReq, Received
<1>3. ChunkStateTypes'
  BY <1>1 DEF IInv, NetInv, TypeOK, ChunkStateTypes
<1> QED
  BY <1>1, <1>2, <1>3, TakeInv

LEMMA OpChunkInv == ASSUME IInv, NEW p \in Peers, OpChunk(p) PROVE IInv'
<1> DEFINE d  == Head(inbox[p]).chunk
           cs == [chunk_states EXCEPT ![d] = "FINISHED"]
<1>1. /\ AtSocket(p, "in") /\ inbox[p] # <<>> /\ Head(inbox[p]).op = "chunk"
      /\ SelectRequest(p, cs, 1)
      /\ chunks_remaining' = chunks_remaining - 1 /\ written' = written \cup {d}
      /\ UNCHANGED loopVars
  BY DEF OpChunk, Received
<1>0. WalkGoesOn /\ short' = short
  BY <1>1 DEF loopVars, WalkGoesOn
<1>2. pc = "poll" /\ ScalarTypes' /\ SetupQuiet' /\ ReachedCounts' /\ PollSlotsFit'
  BY <1>0, <1>1, WalkStep
<1>3. Head(inbox[p]) \in Reply /\ \A c : Owes(p, c) <=> d = c
  BY <1>1, ReplyHeld DEF IInv, NetInv
<1>4. d \in Chunks /\ Owes(p, d)
  BY <1>1, <1>3 DEF Reply
<1>5. chunk_states[d] = "AWAITING"
  BY <1>4 DEF IInv, NetInv, ChunkHeldOnce
<1> HIDE DEF d
<1>6. /\ cs \in [Chunks -> {"QUEUED", "AWAITING", "FINISHED"}]
      /\ \A c \in Chunks : cs[c] # chunk_states[c] => cs[c] = "FINISHED" /\ c = d
      /\ \A c \in Chunks : cs[c] = "FINISHED" <=> c = d \/ chunk_states[c] = "FINISHED"
  BY <1>4 DEF IInv, NetInv, TypeOK
<1> HIDE DEF cs
<1>7. /\ ChannelTypes' /\ OneRequestInFlight' /\ QuietUnlessOpen'
      /\ ChunkStateTypes' /\ ConnTypes' /\ LinkTypes' /\ stop' \in {0, 1, 2}
      /\ ChunkHeldOnce'
      /\ \A c \in Chunks : chunk_states'[c] = "FINISHED" <=> cs[c] = "FINISHED"
  BY <1>1, <1>4, <1>6, SelectRequestStep DEF IInv
<1>8. \A c \in Chunks : chunk_states'[c] = "FINISHED"
                          <=> c = d \/ chunk_states[c] = "FINISHED"
  BY <1>6, <1>7
<1>9. WrittenCame' /\ RemainingCounts' /\ chunks_remaining' \in 0..NChunks
  <2>1. written \subseteq Chunks /\ pc' \notin {"connect", "filereq"}
    BY <1>0, <1>2 DEF WalkGoesOn, IInv, NetInv, TypeOK
  <2> QED
    BY <1>1, <1>4, <1>5, <1>8, <2>1, CountDown DEF IInv
<1>10. written' \in SUBSET Chunks
  BY <1>1, <1>4 DEF IInv, NetInv, TypeOK
<1>11. TypeOK'
  BY <1>2, <1>7, <1>9, <1>10 DEF TypeOK, ScalarTypes, ChannelTypes, ChunkStateTypes,
                                 ConnTypes, LinkTypes
<1> QED
  BY <1>2, <1>7, <1>9, <1>11 DEF IInv, NetInv

LEMMA OpChunkSeekFailsInv == ASSUME IInv, NEW p \in Peers, OpChunkSeekFails(p) PROVE IInv'
<1> DEFINE d == Head(inbox[p]).chunk
<1>1. /\ AtSocket(p, "in") /\ inbox[p] # <<>> /\ Head(inbox[p]).op = "chunk"
      /\ chunk_states' = [chunk_states EXCEPT ![d] = "FINISHED"]
      /\ inbox' = [inbox EXCEPT ![p] = Tail(@)] /\ stop' = 1
      /\ WalkGoesOn /\ short' = short
      /\ UNCHANGED <<conn, chunks_remaining, written, req, link>>
  BY DEF OpChunkSeekFails, Received, WalkGoesOn, loopVars
<1>2. Head(inbox[p]) \in Reply /\ \A c : Owes(p, c) <=> d = c
  BY <1>1, ReplyHeld DEF IInv, NetInv
<1>3. d \in Chunks /\ Owes(p, d)
  BY <1>1, <1>2 DEF Reply
<1> HIDE DEF d
<1>4. /\ ChunkStateTypes'
      /\ \A c \in Chunks : chunk_states[c] = "FINISHED" => chunk_states'[c] = "FINISHED"
      /\ \A c \in Chunks : chunk_states'[c] # chunk_states[c] => c = d
  BY <1>1, <1>3 DEF IInv, NetInv, TypeOK, ChunkStateTypes
<1> QED
  BY <1>1, <1>3, <1>4, TakeInv

-----------------------------------------------------------------------------
(* The peers *)

\* A step of a peer moves messages and links only; what it leaves under way
\* was under way.
LEMMA PeerStepInv ==
  ASSUME IInv, NEW p \in Peers, conn[p] = "open", LinkTypes',
         pc # "connect" \/ UNCHANGED <<req, inbox>>,
         pc = "filereq" => (Quiet(p) => Quiet(p)'),
         UNCHANGED <<loopVars, conn, revents, chunkVars, stop>>,
         ChannelTypes', OneRequestInFlight',
         \A q \in Peers : q # p => (Quiet(q)' <=> Quiet(q)),
         \A q \in Peers, c \in Chunks : Owes(q, c)' => Owes(q, c)
  PROVE  IInv'
<1>1. /\ UNCHANGED <<pc, i, fds, peers_reached, result, short, conn, revents, chunk_states,
                     chunks_remaining, written, stop>>
  BY DEF loopVars, chunkVars
<1>2. TypeOK'
  BY <1>1 DEF IInv, NetInv, TypeOK, ChannelTypes, LinkTypes
<1>3. QuietUnlessOpen'
  BY <1>1 DEF IInv, NetInv, QuietUnlessOpen
<1>4. SetupQuiet'
  <2>1. CASE pc = "connect"
    BY <1>1, <2>1 DEF IInv, NetInv, SetupQuiet, Quiet
  <2>2. CASE pc # "connect"
    BY <1>1, <2>2 DEF IInv, NetInv, SetupQuiet
  <2> QED
    BY <2>1, <2>2
<1>5. ChunkHeldOnce'
  BY <1>1, HeldShrinks DEF IInv, NetInv
<1>6. WrittenCame' /\ RemainingCounts' /\ ReachedCounts' /\ PollSlotsFit'
  BY <1>1 DEF IInv, WrittenCame, RemainingCounts, ReachedCounts, PollSlotsFit, Connected
<1> QED
  BY <1>2, <1>3, <1>4, <1>5, <1>6 DEF IInv, NetInv

\* A request is read and answered by at most one message about its chunk.
LEMMA ReadsInv ==
  ASSUME IInv, NEW p \in Peers, NEW op, Reads(p, op),
         \/ UNCHANGED inbox
         \/ \E m \in Reply : /\ Replies1(p, m)
                             /\ m.chunk \in {NoChunk, Head(req[p]).chunk}
  PROVE  IInv'
<1>1. /\ conn[p] = "open" /\ req[p] # <<>>
      /\ req' = [req EXCEPT ![p] = Tail(@)]
      /\ UNCHANGED <<loopVars, conn, revents, chunkVars, stop, link>>
  BY DEF Reads
<1>2. /\ inbox[p] = <<>> /\ Tail(req[p]) = <<>>
      /\ \A c : Owes(p, c) <=> Head(req[p]).chunk = c
  BY <1>1, RequestHeld DEF IInv, NetInv
<1>3. LinkTypes' /\ ~ Quiet(p) /\ pc # "connect"
  BY <1>1 DEF IInv, NetInv, TypeOK, LinkTypes, Quiet, SetupQuiet
<1>4. req' = [req EXCEPT ![p] = <<>>]
  BY <1>1, <1>2
<1>5. /\ ChannelTypes' /\ OneRequestInFlight'
      /\ \A q \in Peers : q # p => (Quiet(q)' <=> Quiet(q))
      /\ \A q \in Peers, c \in Chunks : Owes(q, c)' => Owes(q, c)
  <2>1. CASE UNCHANGED inbox
    <3>1. inbox' = [inbox EXCEPT ![p] = <<>>]
      BY <1>2, <2>1 DEF IInv, NetInv, TypeOK
    <3> QED
      BY <1>4, <3>1, DrainStep DEF IInv, NetInv
  <2>2. CASE \E m \in Reply : /\ Replies1(p, m)
                              /\ m.chunk \in {NoChunk, Head(req[p]).chunk}
    <3>1. PICK m \in Reply : /\ Replies1(p, m)
                             /\ m.chunk \in {NoChunk, Head(req[p]).chunk}
      BY <2>2
    <3>2. inbox' = [inbox EXCEPT ![p] = Append(<<>>, m)]
      BY <1>2, <3>1 DEF Replies1
    <3>3. /\ ChannelTypes' /\ OneRequestInFlight'
          /\ \A q \in Peers : q # p => (Quiet(q)' <=> Quiet(q))
          /\ \A q \in Peers, c \in Chunks :
               Owes(q, c)' <=> IF q = p THEN m.chunk = c ELSE Owes(q, c)
      BY <1>4, <3>2, PutStep DEF IInv, NetInv
    <3>4. \A c \in Chunks : m.chunk = c => Owes(p, c)
      BY <1>2, <3>1 DEF NoChunk, Chunks
    <3> QED
      BY <3>3, <3>4
  <2> QED
    BY <2>1, <2>2
<1> QED
  BY <1>1, <1>3, <1>5, PeerStepInv

LEMMA PeerResumeInv == ASSUME IInv, NEW p \in Peers, PeerResume(p) PROVE IInv'
<1>1. /\ conn[p] = "open" /\ inbox[p] # <<>> /\ Head(inbox[p]).op = "partchunk"
      /\ inbox' = [inbox EXCEPT ![p][1] = Msg("chunk", Head(inbox[p]).chunk)]
      /\ UNCHANGED <<loopVars, conn, revents, chunkVars, stop, req, link>>
  BY DEF PeerResume
<1>2. /\ req[p] = <<>> /\ Len(inbox[p]) = 1 /\ Head(inbox[p]) \in Reply
      /\ \A c : Owes(p, c) <=> Head(inbox[p]).chunk = c
  BY <1>1, ReplyHeld DEF IInv, NetInv
<1>3. inbox[p] \in Seq(Reply) /\ Head(inbox[p]) = inbox[p][1]
  BY <1>2, TakeOnly DEF IInv, NetInv, TypeOK
<1> DEFINE m == Msg("chunk", Head(inbox[p]).chunk)
           b == [inbox[p] EXCEPT ![1] = m]
           e == <<>>
<1>4. m \in Reply /\ m.chunk = Head(inbox[p]).chunk
  BY <1>1, <1>2, <1>3 DEF Msg, Reply
<1>5. inbox' = [inbox EXCEPT ![p] = b]
  BY <1>1
<1>6. req' = [req EXCEPT ![p] = e]
  BY <1>1, <1>2 DEF IInv, NetInv, TypeOK
<1>7. LinkTypes' /\ ~ Quiet(p) /\ pc # "connect"
  BY <1>1 DEF IInv, NetInv, TypeOK, LinkTypes, Quiet, SetupQuiet
<1> HIDE DEF m
<1>8. b \in Seq(Reply) /\ Len(b) = 1 /\ DOMAIN b = {1} /\ b[1] = m
  BY <1>2, <1>3, <1>4
<1>9. e \in Seq(Request) /\ Len(e) = 0 /\ DOMAIN e = {}
  BY EmptySeq
<1> HIDE DEF b, e
<1>10. Len(e) + Len(b) <= 1
  BY <1>8, <1>9
<1>11. /\ ChannelTypes' /\ OneRequestInFlight'
       /\ \A q \in Peers : q # p => (Quiet(q)' <=> Quiet(q))
       /\ \A q \in Peers, c \in Chunks : q # p => (Owes(q, c)' <=> Owes(q, c))
       /\ \A c \in Chunks : Owes(p, c)' <=> \/ \E k \in DOMAIN e : e[k].chunk = c
                                            \/ \E k \in DOMAIN b : b[k].chunk = c
  BY <1>5, <1>6, <1>8, <1>9, <1>10, ChannelStep DEF IInv, NetInv
<1>12. \A q \in Peers, c \in Chunks : Owes(q, c)' => Owes(q, c)
  BY <1>2, <1>4, <1>8, <1>9, <1>11
<1> QED
  BY <1>1, <1>7, <1>11, <1>12, PeerStepInv

LEMMA PeerServesInv == ASSUME IInv, NEW p \in Peers, PeerServes(p) PROVE IInv'
<1> DEFINE accepted == Msg("accepted", NoChunk)
           badfile == Msg("badfilereq", NoChunk)
           badchunk == Msg("badchunkreq", NoChunk)
<1>1. /\ accepted \in Reply /\ badfile \in Reply /\ badchunk \in Reply
      /\ accepted.chunk = NoChunk /\ badfile.chunk = NoChunk /\ badchunk.chunk = NoChunk
  BY DEF Msg, Reply
<1>2. CASE PeerAccept(p)
  BY <1>1, <1>2, ReadsInv DEF PeerAccept
<1>3. CASE PeerBadFile(p)
  BY <1>1, <1>3, ReadsInv DEF PeerBadFile
<1>4. CASE PeerSilent(p)
  BY <1>4, ReadsInv DEF PeerSilent
<1>5. ASSUME Reads(p, "chunkreq") PROVE Head(req[p]).chunk \in Chunks
  <2>1. req[p] # <<>> /\ Head(req[p]).op = "chunkreq"
    BY <1>5 DEF Reads
  <2> QED
    BY <2>1, RequestHeld DEF IInv, NetInv, Request
<1>6. CASE PeerChunk(p)
  <2> DEFINE m == Msg("chunk", Head(req[p]).chunk)
  <2>1. m \in Reply /\ m.chunk = Head(req[p]).chunk
    BY <1>5, <1>6 DEF PeerChunk, Msg, Reply
  <2> QED
    BY <1>6, <2>1, ReadsInv DEF PeerChunk
<1>7. CASE PeerBadChunk(p)
  BY <1>1, <1>7, ReadsInv DEF PeerBadChunk
<1>8. CASE PeerStall(p)
  <2> DEFINE m == Msg("partchunk", Head(req[p]).chunk)
  <2>1. m \in Reply /\ m.chunk = Head(req[p]).chunk
    BY <1>5, <1>8 DEF PeerStall, Msg, Reply
  <2> QED
    BY <1>8, <2>1, ReadsInv DEF PeerStall
<1> QED
  BY <1>2, <1>3, <1>4, <1>6, <1>7, <1>8, PeerResumeInv DEF PeerServes

LEMMA PeerFailsInv == ASSUME IInv, NEW p \in Peers, PeerFails(p) PROVE IInv'
<1>1. /\ conn[p] = "open"
      /\ \E how \in {"fin", "rst"} : link' = [link EXCEPT ![p] = how]
      /\ req' = [req EXCEPT ![p] = <<>>] /\ inbox' = inbox
      /\ UNCHANGED <<loopVars, conn, revents, chunkVars, stop>>
  BY DEF PeerFails, PeerClose, PeerReset, Hangup
<1>2. LinkTypes'
  BY <1>1 DEF IInv, NetInv, TypeOK, LinkTypes
<1>3. pc # "connect" \/ UNCHANGED <<req, inbox>>
  BY <1>1 DEF IInv, NetInv, SetupQuiet, Quiet, TypeOK
<1>4. Quiet(p) => Quiet(p)'
  BY <1>1 DEF IInv, NetInv, Quiet, TypeOK
<1>5. CASE inbox[p] = <<>>
  <2>1. inbox' = [inbox EXCEPT ![p] = <<>>]
    BY <1>1, <1>5 DEF IInv, NetInv, TypeOK
  <2>2. /\ ChannelTypes' /\ OneRequestInFlight'
        /\ \A q \in Peers : q # p => (Quiet(q)' <=> Quiet(q))
        /\ \A q \in Peers, c \in Chunks : Owes(q, c)' => q # p /\ Owes(q, c)
    BY <1>1, <2>1, DrainStep DEF IInv, NetInv
  <2> QED
    BY <1>1, <1>2, <1>3, <1>4, <2>2, PeerStepInv
<1>6. CASE inbox[p] # <<>>
  <2>1. req[p] = <<>>
    BY <1>6, ReplyHeld DEF IInv, NetInv
  <2>2. req' = req
    BY <1>1, <2>1 DEF IInv, NetInv, TypeOK
  <2>3. /\ ChannelTypes' /\ OneRequestInFlight'
        /\ \A q \in Peers : Quiet(q)' <=> Quiet(q)
        /\ \A q \in Peers, c \in Chunks : Owes(q, c)' => Owes(q, c)
    BY <1>1, <2>2 DEF IInv, NetInv, TypeOK, ChannelTypes, OneRequestInFlight, Quiet, Owes
  <2> QED
    BY <1>1, <1>2, <1>3, <1>4, <2>3, PeerStepInv
<1> QED
  BY <1>5, <1>6

LEMMA StutterInv == IInv /\ UNCHANGED vars => IInv'
<1> SUFFICES ASSUME IInv, UNCHANGED vars PROVE IInv'
  OBVIOUS
<1>1. TypeOK'
  BY DEF IInv, NetInv, TypeOK, vars
<1>2. OneRequestInFlight' /\ QuietUnlessOpen' /\ SetupQuiet'
  BY DEF IInv, NetInv, OneRequestInFlight, QuietUnlessOpen, SetupQuiet, Quiet, vars
<1>3. ChunkHeldOnce'
  BY DEF IInv, NetInv, ChunkHeldOnce, Owes, vars
<1>4. WrittenCame' /\ RemainingCounts' /\ ReachedCounts' /\ PollSlotsFit'
  BY DEF IInv, WrittenCame, RemainingCounts, ReachedCounts, Connected, PollSlotsFit, vars
<1> QED
  BY <1>1, <1>2, <1>3, <1>4 DEF IInv, NetInv

-----------------------------------------------------------------------------
(* The invariant and what follows from it *)

\* Every step of the downloader and of the peers keeps the invariant.
THEOREM StepInv == IInv /\ [Next]_vars => IInv'
<1> SUFFICES ASSUME IInv, [Next]_vars PROVE IInv'
  OBVIOUS
<1>1. CASE ClientStep
  <2>1. ASSUME NEW p \in Peers,
               \/ BadRevents(p) \/ RecvEnd(p)
               \/ OpAccepted(p) \/ OpBadFileReq(p)
               \/ OpChunk(p) \/ OpChunkSeekFails(p) \/ OpBadChunkReq(p)
               \/ OpChunkShort(p) \/ OpChunkCut(p) \/ OpTail(p)
        PROVE  IInv'
    BY <2>1, BadReventsInv, RecvEndInv, OpAcceptedInv, OpBadFileReqInv, OpChunkInv,
       OpChunkSeekFailsInv, OpBadChunkReqInv, LeftoverInv
  <2> QED
    BY <1>1, <2>1, ConnectPeerInv, EndConnectInv, RequestFileInv, EndRequestsInv,
       PollInv, FinishInv DEF ClientStep
<1>2. CASE \E p \in Peers : PeerServes(p) \/ PeerFails(p)
  BY <1>2, PeerServesInv, PeerFailsInv
<1>3. CASE PollFails
  BY <1>3, FinishInv
<1>4. CASE Terminated \/ UNCHANGED vars
  BY <1>4, StutterInv DEF Terminated
<1> QED
  BY <1>1, <1>2, <1>3, <1>4 DEF Next

\* Nothing the peers do, or fail to do, leads the downloader out of IInv.
THEOREM Invariance == Spec => []IInv
<1>1. Init => IInv
  BY InitInv
<1>2. IInv /\ [Next]_vars => IInv'
  BY StepInv
<1> QED
  BY <1>1, <1>2, PTL DEF Spec

\* The state keeps its types: no index of the chunk table, counter or pointer
\* state leaves its range, whatever the peers do.
THEOREM TypeCorrect == Spec => []TypeOK
BY Invariance, PTL DEF IInv, NetInv

\* No request is sent to a peer before its previous answer was handled, so
\* the server's unframed recv() never sees two of them together.
THEOREM RequestsAlternate == Spec => []OneRequestInFlight
BY Invariance, PTL DEF IInv, NetInv

\* No chunk is under way from two peers, nor once it is written.
THEOREM ChunksHeldOnce == Spec => []ChunkHeldOnce
BY Invariance, PTL DEF IInv, NetInv

\* chunks_remaining is the number of chunks not given to fwrite(), so it
\* neither wraps nor reaches 0 early; on the path where fseek() fails too.
THEOREM CountIsRight == Spec => []RemainingCounts
BY Invariance, PTL DEF IInv

\* The poll set has the size it was allocated for.
THEOREM SlotsFit == Spec => []PollSlotsFit
BY Invariance, PTL DEF IInv

-----------------------------------------------------------------------------
(* Crashes *)

\* A dangling pointer, and a socket whose end was reported, belong to a
\* connection that a peer ended; nothing is reported before the first poll().
FreedEnded == \A p \in Peers : conn[p] = "freed" => link[p] # "up"
OtherEnded == \A p \in Peers :
  revents[p] = "other" => conn[p] # "open" \/ link[p] = "rst"
UnpolledYet == pc \in {"connect", "filereq"} => \A p \in Peers : revents[p] = "none"

\* What is to be read as opcodes follows a header that came in parts.
TailsShort == \A p \in Peers :
  inbox[p] # <<>> /\ Head(inbox[p]).op = "tail" => p \in short

EndInv == FreedEnded /\ OtherEnded /\ UnpolledYet /\ TailsShort /\ CrashNeedsLostPeer

\* A connection that ended stays ended, and a crash keeps its cause.
LEMMA EndsLast ==
  ASSUME IInv, EndInv,
         \A p \in Peers : link[p] # "up" => link'[p] # "up",
         \A p \in Peers : conn'[p] = "freed" => conn[p] = "freed" \/ link'[p] # "up",
         short \subseteq short',
         result' # result => \/ result' \notin {"crashed", "astray"}
                             \/ short # {} \/ \E p \in Peers : link[p] # "up"
  PROVE  FreedEnded' /\ CrashNeedsLostPeer'
<1>1. FreedEnded'
  BY DEF EndInv, FreedEnded
<1>2. CrashNeedsLostPeer'
  BY DEF EndInv, CrashNeedsLostPeer
<1> QED
  BY <1>1, <1>2

LEMMA SetupEnds ==
  ASSUME IInv, EndInv, ConnectPeer \/ EndConnect \/ RequestFile \/ EndRequests
  PROVE  EndInv'
<1>1. /\ pc \in {"connect", "filereq"} /\ revents' = revents /\ short' = short
      /\ result' # result => result' = "unreached"
  BY DEF ConnectPeer, EndConnect, RequestFile, EndRequests
<1>2. \A p \in Peers : revents'[p] = "none"
  BY <1>1 DEF EndInv, UnpolledYet
<1>3. OtherEnded' /\ UnpolledYet'
  BY <1>2 DEF OtherEnded, UnpolledYet
<1>4. \A p \in Peers : link[p] # "up" => link'[p] # "up"
  BY DEF ConnectPeer, EndConnect, RequestFile, EndRequests, Send, Destroy, netVars,
         IInv, NetInv, TypeOK
<1>5. \A p \in Peers : conn'[p] = "freed" => conn[p] = "freed"
  BY DEF ConnectPeer, EndConnect, RequestFile, EndRequests, Destroy, IInv, NetInv, TypeOK
<1>6. TailsShort'
  <2>1. \A p \in Peers : inbox'[p] \in {inbox[p], <<>>}
    BY DEF ConnectPeer, EndConnect, RequestFile, EndRequests, Destroy, netVars,
           IInv, NetInv, TypeOK
  <2> QED
    BY <1>1, <2>1 DEF EndInv, TailsShort
<1> QED
  BY <1>1, <1>3, <1>4, <1>5, <1>6, EndsLast DEF EndInv

LEMMA LoopEnds == ASSUME IInv, EndInv, Poll \/ Finish \/ PollFails PROVE EndInv'
<1>1. /\ UNCHANGED <<link, conn, inbox, short>> /\ pc = "poll" /\ pc' \in {"poll", "done"}
      /\ revents' = revents \/ Poll
  BY DEF Poll, Finish, PollFails, Disconnect, netVars, loopVars
<1>2. UnpolledYet'
  BY <1>1 DEF UnpolledYet
<1>3. OtherEnded'
  <2>1. CASE revents' = revents
    BY <1>1, <2>1 DEF EndInv, OtherEnded
  <2>2. CASE Poll
    BY <1>1, <2>2 DEF Poll, OtherEnded, Reported
  <2> QED
    BY <1>1, <2>1, <2>2
<1>4. result' # result => \/ result' \notin {"crashed", "astray"}
                          \/ \E p \in Peers : link[p] # "up"
  BY DEF Poll, Finish, PollFails, Disconnect, loopVars, EndInv, FreedEnded
<1>5. TailsShort'
  BY <1>1 DEF EndInv, TailsShort
<1> QED
  BY <1>1, <1>2, <1>3, <1>4, <1>5, EndsLast DEF EndInv

\* A step of the walk that handles what was reported of p.
LEMMA WalkEnds ==
  ASSUME IInv, EndInv, NEW p \in Peers, NEW what, AtSocket(p, what),
         WalkGoesOn \/ (Breaks /\ (link[p] # "up" \/ p \in short)),
         \/ inbox' = [inbox EXCEPT ![p] = <<>>] /\ short' = short
         \/ inbox' = inbox /\ short' = short
         \/ (\E b : inbox' = [inbox EXCEPT ![p] = b]) /\ short' = short \cup {p},
         UNCHANGED conn
           \/ conn' = [conn EXCEPT ![p] = "null"]
           \/ (conn' = [conn EXCEPT ![p] = "freed"] /\ link[p] # "up"),
         UNCHANGED link \/ (link[p] = "fin" /\ link' = [link EXCEPT ![p] = "rst"])
  PROVE  EndInv'
<1>1. /\ pc = "poll" /\ pc' \in {"poll", "done"}
      /\ result' # result => link[p] # "up" \/ p \in short
      /\ revents' = [revents EXCEPT ![p] = "none"]
  BY DEF AtSocket, Breaks, Ends, WalkGoesOn
<1>2. UnpolledYet'
  BY <1>1 DEF UnpolledYet
<1>3. \A q \in Peers : q # p =>
        conn'[q] = conn[q] /\ link'[q] = link[q] /\ revents'[q] = revents[q]
  BY <1>1 DEF IInv, NetInv, TypeOK
<1>4. revents'[p] = "none"
  BY <1>1 DEF IInv, NetInv, TypeOK
<1>5. OtherEnded'
  BY <1>3, <1>4 DEF EndInv, OtherEnded
<1>6. \A q \in Peers : link[q] # "up" => link'[q] # "up"
  BY DEF IInv, NetInv, TypeOK
<1>7. \A q \in Peers : conn'[q] = "freed" => conn[q] = "freed" \/ link'[q] # "up"
  BY <1>3, <1>6 DEF IInv, NetInv, TypeOK
<1>8. TailsShort' /\ short \subseteq short'
  <2>1. \A q \in Peers : q # p => inbox'[q] = inbox[q]
    BY DEF IInv, NetInv, TypeOK
  <2>2. inbox'[p] \in {inbox[p], <<>>} \/ p \in short'
    BY DEF IInv, NetInv, TypeOK
  <2> QED
    BY <2>1, <2>2 DEF EndInv, TailsShort
<1> QED
  BY <1>1, <1>2, <1>5, <1>6, <1>7, <1>8, EndsLast DEF EndInv

\* Each handler frees a connection, or meets one freed, only when it ended.
LEMMA HandlersEnd ==
  ASSUME IInv, EndInv, NEW p \in Peers,
         \/ BadRevents(p) \/ RecvEnd(p)
         \/ OpAccepted(p) \/ OpBadFileReq(p)
         \/ OpChunk(p) \/ OpChunkSeekFails(p) \/ OpBadChunkReq(p)
         \/ OpChunkShort(p) \/ OpChunkCut(p) \/ OpTail(p)
  PROVE  EndInv'
<1>0. inbox[p] # <<>> => Tail(inbox[p]) = <<>>
  BY ReplyHeld DEF IInv, NetInv
<1>1. CASE BadRevents(p)
  <2>1. AtSocket(p, "other") /\ revents[p] = "other"
    BY <1>1 DEF BadRevents, AtSocket
  <2>2. conn[p] # "null" => link[p] # "up"
    BY <2>1 DEF EndInv, OtherEnded, FreedEnded, IInv, NetInv, TypeOK
  <2>3. /\ WalkGoesOn \/ (Breaks /\ link[p] # "up")
        /\ short' = short
        /\ inbox' = [inbox EXCEPT ![p] = <<>>] \/ inbox' = inbox
    BY <1>1, <2>2 DEF BadRevents, Crash, Breaks, Ends, WalkGoesOn, loopVars, Destroy, netVars
  <2>4. /\ link' = link
        /\ \/ UNCHANGED conn
           \/ conn' = [conn EXCEPT ![p] = "freed"] /\ link[p] # "up"
    BY <1>1, <2>2 DEF BadRevents, Destroy, netVars
  <2> QED
    BY <2>1, <2>3, <2>4, WalkEnds
<1>2. CASE RecvEnd(p)
  BY <1>2, WalkEnds DEF RecvEnd, Destroy, WalkGoesOn, loopVars
<1>3. CASE OpBadFileReq(p) \/ OpChunkSeekFails(p)
  <2>1. /\ AtSocket(p, "in") /\ WalkGoesOn /\ UNCHANGED <<conn, link, short>>
        /\ inbox' = [inbox EXCEPT ![p] = <<>>]
    BY <1>0, <1>3 DEF OpBadFileReq, OpChunkSeekFails, Received, WalkGoesOn, loopVars
  <2> QED
    BY <2>1, WalkEnds
<1>4. CASE OpChunkShort(p)
  <2>1. /\ AtSocket(p, "in") /\ WalkGoesOn /\ UNCHANGED <<conn, link>>
        /\ short' = short \cup {p}
    BY <1>4 DEF OpChunkShort, Received, WalkGoesOn
  <2>2. \E b : inbox' = [inbox EXCEPT ![p] = b]
    BY <1>4 DEF OpChunkShort
  <2> QED
    BY <2>1, <2>2, WalkEnds
<1>5. CASE OpChunkCut(p)
  <2>1. /\ AtSocket(p, "in") /\ link[p] # "up" /\ link' = link /\ short' = short
        /\ WalkGoesOn \/ Breaks
        /\ conn' = conn \/ conn' = [conn EXCEPT ![p] = "freed"]
        /\ inbox' = inbox \/ inbox' = [inbox EXCEPT ![p] = <<>>]
    BY <1>0, <1>5 DEF OpChunkCut, Received, Destroy, Crash, Breaks, Ends, WalkGoesOn, loopVars,
                      netVars
  <2> QED
    BY <2>1, WalkEnds
<1>6. CASE OpTail(p)
  <2>1. p \in short
    BY <1>6 DEF OpTail, Received, EndInv, TailsShort
  <2>2. /\ AtSocket(p, "in") /\ UNCHANGED <<link, conn, short>>
        /\ WalkGoesOn \/ Breaks
        /\ inbox' = inbox \/ inbox' = [inbox EXCEPT ![p] = <<>>]
    BY <1>0, <1>6 DEF OpTail, Received, Breaks, Ends, WalkGoesOn, loopVars, netVars
  <2> QED
    BY <2>1, <2>2, WalkEnds
<1>7. ASSUME NEW cs, NEW n, SelectRequest(p, cs, n), AtSocket(p, "in"), inbox[p] # <<>>,
             UNCHANGED loopVars
      PROVE  EndInv'
  <2>1. \/ UNCHANGED conn
        \/ conn' = [conn EXCEPT ![p] = "freed"] /\ link[p] # "up"
    BY <1>7 DEF SelectRequest, Destroy
  <2>2. UNCHANGED link \/ (link[p] = "fin" /\ link' = [link EXCEPT ![p] = "rst"])
    BY <1>7 DEF SelectRequest, Destroy, Send
  <2>3. /\ inbox' = [inbox EXCEPT ![p] = <<>>] /\ WalkGoesOn /\ short' = short
    BY <1>0, <1>7 DEF SelectRequest, Destroy, WalkGoesOn, loopVars
  <2> QED
    BY <1>7, <2>1, <2>2, <2>3, WalkEnds
<1>8. CASE OpAccepted(p) \/ OpChunk(p) \/ OpBadChunkReq(p)
  BY <1>7, <1>8 DEF OpAccepted, OpChunk, OpBadChunkReq, Received
<1> QED
  BY <1>1, <1>2, <1>3, <1>4, <1>5, <1>6, <1>8

\* A peer sends nothing that is to be read as opcodes.
LEMMA PeersSend ==
  ASSUME IInv, NEW p \in Peers, PeerServes(p) \/ PeerFails(p)
  PROVE  /\ \A q \in Peers : q # p => inbox'[q] = inbox[q]
         /\ inbox'[p] = inbox[p] \/ Head(inbox'[p]).op # "tail"
<1>1. inbox \in [Peers -> Seq(Reply)]
  BY DEF IInv, NetInv, TypeOK
<1>2. CASE PeerSilent(p) \/ PeerFails(p)
  BY <1>2 DEF PeerSilent, PeerFails, PeerClose, PeerReset, Hangup
<1>3. CASE PeerResume(p)
  <2> DEFINE m == Msg("chunk", Head(inbox[p]).chunk)
             b == [inbox[p] EXCEPT ![1] = m]
  <2>1. inbox' = [inbox EXCEPT ![p] = b] /\ inbox[p] # <<>>
    BY <1>3 DEF PeerResume
  <2>2. inbox[p] \in Seq(Reply) /\ Len(inbox[p]) = 1
    BY <1>1, <2>1, ReplyHeld DEF IInv, NetInv
  <2>3. Head(b) = m
    BY <2>2, TakeOnly
  <2>4. m.op # "tail"
    BY DEF Msg
  <2> HIDE DEF m, b
  <2> QED
    BY <1>1, <2>1, <2>3, <2>4
<1>4. CASE PeerAccept(p) \/ PeerBadFile(p) \/ PeerChunk(p) \/ PeerBadChunk(p) \/ PeerStall(p)
  <2>1. inbox[p] = <<>>
    <3>1. req[p] # <<>>
      BY <1>4 DEF PeerAccept, PeerBadFile, PeerChunk, PeerBadChunk, PeerStall, Reads
    <3> QED
      BY <3>1, RequestHeld DEF IInv, NetInv
  <2>2. PICK m : inbox' = [inbox EXCEPT ![p] = Append(@, m)] /\ m.op # "tail"
    BY <1>4 DEF PeerAccept, PeerBadFile, PeerChunk, PeerBadChunk, PeerStall, Replies1, Msg
  <2> DEFINE b == <<m>>
  <2>3. inbox' = [inbox EXCEPT ![p] = b]
    BY <1>1, <2>1, <2>2
  <2>4. Head(b) = m
    OBVIOUS
  <2> HIDE DEF b
  <2> QED
    BY <1>1, <2>2, <2>3, <2>4
<1> QED
  BY <1>2, <1>3, <1>4 DEF PeerServes

LEMMA PeersEnd ==
  ASSUME IInv, EndInv, NEW p \in Peers, PeerServes(p) \/ PeerFails(p) PROVE EndInv'
<1>1. /\ UNCHANGED <<pc, conn, revents, result, short>>
      /\ UNCHANGED link \/ \E how \in {"fin", "rst"} : link[p] = "up"
                                                  /\ link' = [link EXCEPT ![p] = how]
  BY DEF PeerServes, PeerAccept, PeerBadFile, PeerSilent, PeerChunk, PeerBadChunk, PeerStall,
         PeerResume, Reads, PeerFails, PeerClose, PeerReset, Hangup, loopVars
<1>2. /\ \A q \in Peers : link[q] # "up" => link'[q] # "up"
      /\ \A q \in Peers : link[q] = "rst" => link'[q] = "rst"
  BY <1>1 DEF IInv, NetInv, TypeOK
<1>3. OtherEnded' /\ UnpolledYet'
  BY <1>1, <1>2 DEF EndInv, OtherEnded, UnpolledYet
<1>4. TailsShort'
  BY <1>1, PeersSend DEF EndInv, TailsShort
<1> QED
  BY <1>1, <1>2, <1>3, <1>4, EndsLast DEF EndInv

LEMMA StepEnds == IInv /\ EndInv /\ [Next]_vars => EndInv'
<1> SUFFICES ASSUME IInv, EndInv, [Next]_vars PROVE EndInv'
  OBVIOUS
<1>1. CASE ClientStep
  BY <1>1, SetupEnds, LoopEnds, HandlersEnd DEF ClientStep
<1>2. CASE \E p \in Peers : PeerServes(p) \/ PeerFails(p)
  BY <1>2, PeersEnd
<1>3. CASE PollFails
  BY <1>3, LoopEnds
<1>4. CASE Terminated \/ UNCHANGED vars
  BY <1>4 DEF Terminated, vars, EndInv, FreedEnded, OtherEnded, UnpolledYet, TailsShort,
              CrashNeedsLostPeer
<1> QED
  BY <1>1, <1>2, <1>3, <1>4 DEF Next

LEMMA EndInvariance == Spec => []EndInv
<1>1. Init => EndInv
  BY DEF Init, EndInv, FreedEnded, OtherEnded, UnpolledYet, TailsShort, CrashNeedsLostPeer
<1> QED
  BY <1>1, StepEnds, Invariance, PTL DEF Spec

\* Peers that refuse, stay silent or are out of reach never crash the
\* downloader or lead it astray, nor do a full disk and a failing poll():
\* nfc_destroy meets a freed connection, and op_chunk a cleared one, only after
\* some peer has ended its connection, and bytes of a file are taken for a
\* message only after that or after a header that came in parts.
THEOREM CrashesNeedLostPeers == Spec => []CrashNeedsLostPeer
BY EndInvariance, PTL DEF EndInv

-----------------------------------------------------------------------------
(* The decision to stop *)

\* With no chunk queued, no handler that selects the next chunk clears stop.
LEMMA SelectKeepsStop ==
  ASSUME NEW p \in Peers, NEW cs, NoneQueued(cs), NEW n \in {1, 2}, SelectRequest(p, cs, n)
  PROVE  stop' # 0
BY DEF SelectRequest, NoneQueued, IsNext

\* A handler's decision to stop for want of chunks stands, whatever the
\* handlers after it in the walk find, unless one meets a chunk of which only a
\* part has come.
THEOREM StopStands == Spec => StopSticks
<1>1. ASSUME IInv, [Next]_vars, stop # 0, NoneQueued(chunk_states),
             \A p \in Peers : ~ Received(p, "partchunk")
      PROVE  stop' # 0
  <2>1. CASE stop' = stop
    BY <1>1, <2>1
  <2>2. ASSUME NEW p \in Peers, OpAccepted(p) \/ OpBadChunkReq(p) PROVE stop' # 0
    BY <1>1, <2>2, SelectKeepsStop DEF OpAccepted, OpBadChunkReq
  <2>3. ASSUME NEW p \in Peers, OpChunk(p) PROVE stop' # 0
    <3> DEFINE cs == [chunk_states EXCEPT ![Head(inbox[p]).chunk] = "FINISHED"]
    <3>1. NoneQueued(cs)
      BY <1>1 DEF NoneQueued, IInv, NetInv, TypeOK
    <3>2. SelectRequest(p, cs, 1)
      BY <2>3 DEF OpChunk
    <3> HIDE DEF cs
    <3> QED
      BY <3>1, <3>2, SelectKeepsStop
  <2>4. ASSUME NEW p \in Peers, OpBadFileReq(p) \/ OpChunkSeekFails(p) PROVE stop' # 0
    BY <2>4 DEF OpBadFileReq, OpChunkSeekFails
  <2>5. ASSUME NEW p \in Peers, BadRevents(p) \/ RecvEnd(p) \/ OpTail(p) PROVE stop' = stop
    BY <2>5 DEF BadRevents, RecvEnd, OpTail
  <2>6. \A p \in Peers : ~ OpChunkCut(p) /\ ~ OpChunkShort(p)
    BY <1>1 DEF OpChunkCut, OpChunkShort
  <2>7. CASE \/ ConnectPeer \/ EndConnect \/ RequestFile \/ EndRequests
             \/ Poll \/ Finish \/ PollFails
    BY <2>7, <2>1 DEF ConnectPeer, EndConnect, RequestFile, EndRequests, Poll, Finish,
                      PollFails, Disconnect
  <2>8. CASE ClientStep
    BY <2>1, <2>2, <2>3, <2>4, <2>5, <2>6, <2>7, <2>8 DEF ClientStep
  <2>9. ASSUME NEW p \in Peers, PeerServes(p) \/ PeerFails(p) PROVE stop' = stop
    BY <2>9 DEF PeerServes, PeerAccept, PeerBadFile, PeerSilent, PeerChunk, PeerBadChunk,
                PeerStall, PeerResume, Reads, PeerFails, PeerClose, PeerReset, Hangup
  <2>10. CASE Terminated \/ UNCHANGED vars
    BY <2>1, <2>10 DEF Terminated, vars
  <2> QED
    BY <1>1, <2>1, <2>7, <2>8, <2>9, <2>10 DEF Next
<1>2. IInv /\ [Next]_vars =>
        [stop # 0 /\ NoneQueued(chunk_states) /\ (\A p \in Peers : ~ Received(p, "partchunk"))
           => stop' # 0]_vars
  BY <1>1
<1> QED
  BY <1>2, Invariance, PTL DEF Spec, StopSticks

-----------------------------------------------------------------------------
(* The downloader implements ChunkTransfer.                                *)

\* result is set by the step that returns.
OutcomeOpen == pc # "done" <=> result = "none"

NothingAskedYet ==
  pc \in {"connect", "filereq"} => \A c \in Chunks : chunk_states[c] = "QUEUED"

RefusalsAllowed == \A p \in Peers :
  inbox[p] # <<>> /\ Head(inbox[p]).op = "badfilereq" => "badfile" \in Faults

GivesUp == "badfile" \in Faults \/ "diskfull" \in Faults

StopExplained == stop # 0 => NoneQueued(chunk_states) \/ GivesUp

RInv == OutcomeOpen /\ NothingAskedYet /\ RefusalsAllowed /\ StopExplained /\ Sequential

Asked == {c \in Chunks : chunk_states[c] # "QUEUED"}
Got   == {c \in Chunks : chunk_states[c] = "FINISHED"}

\* What ChunkTransfer allows for a step, in terms of Asked and Got.
AskNext == \E c \in Chunks : Asked = 0..(c - 1) /\ Asked' = Asked \cup {c}

TransferStep ==
  \/ UNCHANGED <<Asked, Got, result>>
  \/ result = "none" /\ AskNext /\ UNCHANGED <<Got, result>>
  \/ /\ result = "none" /\ UNCHANGED result
     /\ \E c \in Asked \ Got : Got' = Got \cup {c}
     /\ AskNext \/ UNCHANGED Asked
  \/ /\ result = "none" /\ UNCHANGED <<Asked, Got>>
     /\ \/ result' \in {"crashed", "astray", "pollfailed"}
        \/ result' = "unreached" /\ Asked = {}
        \/ result' = "downloaded" /\ (Asked = Chunks \/ GivesUp)

LEMMA TransferStepMaps ==
  ASSUME TransferStep PROVE [Transfer!TransferNext]_(Transfer!tvars)
BY DEF TransferStep, AskNext, Asked, Got, GivesUp, Chunks, Transfer!TransferNext, Transfer!tvars,
       Transfer!Ask, Transfer!Obtain, Transfer!Return, Transfer!AskNext

-----------------------------------------------------------------------------
(* Kinds of steps *)

\* What the peers and the sockets do to the replies under way.
LEMMA InboxStep ==
  ASSUME RefusalsAllowed, inbox \in [Peers -> Seq(Reply)], NEW p \in Peers, NEW b,
         inbox' = [inbox EXCEPT ![p] = b],
         b # <<>> /\ Head(b).op = "badfilereq" => "badfile" \in Faults
  PROVE  RefusalsAllowed'
BY DEF RefusalsAllowed

\* A step that neither asks for nor obtains a chunk, nor returns.
LEMMA PlainStep ==
  ASSUME RInv, RefusalsAllowed', UNCHANGED <<chunk_states, result>>,
         pc' = "done" <=> pc = "done",
         pc' \in {"connect", "filereq"} => pc \in {"connect", "filereq"},
         stop' \in {stop, 0} \/ GivesUp
  PROVE  RInv' /\ TransferStep
<1>1. OutcomeOpen' /\ NothingAskedYet' /\ StopExplained' /\ Sequential'
  BY DEF RInv, OutcomeOpen, NothingAskedYet, StopExplained, Sequential, NoneQueued
<1>2. TransferStep
  BY DEF TransferStep, Asked, Got
<1> QED
  BY <1>1, <1>2 DEF RInv

\* A step that returns.
LEMMA ReturnStep ==
  ASSUME RInv, RefusalsAllowed', UNCHANGED chunk_states, pc # "done", pc' = "done",
         stop' = stop,
         \/ result' \in {"crashed", "astray", "pollfailed"}
         \/ result' = "unreached" /\ pc = "filereq"
         \/ result' = "downloaded" /\ stop # 0
  PROVE  RInv' /\ TransferStep
<1>1. result = "none" /\ result' # "none"
  BY DEF RInv, OutcomeOpen
<1>2. OutcomeOpen' /\ NothingAskedYet' /\ StopExplained' /\ Sequential'
  BY <1>1 DEF RInv, OutcomeOpen, NothingAskedYet, StopExplained, Sequential, NoneQueued
<1>3. UNCHANGED <<Asked, Got>>
  BY DEF Asked, Got
<1>4. pc = "filereq" => Asked = {}
  BY DEF RInv, NothingAskedYet, Asked
<1>5. stop # 0 => Asked = Chunks \/ GivesUp
  BY DEF RInv, StopExplained, NoneQueued, Asked
<1> QED
  BY <1>1, <1>2, <1>3, <1>4, <1>5 DEF RInv, TransferStep

\* When the next chunk is c, those asked for are the ones before it.
LEMMA NextChunk ==
  ASSUME NEW cs, \A x, y \in Chunks : x < y /\ cs[x] = "QUEUED" => cs[y] = "QUEUED",
         NEW c \in Chunks, IsNext(cs, c)
  PROVE  {x \in Chunks : cs[x] # "QUEUED"} = 0..(c - 1)
<1>1. ASSUME NEW x \in Chunks PROVE cs[x] # "QUEUED" <=> x < c
  BY <1>1, SizesAssumption DEF IsNext, Chunks
<1>2. \A x \in 0..(c - 1) : x \in Chunks /\ x < c
  BY SizesAssumption DEF Chunks
<1>3. \A x \in Chunks : x < c => x \in 0..(c - 1)
  BY SizesAssumption DEF Chunks
<1> QED
  BY <1>1, <1>2, <1>3

\* select_request_chunk either changes nothing else, or asks for the next chunk.
LEMMA SelectRequestMaps ==
  ASSUME IInv, RInv, NEW p \in Peers, inbox[p] # <<>>, pc = "poll",
         NEW cs \in [Chunks -> {"QUEUED", "AWAITING", "FINISHED"}],
         \A c \in Chunks : cs[c] = "QUEUED" <=> chunk_states[c] = "QUEUED",
         NEW n \in {0, 1, 2}, SelectRequest(p, cs, n), UNCHANGED loopVars
  PROVE  /\ RInv'
         /\ AskNext \/ UNCHANGED Asked
         /\ Got' = {c \in Chunks : cs[c] = "FINISHED"}
<1>1. Tail(inbox[p]) = <<>> /\ inbox \in [Peers -> Seq(Reply)]
  BY ReplyHeld DEF IInv, NetInv, TypeOK
<1>2. inbox' = [inbox EXCEPT ![p] = <<>>]
  BY <1>1 DEF SelectRequest, Destroy
<1>3. RefusalsAllowed'
  BY <1>1, <1>2, InboxStep DEF RInv
<1>4. OutcomeOpen' /\ NothingAskedYet'
  BY DEF RInv, OutcomeOpen, NothingAskedYet, loopVars
<1>5. \A x, y \in Chunks : x < y /\ cs[x] = "QUEUED" => cs[y] = "QUEUED"
  BY DEF RInv, Sequential
<1>6. CASE chunk_states' = cs /\ (NoneQueued(cs) \/ stop' = 0)
  <2>1. Sequential' /\ StopExplained'
    BY <1>5, <1>6 DEF Sequential, StopExplained, NoneQueued
  <2>2. UNCHANGED Asked /\ Got' = {c \in Chunks : cs[c] = "FINISHED"}
    BY <1>6 DEF Asked, Got
  <2> QED
    BY <1>3, <1>4, <2>1, <2>2 DEF RInv
<1>7. CASE \E c \in Chunks : /\ IsNext(cs, c) /\ stop' = 0
                             /\ chunk_states' = [cs EXCEPT ![c] = "AWAITING"]
  <2>1. PICK d \in Chunks : /\ IsNext(cs, d) /\ stop' = 0
                            /\ chunk_states' = [cs EXCEPT ![d] = "AWAITING"]
    BY <1>7
  <2>2. Asked = 0..(d - 1)
    BY <1>5, <2>1, NextChunk DEF Asked
  <2>3. \A x \in Chunks : /\ chunk_states'[x] = "QUEUED" <=> x # d /\ cs[x] = "QUEUED"
                          /\ chunk_states'[x] = "FINISHED" <=> cs[x] = "FINISHED"
    BY <2>1 DEF IsNext
  <2>4. Asked' = Asked \cup {d} /\ Got' = {c \in Chunks : cs[c] = "FINISHED"}
    BY <2>3 DEF Asked, Got
  <2>5. \A x \in Chunks : x < d => cs[x] # "QUEUED"
    BY <2>1 DEF IsNext
  <2>6. \A x \in Chunks : x < d => x \in Asked
    BY <2>5 DEF Asked
  <2>7. Sequential'
    <3> SUFFICES ASSUME NEW x \in Chunks, NEW y \in Chunks, x < y,
                        chunk_states'[x] = "QUEUED"
                 PROVE  chunk_states'[y] = "QUEUED"
      BY DEF Sequential
    <3>1. x # d /\ cs[x] = "QUEUED" /\ cs[y] = "QUEUED"
      BY <1>5, <2>3
    <3>2. y # d
      BY <2>5, <3>1
    <3> QED
      BY <2>3, <3>1, <3>2
  <2>8. StopExplained'
    BY <2>1 DEF StopExplained
  <2> QED
    BY <1>3, <1>4, <2>1, <2>2, <2>4, <2>7, <2>8 DEF RInv, AskNext
<1> QED
  BY <1>6, <1>7 DEF SelectRequest, Destroy

-----------------------------------------------------------------------------
(* The steps of the downloader *)

LEMMA SetupMaps ==
  ASSUME IInv, RInv, ConnectPeer \/ EndConnect \/ RequestFile \/ EndRequests
  PROVE  RInv' /\ TransferStep
<1>1. CASE ConnectPeer
  <2>1. RefusalsAllowed'
    BY <1>1 DEF ConnectPeer, netVars, RInv, RefusalsAllowed
  <2> QED
    BY <1>1, <2>1, PlainStep DEF ConnectPeer, chunkVars
<1>2. CASE EndConnect
  <2>1. RefusalsAllowed'
    BY <1>2 DEF EndConnect, netVars, RInv, RefusalsAllowed
  <2>2. chunk_states' = chunk_states
    BY <1>2 DEF EndConnect, RInv, NothingAskedYet, IInv, NetInv, TypeOK
  <2> QED
    BY <1>2, <2>1, <2>2, PlainStep DEF EndConnect
<1>3. CASE RequestFile
  <2>1. /\ UNCHANGED <<pc, chunk_states, stop, result>>
        /\ inbox' = inbox \/ inbox' = [inbox EXCEPT ![i] = <<>>]
    BY <1>3 DEF RequestFile, Destroy, netVars, chunkVars
  <2>2. RefusalsAllowed'
    BY <2>1, <1>3 DEF RInv, RefusalsAllowed, IInv, NetInv, TypeOK
  <2> QED
    BY <2>1, <2>2, PlainStep
<1>4. CASE EndRequests
  <2>1. RefusalsAllowed'
    BY <1>4 DEF EndRequests, netVars, RInv, RefusalsAllowed
  <2>2. /\ pc = "filereq" /\ UNCHANGED <<chunk_states, stop>>
        /\ \/ pc' = "done" /\ result' = "unreached"
           \/ pc' = "poll" /\ result' = result
    BY <1>4 DEF EndRequests, chunkVars
  <2> QED
    BY <2>1, <2>2, PlainStep, ReturnStep
<1> QED
  BY <1>1, <1>2, <1>3, <1>4

LEMMA LoopMaps ==
  ASSUME IInv, RInv, Poll \/ Finish \/ PollFails PROVE RInv' /\ TransferStep
<1>1. RefusalsAllowed' /\ UNCHANGED <<chunk_states, stop>>
  BY DEF Poll, Finish, PollFails, Disconnect, netVars, chunkVars, RInv, RefusalsAllowed
<1>2. CASE Poll
  BY <1>1, <1>2, PlainStep DEF Poll, loopVars
<1>3. CASE Finish \/ PollFails
  BY <1>1, <1>3, ReturnStep DEF Finish, PollFails, Disconnect
<1> QED
  BY <1>2, <1>3

\* Connections that end, chunks that come in parts, and the file refused.
LEMMA DropMaps ==
  ASSUME IInv, RInv, NEW p \in Peers,
         \/ BadRevents(p) \/ RecvEnd(p) \/ OpBadFileReq(p)
         \/ OpChunkShort(p) \/ OpChunkCut(p) \/ OpTail(p)
  PROVE  RInv' /\ TransferStep
<1>1. inbox \in [Peers -> Seq(Reply)]
  BY DEF IInv, NetInv, TypeOK
<1>2. CASE OpBadFileReq(p)
  <2>1. /\ inbox[p] # <<>> /\ Head(inbox[p]).op = "badfilereq"
        /\ inbox' = [inbox EXCEPT ![p] = Tail(inbox[p])]
        /\ UNCHANGED <<pc, chunk_states, result>>
    BY <1>2 DEF OpBadFileReq, Received, loopVars, chunkVars
  <2>2. "badfile" \in Faults
    BY <2>1 DEF RInv, RefusalsAllowed
  <2>3. RefusalsAllowed'
    BY <2>2 DEF RefusalsAllowed
  <2> QED
    BY <2>1, <2>2, <2>3, PlainStep DEF GivesUp
<1>3. CASE BadRevents(p) \/ RecvEnd(p) \/ OpChunkCut(p) \/ OpTail(p)
  <2>0. inbox[p] # <<>> => Tail(inbox[p]) = <<>>
    BY ReplyHeld DEF IInv, NetInv
  <2>1. /\ pc = "poll" /\ UNCHANGED chunk_states
        /\ inbox' = inbox \/ inbox' = [inbox EXCEPT ![p] = <<>>]
        /\ \/ UNCHANGED <<pc, result>> /\ stop' \in {stop, 0}
           \/ pc' = "done" /\ result' \in {"crashed", "astray"} /\ stop' = stop
    BY <1>3, <2>0 DEF BadRevents, RecvEnd, OpChunkCut, OpTail, Received, AtSocket, Destroy,
                      Crash, Ends, loopVars, chunkVars, netVars
  <2>2. RefusalsAllowed'
    BY <1>1, <2>1 DEF RInv, RefusalsAllowed
  <2> QED
    BY <2>1, <2>2, PlainStep, ReturnStep
<1>4. CASE OpChunkShort(p)
  <2> DEFINE m == Msg("tail", NoChunk)
             b == [inbox[p] EXCEPT ![1] = m]
  <2>1. /\ inbox' = [inbox EXCEPT ![p] = b] /\ inbox[p] # <<>> /\ stop' = 0
        /\ UNCHANGED <<pc, chunk_states, result>>
    BY <1>4 DEF OpChunkShort, Received, chunkVars
  <2>2. inbox[p] \in Seq(Reply) /\ Len(inbox[p]) = 1
    BY <1>1, <2>1, ReplyHeld DEF IInv, NetInv
  <2>3. Head(b) = m
    BY <2>2, TakeOnly
  <2>4. m.op # "badfilereq"
    BY DEF Msg
  <2> HIDE DEF m, b
  <2>5. RefusalsAllowed'
    BY <1>1, <2>1, <2>3, <2>4, InboxStep DEF RInv
  <2> QED
    BY <2>1, <2>5, PlainStep
<1> QED
  BY <1>2, <1>3, <1>4

\* The handlers that ask for another chunk.
LEMMA HandlerMaps ==
  ASSUME IInv, RInv, NEW p \in Peers, OpAccepted(p) \/ OpBadChunkReq(p) \/ OpChunk(p)
  PROVE  RInv' /\ TransferStep
<1>1. /\ inbox[p] # <<>> /\ pc = "poll" /\ UNCHANGED loopVars
      /\ result = "none" /\ result' = result
      /\ chunk_states \in [Chunks -> {"QUEUED", "AWAITING", "FINISHED"}]
  BY DEF OpAccepted, OpBadChunkReq, OpChunk, Received, AtSocket, loopVars, RInv, OutcomeOpen,
         IInv, NetInv, TypeOK
<1>2. CASE OpAccepted(p) \/ OpBadChunkReq(p)
  <2>1. \E n \in {0, 1, 2} : SelectRequest(p, chunk_states, n)
    BY <1>2 DEF OpAccepted, OpBadChunkReq
  <2>2. RInv' /\ (AskNext \/ UNCHANGED Asked) /\ UNCHANGED Got
    BY <1>1, <2>1, SelectRequestMaps DEF Got
  <2> QED
    BY <1>1, <2>2 DEF TransferStep
<1>3. CASE OpChunk(p)
  <2> DEFINE d == Head(inbox[p]).chunk
             cs == [chunk_states EXCEPT ![d] = "FINISHED"]
  <2>1. Head(inbox[p]) \in Reply /\ Head(inbox[p]).op = "chunk" /\ Owes(p, d)
    BY <1>1, <1>3, ReplyHeld DEF OpChunk, Received, IInv, NetInv
  <2>2. d \in Chunks /\ chunk_states[d] = "AWAITING"
    BY <2>1 DEF Reply, ChunkHeldOnce, IInv, NetInv
  <2>3. SelectRequest(p, cs, 1)
    BY <1>3 DEF OpChunk
  <2> HIDE DEF d
  <2>4. /\ cs \in [Chunks -> {"QUEUED", "AWAITING", "FINISHED"}]
        /\ \A c \in Chunks : cs[c] = "QUEUED" <=> chunk_states[c] = "QUEUED"
        /\ \A c \in Chunks : cs[c] = "FINISHED" <=> c = d \/ chunk_states[c] = "FINISHED"
    BY <1>1, <2>2
  <2> HIDE DEF cs
  <2>5. /\ RInv' /\ (AskNext \/ UNCHANGED Asked)
        /\ Got' = {c \in Chunks : cs[c] = "FINISHED"}
    BY <1>1, <2>3, <2>4, SelectRequestMaps
  <2>6. Got' = Got \cup {d} /\ d \in Asked \ Got
    BY <2>2, <2>4, <2>5 DEF Got, Asked
  <2> QED
    BY <1>1, <2>5, <2>6 DEF TransferStep
<1> QED
  BY <1>2, <1>3

\* A chunk that fseek() fails on is obtained too; the handler gives up.
LEMMA SeekFailsMaps ==
  ASSUME IInv, RInv, NEW p \in Peers, OpChunkSeekFails(p) PROVE RInv' /\ TransferStep
<1> DEFINE d == Head(inbox[p]).chunk
<1>1. /\ inbox[p] # <<>> /\ Head(inbox[p]).op = "chunk" /\ pc = "poll"
      /\ chunk_states' = [chunk_states EXCEPT ![d] = "FINISHED"]
      /\ inbox' = [inbox EXCEPT ![p] = Tail(inbox[p])]
      /\ GivesUp /\ UNCHANGED <<pc, result>> /\ result = "none"
      /\ chunk_states \in [Chunks -> {"QUEUED", "AWAITING", "FINISHED"}]
  BY DEF OpChunkSeekFails, Received, AtSocket, loopVars, GivesUp, RInv, OutcomeOpen,
         IInv, NetInv, TypeOK
<1>2. /\ Head(inbox[p]) \in Reply /\ Owes(p, d) /\ Tail(inbox[p]) = <<>>
  BY <1>1, ReplyHeld DEF IInv, NetInv
<1>3. d \in Chunks /\ chunk_states[d] = "AWAITING"
  BY <1>1, <1>2 DEF Reply, ChunkHeldOnce, IInv, NetInv
<1> HIDE DEF d
<1>4. /\ \A c \in Chunks : chunk_states'[c] = "QUEUED" <=> chunk_states[c] = "QUEUED"
      /\ \A c \in Chunks : chunk_states'[c] = "FINISHED"
                              <=> c = d \/ chunk_states[c] = "FINISHED"
  BY <1>1, <1>3
<1>5. UNCHANGED Asked /\ Got' = Got \cup {d} /\ d \in Asked \ Got
  BY <1>3, <1>4 DEF Asked, Got
<1>6. RefusalsAllowed'
  BY <1>1, <1>2 DEF RInv, RefusalsAllowed, IInv, NetInv, TypeOK
<1>7. OutcomeOpen' /\ NothingAskedYet' /\ StopExplained' /\ Sequential'
  BY <1>1, <1>4 DEF RInv, OutcomeOpen, NothingAskedYet, StopExplained, Sequential, GivesUp
<1> QED
  BY <1>1, <1>5, <1>6, <1>7 DEF RInv, TransferStep

\* What a peer does is seen in its replies only.
LEMMA PeerMaps ==
  ASSUME IInv, RInv, NEW p \in Peers, PeerServes(p) \/ PeerFails(p)
  PROVE  RInv' /\ TransferStep
<1>1. inbox \in [Peers -> Seq(Reply)]
  BY DEF IInv, NetInv, TypeOK
<1>2. UNCHANGED <<pc, chunk_states, stop, result>>
  BY DEF PeerServes, PeerAccept, PeerBadFile, PeerSilent, PeerChunk, PeerBadChunk, PeerStall,
         PeerResume, Reads, PeerFails, PeerClose, PeerReset, Hangup, loopVars, chunkVars
<1>3. CASE PeerFails(p) \/ PeerSilent(p)
  <2>1. inbox' = inbox
    BY <1>3 DEF PeerSilent, PeerFails, PeerClose, PeerReset, Hangup
  <2>2. RefusalsAllowed'
    BY <2>1 DEF RInv, RefusalsAllowed
  <2> QED
    BY <1>2, <2>2, PlainStep
<1>4. CASE PeerResume(p)
  <2> DEFINE m == Msg("chunk", Head(inbox[p]).chunk)
             b == [inbox[p] EXCEPT ![1] = m]
  <2>1. inbox' = [inbox EXCEPT ![p] = b] /\ inbox[p] # <<>>
    BY <1>4 DEF PeerResume
  <2>2. inbox[p] \in Seq(Reply) /\ Len(inbox[p]) = 1
    BY <1>1, <2>1, ReplyHeld DEF IInv, NetInv
  <2>3. Head(b) = m
    BY <2>2, TakeOnly
  <2>4. m.op # "badfilereq"
    BY DEF Msg
  <2> HIDE DEF m, b
  <2>5. RefusalsAllowed'
    BY <1>1, <2>1, <2>3, <2>4, InboxStep DEF RInv
  <2> QED
    BY <1>2, <2>5, PlainStep
<1>5. CASE PeerAccept(p) \/ PeerBadFile(p) \/ PeerChunk(p) \/ PeerBadChunk(p) \/ PeerStall(p)
  <2>1. inbox[p] = <<>>
    <3>1. req[p] # <<>>
      BY <1>5 DEF PeerAccept, PeerBadFile, PeerChunk, PeerBadChunk, PeerStall, Reads
    <3> QED
      BY <3>1, RequestHeld DEF IInv, NetInv
  <2>2. PICK m : /\ inbox' = [inbox EXCEPT ![p] = Append(@, m)]
                 /\ m.op = "badfilereq" => "badfile" \in Faults
    BY <1>5 DEF PeerAccept, PeerBadFile, PeerChunk, PeerBadChunk, PeerStall, Replies1, Msg
  <2> DEFINE b == <<m>>
  <2>3. inbox' = [inbox EXCEPT ![p] = b]
    BY <1>1, <2>1, <2>2
  <2>4. Head(b) = m
    OBVIOUS
  <2> HIDE DEF b
  <2>5. RefusalsAllowed'
    BY <1>1, <2>2, <2>3, <2>4, InboxStep DEF RInv
  <2> QED
    BY <1>2, <2>5, PlainStep
<1> QED
  BY <1>3, <1>4, <1>5 DEF PeerServes

-----------------------------------------------------------------------------
(* The theorems *)

\* Every step keeps RInv and is one of ChunkTransfer or invisible to it.
THEOREM StepRefines == ASSUME IInv, RInv, [Next]_vars PROVE RInv' /\ TransferStep
<1>1. CASE ClientStep
  BY <1>1, SetupMaps, LoopMaps, DropMaps, HandlerMaps, SeekFailsMaps DEF ClientStep
<1>2. CASE \E p \in Peers : PeerServes(p) \/ PeerFails(p)
  BY <1>2, PeerMaps
<1>3. CASE PollFails
  BY <1>3, LoopMaps
<1>4. CASE Terminated \/ UNCHANGED vars
  <2>1. UNCHANGED <<pc, chunk_states, result, stop, inbox>>
    BY <1>4 DEF Terminated, vars
  <2>2. RefusalsAllowed'
    BY <2>1 DEF RInv, RefusalsAllowed
  <2> QED
    BY <2>1, <2>2, PlainStep
<1> QED
  BY <1>1, <1>2, <1>3, <1>4 DEF Next

LEMMA InitRefines == Init => RInv /\ Transfer!TransferInit
<1> SUFFICES ASSUME Init PROVE RInv /\ Transfer!TransferInit
  OBVIOUS
<1>1. \A c \in Chunks : chunk_states[c] = "QUEUED"
  BY DEF Init
<1>2. RInv
  BY <1>1 DEF Init, RInv, OutcomeOpen, NothingAskedYet, RefusalsAllowed, StopExplained, Sequential
<1>3. Transfer!TransferInit
  BY <1>1 DEF Init, Transfer!TransferInit
<1> QED
  BY <1>2, <1>3

\* Whatever the peers do, chunks are asked for in order and once each, none is
\* obtained twice or unasked, and a handler ends the loop only when all were
\* asked for, unless a peer may refuse the file or the disk may be full
\* (logicp2p_download).
THEOREM Refinement == Spec => ImplementsTransfer
<1>1. Init => RInv /\ Transfer!TransferInit
  BY InitRefines
<1>2. IInv /\ RInv /\ [Next]_vars => RInv' /\ [Transfer!TransferNext]_(Transfer!tvars)
  BY StepRefines, TransferStepMaps
<1> QED
  BY <1>1, <1>2, Invariance, PTL DEF Spec, ImplementsTransfer, Transfer!TransferSpec
==============================================================================
