------------------------- MODULE DownloadOwedProofs -------------------------
(***************************************************************************)
(* Proofs about the chunks lost, for every number of peers and chunks: how *)
(* many a download that a handler ended may miss when the peers refuse     *)
(* nothing and the disk has room, but peers stay silent, stall, send       *)
(* headers in parts, close and reset as they like.                         *)
(*                                                                         *)
(* A chunk asked for and not written is owed by a peer, or was lost on a   *)
(* connection that ended, or whose header came in parts, and that loses    *)
(* nothing more.  So the chunks that nobody owes are no more than the      *)
(* connections gone (LostBounded), and the handler that ends the loop has  *)
(* just heard from a peer that owes nothing (SpareAtStop).                 *)
(***************************************************************************)
EXTENDS DownloadProofs, FunctionTheorems

RefusesNothing == Faults \cap {"badfile", "badchunk", "diskfull"} = {}

Awaiting == {c \in Chunks : chunk_states[c] = "AWAITING"}
Unowed == {c \in Awaiting : \A p \in Peers : ~ Owes(p, c)}
Owed == Awaiting \ Unowed

\* The polled peers whose connection ended, with nothing left to read, or whose
\* chunk was given up for its header; those that owe a chunk.
Spent(p) == (link[p] # "up" /\ Quiet(p)) \/ p \in short
Gone == {p \in fds : Spent(p)}
Owing == {p \in fds : \E c \in Awaiting : Owes(p, c)}

LostBounded == Cardinality(Unowed) <= Cardinality(Gone)

SpareAtStop == stop # 0 => Cardinality(Awaiting) < peers_reached

OpenInSet == pc = "poll" => \A p \in Peers : conn[p] = "open" => p \in fds

\* A connection that ended takes no request.
EndsSwallow == \A p \in Peers : link[p] # "up" => req[p] = <<>>

ReportsHold == \A p \in Peers : revents[p] = "in" => inbox[p] # <<>> \/ link[p] # "up"

ChunksGranted == \A p \in Peers : inbox[p] # <<>> => Head(inbox[p]).op # "badchunkreq"

DownloadedStopped == result = "downloaded" => stop # 0

NotStopped == pc \in {"connect", "filereq"} => stop = 0 /\ short = {}

\* After a header in parts, a peer is asked for nothing more.
ShortSilent == \A p \in short :
  req[p] = <<>> /\ (inbox[p] # <<>> => Head(inbox[p]).op = "tail")

LinkInv == OpenInSet /\ EndsSwallow /\ ReportsHold /\ ChunksGranted
             /\ DownloadedStopped /\ NotStopped /\ ShortSilent

LossInv == LinkInv /\ LostBounded /\ SpareAtStop

LEMMA GoneNext == ASSUME IInv' PROVE IsFiniteSet(Gone') /\ Cardinality(Gone') \in Nat
<1>1. Gone' \in SUBSET Peers
  BY DEF Gone, IInv, NetInv, TypeOK
<1> QED
  BY <1>1, SubsetBounds, FS_CardinalityType

-----------------------------------------------------------------------------
(* Counting what is lost *)

LEMMA StrictSubset ==
  ASSUME NEW S, NEW T, IsFiniteSet(S), T \subseteq S, NEW x \in S, x \notin T
  PROVE  IsFiniteSet(T) /\ Cardinality(T) < Cardinality(S)
<1>1. /\ IsFiniteSet(T) /\ Cardinality(T) <= Cardinality(S)
      /\ Cardinality(S) # Cardinality(T)
  BY FS_Subset
<1>2. Cardinality(S) \in Nat /\ Cardinality(T) \in Nat
  BY <1>1, FS_CardinalityType
<1> QED
  BY <1>1, <1>2

LEMMA DisjointUnion ==
  ASSUME NEW S, NEW T, IsFiniteSet(S), IsFiniteSet(T), S \cap T = {}
  PROVE  Cardinality(S \cup T) = Cardinality(S) + Cardinality(T)
<1>1. Cardinality(S \cup T) = Cardinality(S) + Cardinality(T) - Cardinality(S \cap T)
  BY FS_Union
<1>2. Cardinality(S \cap T) = 0
  BY FS_EmptySet
<1>3. Cardinality(S) \in Nat /\ Cardinality(T) \in Nat
  BY FS_CardinalityType
<1> QED
  BY <1>1, <1>2, <1>3

LEMMA OneMore ==
  ASSUME NEW S, IsFiniteSet(S), NEW x
  PROVE  IsFiniteSet(S \cup {x}) /\ Cardinality(S \cup {x}) <= Cardinality(S) + 1
<1>1. /\ IsFiniteSet(S \cup {x})
      /\ Cardinality(S \cup {x}) = IF x \in S THEN Cardinality(S) ELSE Cardinality(S) + 1
  BY FS_AddElement
<1>2. Cardinality(S) \in Nat
  BY FS_CardinalityType
<1> QED
  BY <1>1, <1>2

\* A peer owes one chunk at most.
LEMMA OwesOne ==
  ASSUME IInv, NEW p \in Peers, NEW c, NEW d, Owes(p, c), Owes(p, d) PROVE c = d
<1>1. CASE req[p] # <<>>
  BY <1>1, RequestHeld DEF IInv, NetInv
<1>2. CASE inbox[p] # <<>>
  BY <1>2, ReplyHeld DEF IInv, NetInv
<1>3. CASE req[p] = <<>> /\ inbox[p] = <<>>
  BY <1>3 DEF Owes
<1> QED
  BY <1>1, <1>2, <1>3

\* A peer that is gone owes none.
LEMMA SpentOwesNone ==
  ASSUME IInv, ShortSilent, NEW p \in Peers, Spent(p), NEW c \in Chunks PROVE ~ Owes(p, c)
<1>1. CASE Quiet(p)
  BY <1>1 DEF Quiet, Owes
<1>2. CASE p \in short /\ inbox[p] # <<>>
  <2>1. Head(inbox[p]) \in Reply /\ (Owes(p, c) <=> Head(inbox[p]).chunk = c)
    BY <1>2, ReplyHeld DEF IInv, NetInv
  <2>2. Head(inbox[p]).op = "tail"
    BY <1>2 DEF ShortSilent
  <2> QED
    BY <2>1, <2>2 DEF Reply, NoChunk, Chunks
<1>3. CASE p \in short /\ inbox[p] = <<>>
  BY <1>3 DEF ShortSilent, Owes
<1> QED
  BY <1>1, <1>2, <1>3 DEF Spent

\* Every chunk awaited has a peer of its own in the poll set: the one that
\* owes it, or one of those gone.
LEMMA AwaitingBounded ==
  ASSUME IInv, LinkInv, LostBounded, pc = "poll"
  PROVE  /\ Cardinality(Awaiting) <= Cardinality(Gone \cup Owing)
         /\ IsFiniteSet(Gone \cup Owing) /\ IsFiniteSet(Awaiting)
<1> DEFINE owner == [c \in Owed |-> CHOOSE p \in Owing : Owes(p, c)]
<1>1. /\ IsFiniteSet(Owing) /\ IsFiniteSet(Gone) /\ IsFiniteSet(Owed)
      /\ IsFiniteSet(Unowed) /\ IsFiniteSet(Awaiting) /\ IsFiniteSet(Gone \cup Owing)
  <2>1. /\ Owing \in SUBSET Peers /\ Gone \in SUBSET Peers /\ Gone \cup Owing \in SUBSET Peers
        /\ Owed \in SUBSET Chunks /\ Unowed \in SUBSET Chunks /\ Awaiting \in SUBSET Chunks
    BY DEF Owing, Gone, Owed, Unowed, Awaiting, IInv, NetInv, TypeOK
  <2> QED
    BY <2>1, SubsetBounds
<1>2. ASSUME NEW c \in Owed PROVE \E p \in Owing : Owes(p, c)
  <2>1. PICK p \in Peers : Owes(p, c)
    BY DEF Owed, Unowed
  <2>2. ~ Quiet(p)
    BY <2>1 DEF Owes, Quiet
  <2>3. p \in fds
    BY <2>2 DEF LinkInv, OpenInSet, IInv, NetInv, QuietUnlessOpen
  <2> QED
    BY <2>1, <2>3 DEF Owing, Owed
<1>3. \A c \in Owed : owner[c] \in Owing /\ Owes(owner[c], c)
  BY <1>2
<1>4. owner \in Injection(Owed, Owing)
  <2>1. owner \in [Owed -> Owing]
    BY <1>3
  <2>2. ASSUME NEW c \in Owed, NEW d \in Owed, owner[c] = owner[d] PROVE c = d
    <3>1. owner[c] \in Peers /\ Owes(owner[c], c) /\ Owes(owner[c], d)
      BY <1>3, <2>2 DEF Owing, IInv, NetInv, TypeOK
    <3> QED
      BY <3>1, OwesOne
  <2> QED
    BY <2>1, <2>2, Fun_IsInj
<1> HIDE DEF owner
<1>5. Cardinality(Owed) <= Cardinality(Owing)
  BY <1>1, <1>4, FS_Injection
<1>6. Gone \cap Owing = {}
  BY SpentOwesNone DEF Gone, Owing, Awaiting, LinkInv, IInv, NetInv, TypeOK
<1>7. Cardinality(Gone \cup Owing) = Cardinality(Gone) + Cardinality(Owing)
  BY <1>1, <1>6, DisjointUnion
<1>8. Cardinality(Awaiting) = Cardinality(Owed) + Cardinality(Unowed)
  <2>1. Owed \cup Unowed = Awaiting /\ Owed \cap Unowed = {}
    BY DEF Owed, Unowed
  <2> QED
    BY <1>1, <2>1, DisjointUnion
<1>9. /\ Cardinality(Gone) \in Nat /\ Cardinality(Owing) \in Nat
      /\ Cardinality(Owed) \in Nat /\ Cardinality(Unowed) \in Nat
  BY <1>1, FS_CardinalityType
<1> QED
  BY <1>1, <1>5, <1>7, <1>8, <1>9 DEF LostBounded

\* A peer just heard from, that owes at most a chunk now written, is spare.
LEMMA SpareNow ==
  ASSUME IInv, LinkInv, LostBounded, pc = "poll", NEW p \in fds, inbox[p] # <<>>,
         p \notin short, NEW A \in SUBSET Chunks, A \subseteq Awaiting,
         \A c \in A : ~ Owes(p, c)
  PROVE  Cardinality(A) < peers_reached
<1>1. /\ Cardinality(Awaiting) <= Cardinality(Gone \cup Owing)
      /\ IsFiniteSet(Gone \cup Owing) /\ IsFiniteSet(Awaiting)
  BY AwaitingBounded
<1>2. /\ IsFiniteSet(fds) /\ Gone \cup Owing \subseteq fds
      /\ peers_reached = Cardinality(fds)
  <2>1. fds \in SUBSET Peers
    BY DEF IInv, NetInv, TypeOK
  <2> QED
    BY <2>1, SubsetBounds DEF Gone, Owing, IInv, PollSlotsFit
<1>3. Cardinality(A) <= Cardinality(Awaiting) /\ IsFiniteSet(A)
  BY <1>1, FS_Subset
<1>4. Cardinality(Gone \cup Owing) <= Cardinality(fds)
  BY <1>2, FS_Subset
<1>5. /\ Cardinality(A) \in Nat /\ Cardinality(Awaiting) \in Nat
      /\ Cardinality(Gone \cup Owing) \in Nat /\ Cardinality(fds) \in Nat
  BY <1>1, <1>2, <1>3, FS_CardinalityType
<1>6. CASE \A c \in Awaiting : ~ Owes(p, c)
  <2>1. p \notin Gone \cup Owing
    BY <1>6 DEF Gone, Spent, Owing, Quiet
  <2>2. Cardinality(Gone \cup Owing) < Cardinality(fds)
    BY <1>2, <2>1, StrictSubset
  <2> QED
    BY <1>1, <1>2, <1>3, <1>5, <2>2
<1>7. CASE \E c \in Awaiting : Owes(p, c)
  <2>1. Cardinality(A) < Cardinality(Awaiting)
    BY <1>1, <1>7, StrictSubset
  <2> QED
    BY <1>1, <1>2, <1>4, <1>5, <2>1
<1> QED
  BY <1>6, <1>7

\* A step loses nothing, or one chunk with one connection.
LEMMA LostStep ==
  ASSUME LostBounded, IsFiniteSet(Unowed), IsFiniteSet(Gone), IsFiniteSet(Gone'),
         Gone \subseteq Gone',
         \/ Unowed' \subseteq Unowed
         \/ \E p \in Gone' \ Gone : \E d : Unowed' \subseteq Unowed \cup {d}
  PROVE  LostBounded'
<1>1. Cardinality(Gone) <= Cardinality(Gone')
  BY FS_Subset
<1>2. /\ Cardinality(Gone) \in Nat /\ Cardinality(Gone') \in Nat
      /\ Cardinality(Unowed) \in Nat
  BY FS_CardinalityType
<1>3. CASE Unowed' \subseteq Unowed
  <2>1. Cardinality(Unowed') <= Cardinality(Unowed) /\ Cardinality(Unowed') \in Nat
    BY <1>3, FS_Subset, FS_CardinalityType
  <2> QED
    BY <1>1, <1>2, <2>1 DEF LostBounded
<1>4. CASE \E p \in Gone' \ Gone : \E d : Unowed' \subseteq Unowed \cup {d}
  <2>1. PICK p \in Gone' \ Gone : \E d : Unowed' \subseteq Unowed \cup {d}
    BY <1>4
  <2>2. PICK d : Unowed' \subseteq Unowed \cup {d}
    BY <2>1
  <2>3. /\ IsFiniteSet(Unowed \cup {d})
        /\ Cardinality(Unowed \cup {d}) <= Cardinality(Unowed) + 1
    BY OneMore
  <2>4. /\ Cardinality(Unowed') <= Cardinality(Unowed \cup {d})
        /\ Cardinality(Unowed') \in Nat /\ Cardinality(Unowed \cup {d}) \in Nat
    BY <2>2, <2>3, FS_Subset, FS_CardinalityType
  <2>5. Cardinality(Gone) < Cardinality(Gone')
    BY <2>1, StrictSubset
  <2> QED
    BY <1>2, <2>3, <2>4, <2>5 DEF LostBounded
<1> QED
  BY <1>3, <1>4

LEMMA LossSets ==
  ASSUME IInv PROVE /\ IsFiniteSet(Unowed) /\ IsFiniteSet(Gone) /\ IsFiniteSet(Awaiting)
                    /\ Unowed \in SUBSET Chunks /\ Awaiting \in SUBSET Chunks
<1>1. Unowed \in SUBSET Chunks /\ Gone \in SUBSET Peers /\ Awaiting \in SUBSET Chunks
  BY DEF Unowed, Gone, Awaiting, IInv, NetInv, TypeOK
<1> QED
  BY <1>1, SubsetBounds

-----------------------------------------------------------------------------
(* Steps of the downloader *)

\* While it sets up, the downloader awaits nothing and has polled nothing.
LEMMA SetupLoss ==
  ASSUME IInv, IInv', RInv, RInv', EndInv, LossInv,
         ConnectPeer \/ EndConnect \/ RequestFile \/ EndRequests
  PROVE  LossInv'
<1>1. /\ pc \in {"connect", "filereq"} /\ revents' = revents /\ stop' = 0 /\ short' = {}
      /\ result' \in {result, "unreached"}
  BY DEF ConnectPeer, EndConnect, RequestFile, EndRequests, LossInv, LinkInv, NotStopped
<1>2. \A p \in Peers : revents'[p] = "none"
  BY <1>1 DEF EndInv, UnpolledYet
<1>3. /\ \A p \in Peers : inbox'[p] \in {inbox[p], <<>>}
      /\ \A p \in Peers : link'[p] # "up" => req'[p] = <<>>
  <2>1. CASE ~ RequestFile
    BY <2>1 DEF ConnectPeer, EndConnect, EndRequests, netVars, LossInv, LinkInv, EndsSwallow
  <2>2. CASE RequestFile
    BY <2>2 DEF RequestFile, Send, Destroy, netVars, LossInv, LinkInv, EndsSwallow,
                IInv, NetInv, TypeOK
  <2> QED
    BY <2>1, <2>2
<1>4. OpenInSet'
  BY DEF ConnectPeer, EndConnect, RequestFile, EndRequests, OpenInSet
<1>5. EndsSwallow' /\ ReportsHold' /\ ChunksGranted' /\ NotStopped' /\ ShortSilent'
  BY <1>1, <1>2, <1>3 DEF EndsSwallow, ReportsHold, ChunksGranted, NotStopped, ShortSilent,
                          LossInv, LinkInv
<1>6. DownloadedStopped' /\ SpareAtStop'
  BY <1>1 DEF DownloadedStopped, SpareAtStop, LossInv, LinkInv, RInv, OutcomeOpen
<1>7. LostBounded'
  <2>1. \A c \in Chunks : chunk_states'[c] = "QUEUED"
    BY <1>1 DEF ConnectPeer, EndConnect, RequestFile, EndRequests, chunkVars, RInv,
                NothingAskedYet
  <2>2. Unowed' = {}
    BY <2>1 DEF Unowed, Awaiting
  <2>3. Cardinality(Unowed') = 0
    BY <2>2, FS_EmptySet
  <2> QED
    BY <2>3, GoneNext DEF LostBounded
<1> QED
  BY <1>4, <1>5, <1>6, <1>7 DEF LossInv, LinkInv

LEMMA LoopLoss ==
  ASSUME IInv, RInv, LossInv, Poll \/ Finish \/ PollFails PROVE LossInv'
<1>1. /\ UNCHANGED <<link, conn, fds, inbox, req, chunk_states, stop, peers_reached, short>>
      /\ pc = "poll" /\ pc' \in {"poll", "done"}
      /\ revents' = revents \/ Poll
  BY DEF Poll, Finish, PollFails, Disconnect, netVars, chunkVars, loopVars
<1>2. OpenInSet' /\ EndsSwallow' /\ ChunksGranted' /\ NotStopped' /\ ShortSilent'
  BY <1>1 DEF LossInv, LinkInv, OpenInSet, EndsSwallow, ChunksGranted, NotStopped, ShortSilent
<1>3. ReportsHold'
  <2>1. CASE revents' = revents
    BY <1>1, <2>1 DEF LossInv, LinkInv, ReportsHold
  <2>2. CASE Poll
    BY <1>1, <2>2 DEF Poll, Reported, ReportsHold
  <2> QED
    BY <1>1, <2>1, <2>2
<1>4. DownloadedStopped'
  BY <1>1 DEF Poll, Finish, PollFails, Disconnect, loopVars, LossInv, LinkInv, DownloadedStopped
<1>5. UNCHANGED <<Awaiting, Unowed, Gone>>
  BY <1>1 DEF Awaiting, Unowed, Gone, Spent, Owes, Quiet
<1>6. LostBounded' /\ SpareAtStop'
  BY <1>1, <1>5 DEF LossInv, LostBounded, SpareAtStop
<1> QED
  BY <1>2, <1>3, <1>4, <1>6 DEF LossInv, LinkInv

\* What a step of the walk at p leaves to the other peers.
OthersKept(p) == \A q \in Peers : q # p =>
  /\ conn'[q] = conn[q] /\ link'[q] = link[q]
  /\ req'[q] = req[q] /\ inbox'[q] = inbox[q]

LEMMA WalkLinks ==
  ASSUME IInv, RInv, LinkInv, NEW p \in Peers, NEW what, AtSocket(p, what),
         WalkGoesOn \/ Breaks, OthersKept(p), short' \in {short, short \cup {p}},
         conn'[p] = "open" => conn[p] = "open",
         link'[p] # "up" => req'[p] = <<>>,
         p \in short' => req'[p] = <<>> /\ (inbox'[p] # <<>> => Head(inbox'[p]).op = "tail"),
         inbox'[p] \in {<<>>, inbox[p]} \/ Head(inbox'[p]).op = "tail"
  PROVE  LinkInv' /\ pc = "poll" /\ fds' = fds /\ peers_reached' = peers_reached
<1>1. /\ pc = "poll" /\ pc' \in {"poll", "done"}
      /\ UNCHANGED <<fds, peers_reached>>
      /\ result' \in {result, "crashed", "astray"} /\ result = "none"
      /\ revents' = [revents EXCEPT ![p] = "none"]
  BY DEF AtSocket, WalkGoesOn, Breaks, Ends, RInv, OutcomeOpen
<1>2. OpenInSet' /\ EndsSwallow' /\ NotStopped' /\ DownloadedStopped'
  BY <1>1 DEF LinkInv, OthersKept, OpenInSet, EndsSwallow, NotStopped, DownloadedStopped
<1>5. ShortSilent'
  BY DEF LinkInv, OthersKept, ShortSilent, IInv, NetInv, TypeOK
<1>3. revents'[p] = "none" /\ \A q \in Peers : q # p => revents'[q] = revents[q]
  BY <1>1 DEF IInv, NetInv, TypeOK
<1>4. ReportsHold' /\ ChunksGranted'
  BY <1>3 DEF LinkInv, OthersKept, ReportsHold, ChunksGranted
<1> QED
  BY <1>1, <1>2, <1>4, <1>5 DEF LinkInv

\* The reply in an ended connection is dropped, most often with the connection.
LEMMA DestroyLoss ==
  ASSUME IInv, IInv', RInv, LossInv, NEW p \in Peers, NEW what, AtSocket(p, what),
         UNCHANGED loopVars, UNCHANGED chunkVars, stop' \in {0, stop}, link[p] # "up",
         \/ \E how \in {"null", "freed"} : Destroy(p, how)
         \/ /\ inbox[p] # <<>> /\ inbox' = [inbox EXCEPT ![p] = Tail(@)]
            /\ UNCHANGED <<conn, req, link>>
  PROVE  LossInv'
<1>0. inbox[p] # <<>> => req[p] = <<>> /\ Tail(inbox[p]) = <<>>
  BY ReplyHeld DEF IInv, NetInv
<1>1. /\ p \in fds /\ OthersKept(p) /\ conn'[p] \in {conn[p], "null", "freed"}
      /\ link' = link /\ req'[p] = <<>> /\ inbox'[p] = <<>>
      /\ chunk_states' = chunk_states
  <2>1. conn' = conn \/ \E how \in {"null", "freed"} : conn' = [conn EXCEPT ![p] = how]
    BY DEF Destroy
  <2>2. link' = link /\ (req' = req \/ req' = [req EXCEPT ![p] = <<>>])
        /\ (inbox' = [inbox EXCEPT ![p] = Tail(@)] \/ inbox' = [inbox EXCEPT ![p] = <<>>])
    BY DEF Destroy
  <2>3. conn \in [Peers -> {"null", "open", "freed"}] /\ req \in [Peers -> Seq(Request)]
        /\ inbox \in [Peers -> Seq(Reply)]
    BY DEF IInv, NetInv, TypeOK
  <2>4. OthersKept(p) /\ conn'[p] \in {conn[p], "null", "freed"}
    BY <2>1, <2>2, <2>3 DEF OthersKept
  <2>5. req'[p] = <<>> /\ inbox'[p] = <<>>
    BY <1>0, <2>3 DEF Destroy
  <2> QED
    BY <2>2, <2>4, <2>5 DEF AtSocket, chunkVars
<1>a. WalkGoesOn /\ short' = short
  BY DEF WalkGoesOn, loopVars
<1>2. LinkInv' /\ fds' = fds /\ peers_reached' = peers_reached
  BY <1>1, <1>a, WalkLinks DEF LossInv
<1>3. SpareAtStop'
  BY <1>1, <1>2 DEF LossInv, SpareAtStop, Awaiting
<1>4. /\ IsFiniteSet(Unowed) /\ IsFiniteSet(Gone) /\ IsFiniteSet(Gone')
  BY LossSets, GoneNext
<1>5. Gone' = Gone \cup {p}
  <2>1. fds \in SUBSET Peers
    BY DEF IInv, NetInv, TypeOK
  <2>2. \A q \in Peers : q # p => (Spent(q)' <=> Spent(q))
    BY <1>1, <1>a DEF Spent, Quiet, OthersKept
  <2>3. Spent(p)'
    BY <1>1 DEF Spent, Quiet
  <2> QED
    BY <1>1, <1>2, <2>1, <2>2, <2>3 DEF Gone
<1>6. \A q \in Peers, c \in Chunks : q # p => (Owes(q, c)' <=> Owes(q, c))
  BY <1>1 DEF Owes, OthersKept
<1>7. Awaiting' = Awaiting /\ Awaiting \subseteq Chunks
  BY <1>1 DEF Awaiting
<1>8. \/ Unowed' \subseteq Unowed
      \/ \E q \in Gone' \ Gone : \E d : Unowed' \subseteq Unowed \cup {d}
  <2>1. CASE \A c \in Chunks : ~ Owes(p, c)
    BY <1>6, <1>7, <2>1 DEF Unowed
  <2>2. CASE \E c \in Chunks : Owes(p, c)
    <3>1. PICK d \in Chunks : Owes(p, d)
      BY <2>2
    <3>2. p \notin Gone
      BY <3>1, SpentOwesNone DEF Gone, LossInv, LinkInv
    <3>3. \A c \in Chunks : Owes(p, c) => c = d
      BY <3>1, OwesOne
    <3>4. Unowed' \subseteq Unowed \cup {d}
      BY <1>6, <1>7, <3>3 DEF Unowed
    <3> QED
      BY <1>5, <3>2, <3>4
  <2> QED
    BY <2>1, <2>2
<1>9. LostBounded'
  BY <1>4, <1>5, <1>8, LostStep DEF LossInv
<1> QED
  BY <1>2, <1>3, <1>9 DEF LossInv

\* A step that touches no connection.
LEMMA IdleLoss ==
  ASSUME IInv, RInv, LossInv, NEW p \in Peers, NEW what, AtSocket(p, what),
         UNCHANGED loopVars \/ Breaks, UNCHANGED <<chunkVars, stop, conn, netVars>>
  PROVE  LossInv'
<1>1. /\ OthersKept(p) /\ UNCHANGED <<conn, link, req, inbox, chunk_states, stop, short>>
      /\ WalkGoesOn \/ Breaks
  BY DEF OthersKept, netVars, chunkVars, loopVars, WalkGoesOn, Breaks, Ends
<1>2. LinkInv' /\ fds' = fds /\ peers_reached' = peers_reached
  BY <1>1, WalkLinks DEF LossInv, LinkInv, EndsSwallow, ShortSilent
<1>3. UNCHANGED <<Awaiting, Unowed, Gone>>
  BY <1>1, <1>2 DEF Awaiting, Unowed, Gone, Spent, Owes, Quiet
<1> QED
  BY <1>1, <1>2, <1>3 DEF LossInv, LostBounded, SpareAtStop

\* The header of a chunk comes in parts, or what followed such a header is read.
LEMMA LeftoverLoss ==
  ASSUME IInv, IInv', RInv, EndInv, LossInv, NEW p \in Peers, OpChunkShort(p) \/ OpTail(p)
  PROVE  LossInv'
<1>1. /\ AtSocket(p, "in") /\ inbox[p] # <<>> /\ p \in fds /\ stop' \in {0, stop}
      /\ UNCHANGED <<chunkVars, conn, req, link>>
  BY DEF OpChunkShort, OpTail, Received, AtSocket, netVars
<1>2. req[p] = <<>> /\ Tail(inbox[p]) = <<>> /\ \A c : Owes(p, c) <=> Head(inbox[p]).chunk = c
  BY <1>1, ReplyHeld DEF IInv, NetInv
<1>3. CASE UNCHANGED <<chunkVars, stop, conn, netVars>> /\ Breaks
  BY <1>1, <1>3, IdleLoss
<1>4. CASE /\ WalkGoesOn /\ p \in short' /\ short' = short \cup {p}
           /\ OthersKept(p)
           /\ inbox'[p] = <<>> \/ Head(inbox'[p]).op = "tail"
           /\ p \in short \/ Head(inbox[p]).op = "partchunk"
  <2>1. LinkInv' /\ fds' = fds /\ peers_reached' = peers_reached
    <3>1. req'[p] = <<>>
      BY <1>1, <1>2
    <3> QED
      BY <1>1, <1>4, <3>1, WalkLinks DEF LossInv
  <2>2. Gone' = Gone \cup {p}
    <3>1. \A q \in Peers : q # p => (Spent(q)' <=> Spent(q))
      BY <1>4 DEF Spent, Quiet, OthersKept
    <3>2. Spent(p)' /\ fds \in SUBSET Peers
      BY <1>4 DEF Spent, IInv, NetInv, TypeOK
    <3> QED
      BY <1>1, <2>1, <3>1, <3>2 DEF Gone
  <2>3. \A q \in Peers, c \in Chunks : q # p => (Owes(q, c)' <=> Owes(q, c))
    BY <1>4 DEF Owes, OthersKept
  <2>4. Awaiting' = Awaiting /\ Awaiting \subseteq Chunks
    BY <1>1 DEF Awaiting, chunkVars
  <2>5. \/ Unowed' \subseteq Unowed
        \/ \E q \in Gone' \ Gone : \E d : Unowed' \subseteq Unowed \cup {d}
    <3>1. CASE p \in short
      <4>1. \A c \in Chunks : ~ Owes(p, c)
        BY <3>1, SpentOwesNone DEF Spent, LossInv, LinkInv
      <4> QED
        BY <2>3, <2>4, <4>1 DEF Unowed
    <3>2. CASE p \notin short
      <4>1. p \in Gone' \ Gone
        BY <1>1, <2>2, <3>2 DEF Gone, Spent, Quiet
      <4>2. Unowed' \subseteq Unowed \cup {Head(inbox[p]).chunk}
        BY <1>2, <2>3, <2>4 DEF Unowed
      <4> QED
        BY <4>1, <4>2
    <3> QED
      BY <3>1, <3>2
  <2>6. LostBounded'
    <3>1. IsFiniteSet(Unowed) /\ IsFiniteSet(Gone) /\ IsFiniteSet(Gone')
      BY LossSets, GoneNext
    <3> QED
      BY <2>2, <2>5, <3>1, LostStep DEF LossInv
  <2>7. SpareAtStop'
    BY <1>1, <2>1, <2>4 DEF LossInv, SpareAtStop
  <2> QED
    BY <2>1, <2>6, <2>7 DEF LossInv
<1>5. CASE OpChunkShort(p)
  <2> DEFINE m == Msg("tail", NoChunk)
             b == [inbox[p] EXCEPT ![1] = m]
  <2>1. /\ inbox' = [inbox EXCEPT ![p] = b] /\ short' = short \cup {p} /\ WalkGoesOn
        /\ Head(inbox[p]).op = "partchunk"
    BY <1>5 DEF OpChunkShort, Received, WalkGoesOn
  <2>2. inbox[p] \in Seq(Reply) /\ Len(inbox[p]) = 1
    BY <1>1, ReplyHeld DEF IInv, NetInv, TypeOK
  <2>3. Head(b) = m /\ m.op = "tail"
    BY <2>2 DEF Msg
  <2> HIDE DEF m, b
  <2>4. inbox'[p] = b /\ OthersKept(p)
    BY <1>1, <2>1 DEF OthersKept, IInv, NetInv, TypeOK
  <2> QED
    BY <1>4, <2>1, <2>3, <2>4
<1>6. CASE OpTail(p) /\ ~ Breaks
  <2>1. /\ inbox' = [inbox EXCEPT ![p] = Tail(@)] /\ WalkGoesOn /\ short' = short
    BY <1>6 DEF OpTail, Breaks, WalkGoesOn, loopVars
  <2>2. p \in short
    BY <1>6 DEF OpTail, Received, EndInv, TailsShort
  <2>3. inbox'[p] = <<>> /\ OthersKept(p)
    BY <1>1, <1>2, <2>1 DEF OthersKept, IInv, NetInv, TypeOK
  <2>4. short' = short \cup {p}
    BY <2>1, <2>2
  <2> QED
    BY <1>4, <2>1, <2>2, <2>3, <2>4
<1>7. CASE OpTail(p) /\ Breaks
  <2>1. inbox' = inbox
    BY <1>7 DEF OpTail, Breaks, Ends, loopVars, AtSocket, Received, netVars
  <2> QED
    BY <1>1, <1>3, <1>7, <2>1 DEF OpTail, netVars
<1> QED
  BY <1>5, <1>6, <1>7

\* select_request_chunk, for the handler of a message from p, on chunk states
\* cs in which every chunk awaited is still awaited of another.
LEMMA SelectLoss ==
  ASSUME IInv, IInv', RInv, RInv', LossInv, "badfile" \notin Faults,
         NEW p \in Peers, AtSocket(p, "in"), inbox[p] # <<>>, Head(inbox[p]).op # "tail",
         UNCHANGED loopVars,
         NEW cs \in [Chunks -> {"QUEUED", "AWAITING", "FINISHED"}],
         \A c \in Chunks : cs[c] = "AWAITING" => c \in Awaiting /\ ~ Owes(p, c),
         NEW n \in {0, 1, 2}, SelectRequest(p, cs, n)
  PROVE  LossInv'
<1>1. /\ req[p] = <<>> /\ Tail(inbox[p]) = <<>> /\ p \in fds
  BY ReplyHeld DEF IInv, NetInv, AtSocket
<1>2. inbox' = [inbox EXCEPT ![p] = <<>>]
  BY <1>1 DEF SelectRequest, Destroy
<1>3. /\ OthersKept(p) /\ inbox'[p] = <<>>
      /\ conn'[p] \in {conn[p], "freed"}
      /\ link'[p] # "up" => req'[p] = <<>>
      /\ link[p] # "up" => link'[p] # "up"
  BY <1>1, <1>2 DEF SelectRequest, Send, Destroy, OthersKept, IInv, NetInv, TypeOK
<1>a. WalkGoesOn /\ short' = short /\ p \notin short
  BY DEF WalkGoesOn, loopVars, LossInv, LinkInv, ShortSilent
<1>4. LinkInv' /\ pc = "poll" /\ fds' = fds /\ peers_reached' = peers_reached
  BY <1>3, <1>a, WalkLinks DEF LossInv
<1>5. \A q \in Peers, c \in Chunks : q # p => (Owes(q, c)' <=> Owes(q, c))
  BY <1>3 DEF Owes, OthersKept
<1>6. p \notin Gone /\ Gone \subseteq Gone'
  BY <1>1, <1>3, <1>4, <1>a DEF Gone, Spent, Quiet, OthersKept, IInv, NetInv, TypeOK
<1>7. IsFiniteSet(Unowed) /\ IsFiniteSet(Gone) /\ IsFiniteSet(Gone')
  BY LossSets, GoneNext
<1>8. ASSUME NEW c \in Chunks, cs[c] = "AWAITING", \A q \in Peers : ~ Owes(q, c)'
      PROVE  c \in Unowed
  BY <1>5, <1>8 DEF Unowed
<1>9. \/ Unowed' \subseteq Unowed
      \/ \E q \in Gone' \ Gone : \E d : Unowed' \subseteq Unowed \cup {d}
  <2>1. CASE chunk_states' = cs
    BY <1>8, <2>1 DEF Unowed, Awaiting
  <2>2. CASE \E c \in Chunks : /\ Send(p, Msg("chunkreq", c))
                               /\ chunk_states' = [cs EXCEPT ![c] = "AWAITING"]
    <3>1. PICK d \in Chunks : /\ Send(p, Msg("chunkreq", d))
                              /\ chunk_states' = [cs EXCEPT ![d] = "AWAITING"]
      BY <2>2
    <3>2. \A c \in Chunks : chunk_states'[c] = "AWAITING" => c = d \/ cs[c] = "AWAITING"
      BY <3>1
    <3>3. Unowed' \subseteq Unowed \cup {d}
      BY <1>8, <3>2 DEF Unowed, Awaiting
    <3>4. CASE link[p] = "up"
      <4> DEFINE m == Msg("chunkreq", d)
      <4>1. m \in Request /\ m.chunk = d
        BY DEF Msg, Request
      <4>2. req' = [req EXCEPT ![p] = Append(<<>>, m)]
        BY <1>1, <3>1, <3>4 DEF Send, IInv, NetInv, TypeOK
      <4> HIDE DEF m
      <4>3. Owes(p, d)'
        BY <1>2, <4>1, <4>2, PutStep DEF IInv, NetInv
      <4>4. d \notin Unowed'
        BY <4>3 DEF Unowed
      <4> QED
        BY <3>3, <4>4
    <3>5. CASE link[p] # "up"
      <4>1. p \in Gone'
        BY <1>1, <1>3, <1>4, <3>5 DEF Gone, Spent, Quiet
      <4> QED
        BY <1>6, <3>3, <4>1
    <3> QED
      BY <3>4, <3>5
  <2> QED
    BY <2>1, <2>2 DEF SelectRequest
<1>10. LostBounded'
  BY <1>6, <1>7, <1>9, LostStep DEF LossInv
<1>11. SpareAtStop'
  <2>1. CASE stop' = 0
    BY <2>1 DEF SpareAtStop
  <2>2. CASE stop' # 0
    <3>1. chunk_states' = cs
      BY <2>2 DEF SelectRequest
    <3>2. Awaiting' \in SUBSET Chunks /\ Awaiting' \subseteq Awaiting
      BY <3>1 DEF Awaiting
    <3>3. \A c \in Awaiting' : ~ Owes(p, c)
      BY <3>1 DEF Awaiting
    <3> DEFINE A == Awaiting'
    <3> HIDE DEF A
    <3>4. Cardinality(A) < peers_reached
      <4>1. A \in SUBSET Chunks /\ A \subseteq Awaiting /\ \A c \in A : ~ Owes(p, c)
        BY <3>2, <3>3 DEF A
      <4> QED
        BY <1>1, <1>4, <1>a, <4>1, SpareNow DEF LossInv
    <3> QED
      BY <1>4, <3>4 DEF SpareAtStop, A
  <2> QED
    BY <2>1, <2>2
<1> QED
  BY <1>4, <1>10, <1>11 DEF LossInv

LEMMA HandlerLoss ==
  ASSUME RefusesNothing, IInv, IInv', RInv, RInv', EndInv, LossInv, NEW p \in Peers,
         \/ BadRevents(p) \/ RecvEnd(p)
         \/ OpAccepted(p) \/ OpBadFileReq(p)
         \/ OpChunk(p) \/ OpChunkSeekFails(p) \/ OpBadChunkReq(p)
         \/ OpChunkShort(p) \/ OpChunkCut(p) \/ OpTail(p)
  PROVE  LossInv'
<1>0. chunk_states \in [Chunks -> {"QUEUED", "AWAITING", "FINISHED"}]
  BY DEF IInv, NetInv, TypeOK
<1>1. CASE BadRevents(p)
  <2>1. AtSocket(p, "other") /\ revents[p] = "other" /\ stop' = stop /\ UNCHANGED chunkVars
    BY <1>1 DEF BadRevents, AtSocket
  <2>2. CASE UNCHANGED <<conn, netVars>>
    <3>1. UNCHANGED loopVars \/ Breaks
      BY <1>1 DEF BadRevents, Crash, Breaks
    <3> QED
      BY <2>1, <2>2, <3>1, IdleLoss
  <2>3. CASE conn[p] = "open" /\ Destroy(p, "freed") /\ UNCHANGED loopVars
    <3>1. link[p] # "up"
      BY <2>1, <2>3 DEF EndInv, OtherEnded
    <3> QED
      BY <2>1, <2>3, <3>1, DestroyLoss
  <2> QED
    BY <1>1, <2>2, <2>3 DEF BadRevents
<1>2. CASE RecvEnd(p)
  <2>1. /\ AtSocket(p, "in") /\ inbox[p] = <<>> /\ revents[p] = "in"
        /\ Destroy(p, "null") /\ UNCHANGED <<loopVars, chunkVars, stop>>
    BY <1>2 DEF RecvEnd, AtSocket
  <2>2. link[p] # "up"
    BY <2>1 DEF LossInv, LinkInv, ReportsHold
  <2> QED
    BY <2>1, <2>2, DestroyLoss
<1>3. CASE OpChunkCut(p)
  <2>1. AtSocket(p, "in") /\ link[p] # "up" /\ UNCHANGED chunkVars
    BY <1>3 DEF OpChunkCut, Received
  <2>2. CASE Destroy(p, "freed") /\ stop' = 0 /\ UNCHANGED loopVars
    BY <2>1, <2>2, DestroyLoss
  <2>3. CASE /\ inbox' = [inbox EXCEPT ![p] = Tail(@)] /\ stop' = 0
             /\ UNCHANGED <<loopVars, conn, req, link>>
    <3>1. inbox[p] # <<>>
      BY <1>3 DEF OpChunkCut, Received
    <3> QED
      BY <2>1, <2>3, <3>1, DestroyLoss
  <2>4. CASE (Crash \/ Ends("astray")) /\ UNCHANGED <<conn, stop, netVars>>
    BY <2>1, <2>4, IdleLoss DEF Crash, Breaks
  <2> QED
    BY <1>3, <2>2, <2>3, <2>4 DEF OpChunkCut
<1>4. ~ OpBadFileReq(p) /\ ~ OpBadChunkReq(p) /\ ~ OpChunkSeekFails(p)
  BY DEF OpBadFileReq, OpBadChunkReq, OpChunkSeekFails, Received, RInv, RefusalsAllowed,
         RefusesNothing, LossInv, LinkInv, ChunksGranted
<1>5. ASSUME inbox[p] # <<>>
      PROVE  Head(inbox[p]) \in Reply /\ \A c : Owes(p, c) <=> Head(inbox[p]).chunk = c
  BY <1>5, ReplyHeld DEF IInv, NetInv
<1>6. CASE OpAccepted(p)
  <2>1. /\ inbox[p] # <<>> /\ Head(inbox[p]).op = "accepted" /\ AtSocket(p, "in")
        /\ SelectRequest(p, chunk_states, 2) /\ UNCHANGED loopVars
    BY <1>6 DEF OpAccepted, Received
  <2>2. \A c \in Chunks : ~ Owes(p, c)
    BY <1>5, <2>1 DEF Reply, NoChunk, Chunks
  <2>3. \A c \in Chunks : chunk_states[c] = "AWAITING" => c \in Awaiting /\ ~ Owes(p, c)
    BY <2>2 DEF Awaiting
  <2> QED
    BY <1>0, <2>1, <2>3, SelectLoss DEF RefusesNothing
<1>7. CASE OpChunk(p)
  <2> DEFINE d == Head(inbox[p]).chunk
             cs == [chunk_states EXCEPT ![d] = "FINISHED"]
  <2>1. /\ inbox[p] # <<>> /\ Head(inbox[p]).op = "chunk" /\ AtSocket(p, "in")
        /\ SelectRequest(p, cs, 1) /\ UNCHANGED loopVars
    BY <1>7 DEF OpChunk, Received
  <2>2. d \in Chunks /\ \A c : Owes(p, c) <=> d = c
    BY <1>5, <2>1 DEF Reply
  <2> HIDE DEF d
  <2>3. /\ cs \in [Chunks -> {"QUEUED", "AWAITING", "FINISHED"}]
        /\ \A c \in Chunks : cs[c] = "AWAITING" => c \in Awaiting /\ ~ Owes(p, c)
    BY <1>0, <2>2 DEF Awaiting
  <2> HIDE DEF cs
  <2> QED
    BY <2>1, <2>3, SelectLoss DEF RefusesNothing
<1> QED
  BY <1>1, <1>2, <1>3, <1>4, <1>6, <1>7, LeftoverLoss

-----------------------------------------------------------------------------
(* Steps of the peers *)

\* A step of p that touches its messages only and takes back nothing it owes.
LEMMA ServeStep ==
  ASSUME IInv, IInv', LossInv, NEW p \in Peers, p \notin short,
         conn[p] = "open", link[p] = "up",
         UNCHANGED <<loopVars, conn, revents, chunkVars, stop, link>>,
         NEW b, inbox' = [inbox EXCEPT ![p] = b],
         b # <<>> => Head(b).op # "badchunkreq",
         b # <<>> \/ b = inbox[p],
         NEW r, req' = [req EXCEPT ![p] = r],
         \A c \in Chunks : Owes(p, c) => Owes(p, c)'
  PROVE  LossInv'
<1>1. UNCHANGED <<pc, fds, peers_reached, conn, revents, result, short, chunk_states, stop,
                  link>>
  BY DEF loopVars, chunkVars
<1>2. inbox'[p] = b /\ \A q \in Peers : q # p => inbox'[q] = inbox[q] /\ req'[q] = req[q]
  BY DEF IInv, NetInv, TypeOK
<1>3. OpenInSet' /\ NotStopped' /\ DownloadedStopped'
  BY <1>1 DEF LossInv, LinkInv, OpenInSet, NotStopped, DownloadedStopped
<1>4. EndsSwallow' /\ ReportsHold' /\ ChunksGranted' /\ ShortSilent'
  BY <1>1, <1>2 DEF LossInv, LinkInv, EndsSwallow, ReportsHold, ChunksGranted, ShortSilent,
                    IInv, NetInv, TypeOK
<1>5. \A q \in Peers, c \in Chunks : Owes(q, c) => Owes(q, c)'
  BY <1>2 DEF Owes
<1>6. Awaiting' = Awaiting /\ Awaiting \subseteq Chunks
  BY <1>1 DEF Awaiting
<1>7. Unowed' \subseteq Unowed
  BY <1>5, <1>6 DEF Unowed
<1>8. Gone \subseteq Gone'
  BY <1>1, <1>2 DEF Gone, Spent, Quiet, IInv, NetInv, TypeOK
<1>9. LostBounded'
  <2>1. IsFiniteSet(Unowed) /\ IsFiniteSet(Gone) /\ IsFiniteSet(Gone')
    BY LossSets, GoneNext
  <2> QED
    BY <1>7, <1>8, <2>1, LostStep DEF LossInv
<1>10. SpareAtStop'
  BY <1>1, <1>6 DEF LossInv, SpareAtStop
<1> QED
  BY <1>3, <1>4, <1>9, <1>10 DEF LossInv, LinkInv

LEMMA PeerServesLoss ==
  ASSUME RefusesNothing, IInv, IInv', LossInv, NEW p \in Peers, PeerServes(p) PROVE LossInv'
<1>1. ~ PeerBadFile(p) /\ ~ PeerBadChunk(p)
  BY DEF RefusesNothing, PeerBadFile, PeerBadChunk
<1>2. /\ conn[p] = "open" /\ link[p] = "up"
      /\ UNCHANGED <<loopVars, conn, revents, chunkVars, stop, link>>
  BY <1>1 DEF PeerServes, PeerAccept, PeerSilent, PeerChunk, PeerStall, PeerResume, Reads
<1>a. p \notin short
  BY <1>1 DEF PeerServes, PeerAccept, PeerSilent, PeerChunk, PeerStall, PeerResume, Reads,
              LossInv, LinkInv, ShortSilent
<1>3. CASE PeerAccept(p) \/ PeerChunk(p) \/ PeerStall(p)
  <2>1. /\ req[p] # <<>> /\ req' = [req EXCEPT ![p] = Tail(@)]
        /\ \E m : /\ Replies1(p, m) /\ m.op # "badchunkreq"
                  /\ \/ Head(req[p]).op = "filereq" /\ m = Msg("accepted", NoChunk)
                     \/ /\ Head(req[p]).op = "chunkreq"
                        /\ m \in {Msg("chunk", Head(req[p]).chunk),
                                  Msg("partchunk", Head(req[p]).chunk)}
    BY <1>3 DEF PeerAccept, PeerChunk, PeerStall, Reads, Msg
  <2>2. /\ inbox[p] = <<>> /\ Tail(req[p]) = <<>> /\ Head(req[p]) \in Request
        /\ \A c : Owes(p, c) <=> Head(req[p]).chunk = c
    BY <2>1, RequestHeld DEF IInv, NetInv
  <2>3. PICK m : /\ Replies1(p, m) /\ m.op # "badchunkreq"
                 /\ \/ Head(req[p]).op = "filereq" /\ m = Msg("accepted", NoChunk)
                    \/ /\ Head(req[p]).op = "chunkreq"
                       /\ m \in {Msg("chunk", Head(req[p]).chunk),
                                 Msg("partchunk", Head(req[p]).chunk)}
    BY <2>1
  <2>4. m \in Reply /\ m.chunk = Head(req[p]).chunk
    BY <2>2, <2>3 DEF Msg, Reply, Request
  <2>5. /\ req' = [req EXCEPT ![p] = <<>>]
        /\ inbox' = [inbox EXCEPT ![p] = Append(<<>>, m)]
    BY <2>1, <2>2, <2>3 DEF Replies1
  <2>6. \A q \in Peers, c \in Chunks :
          Owes(q, c)' <=> IF q = p THEN m.chunk = c ELSE Owes(q, c)
    BY <2>4, <2>5, PutStep DEF IInv, NetInv
  <2>7. \A c \in Chunks : Owes(p, c) => Owes(p, c)'
    BY <2>2, <2>4, <2>6
  <2> DEFINE b == Append(<<>>, m)
  <2>8. b # <<>> /\ Head(b) = m
    OBVIOUS
  <2>9. inbox' = [inbox EXCEPT ![p] = b]
    BY <2>5
  <2> HIDE DEF b
  <2> QED
    BY <1>2, <1>a, <2>3, <2>5, <2>7, <2>8, <2>9, ServeStep
<1>4. CASE PeerSilent(p)
  <2>1. /\ req[p] # <<>> /\ Head(req[p]).op = "filereq"
        /\ req' = [req EXCEPT ![p] = Tail(@)] /\ inbox' = inbox
    BY <1>4 DEF PeerSilent, Reads
  <2>2. /\ inbox[p] = <<>> /\ Head(req[p]) \in Request
        /\ \A c : Owes(p, c) <=> Head(req[p]).chunk = c
    BY <2>1, RequestHeld DEF IInv, NetInv
  <2>3. \A c \in Chunks : ~ Owes(p, c)
    BY <2>1, <2>2 DEF Request, NoChunk, Chunks
  <2> DEFINE b == inbox[p]  r == Tail(req[p])
  <2>4. inbox' = [inbox EXCEPT ![p] = b] /\ req' = [req EXCEPT ![p] = r]
    BY <2>1 DEF IInv, NetInv, TypeOK
  <2>5. b = <<>> /\ b = inbox[p]
    BY <2>2
  <2> HIDE DEF b, r
  <2> QED
    BY <1>2, <1>a, <2>3, <2>4, <2>5, ServeStep
<1>5. CASE PeerResume(p)
  <2> DEFINE m == Msg("chunk", Head(inbox[p]).chunk)
             b == [inbox[p] EXCEPT ![1] = m]
             r == req[p]
  <2>1. inbox' = [inbox EXCEPT ![p] = b] /\ inbox[p] # <<>> /\ req' = req
    BY <1>5 DEF PeerResume
  <2>2. /\ inbox[p] \in Seq(Reply) /\ Len(inbox[p]) = 1
        /\ \A c : Owes(p, c) <=> Head(inbox[p]).chunk = c
    BY <2>1, ReplyHeld DEF IInv, NetInv, TypeOK
  <2>3. m.op # "badchunkreq" /\ m.chunk = Head(inbox[p]).chunk
    BY DEF Msg
  <2>4. Head(b) = m /\ b # <<>> /\ 1 \in DOMAIN b /\ b[1] = m
    BY <2>2
  <2>5. req' = [req EXCEPT ![p] = r]
    BY <2>1 DEF IInv, NetInv, TypeOK
  <2> HIDE DEF m, b, r
  <2>6. inbox'[p] = b
    BY <2>1 DEF IInv, NetInv, TypeOK
  <2>7. \A c \in Chunks : Owes(p, c) => Owes(p, c)'
    BY <2>2, <2>3, <2>4, <2>6 DEF Owes
  <2> QED
    BY <1>2, <1>a, <2>1, <2>3, <2>4, <2>5, <2>7, ServeStep
<1> QED
  BY <1>1, <1>3, <1>4, <1>5 DEF PeerServes

\* A connection that ends takes with it a request not read yet.
LEMMA PeerFailsLoss ==
  ASSUME IInv, IInv', RInv, LossInv, NEW p \in Peers, PeerFails(p) PROVE LossInv'
<1>1. /\ conn[p] = "open" /\ link[p] = "up" /\ pc # "done"
      /\ \E how \in {"fin", "rst"} : link' = [link EXCEPT ![p] = how]
      /\ req' = [req EXCEPT ![p] = <<>>]
      /\ UNCHANGED <<pc, fds, peers_reached, result, short, conn, revents, chunk_states, stop,
                     inbox>>
  BY DEF PeerFails, PeerClose, PeerReset, Hangup, loopVars, chunkVars
<1>2. /\ link'[p] # "up" /\ req'[p] = <<>>
      /\ \A q \in Peers : q # p => link'[q] = link[q] /\ req'[q] = req[q]
  BY <1>1 DEF IInv, NetInv, TypeOK
<1>3. OpenInSet' /\ NotStopped' /\ DownloadedStopped' /\ ChunksGranted'
  BY <1>1 DEF LossInv, LinkInv, OpenInSet, NotStopped, DownloadedStopped, ChunksGranted
<1>4. EndsSwallow' /\ ReportsHold' /\ ShortSilent'
  BY <1>1, <1>2 DEF LossInv, LinkInv, EndsSwallow, ReportsHold, ShortSilent, IInv, NetInv, TypeOK
<1>5. Awaiting' = Awaiting /\ Awaiting \subseteq Chunks
  BY <1>1 DEF Awaiting
<1>6. Gone \subseteq Gone'
  BY <1>1, <1>2 DEF Gone, Spent, Quiet, IInv, NetInv, TypeOK
<1>7. \A q \in Peers, c \in Chunks : q # p => (Owes(q, c)' <=> Owes(q, c))
  BY <1>1, <1>2 DEF Owes
<1>8. \/ Unowed' \subseteq Unowed
      \/ \E q \in Gone' \ Gone : \E d : Unowed' \subseteq Unowed \cup {d}
  <2>1. CASE req[p] = <<>>
    <3>1. \A c \in Chunks : Owes(p, c)' <=> Owes(p, c)
      BY <1>1, <1>2, <2>1 DEF Owes
    <3> QED
      BY <1>5, <1>7, <3>1 DEF Unowed
  <2>2. CASE req[p] # <<>> /\ pc = "poll"
    <3>1. inbox[p] = <<>> /\ \A c : Owes(p, c) <=> Head(req[p]).chunk = c
      BY <2>2, RequestHeld DEF IInv, NetInv
    <3>2. p \in Gone' /\ p \notin Gone
      BY <1>1, <1>2, <2>2, <3>1 DEF Gone, Spent, Quiet, LossInv, LinkInv, OpenInSet, ShortSilent
    <3>3. Unowed' \subseteq Unowed \cup {Head(req[p]).chunk}
      BY <1>5, <1>7, <3>1 DEF Unowed
    <3> QED
      BY <1>6, <3>2, <3>3
  <2>3. CASE pc # "poll"
    <3>1. \A c \in Chunks : chunk_states[c] = "QUEUED"
      BY <1>1, <2>3 DEF RInv, NothingAskedYet, IInv, NetInv, TypeOK
    <3> QED
      BY <1>5, <3>1 DEF Unowed, Awaiting
  <2> QED
    BY <2>1, <2>2, <2>3
<1>9. LostBounded'
  <2>1. IsFiniteSet(Unowed) /\ IsFiniteSet(Gone) /\ IsFiniteSet(Gone')
    BY LossSets, GoneNext
  <2> QED
    BY <1>6, <1>8, <2>1, LostStep DEF LossInv
<1>10. SpareAtStop'
  BY <1>1, <1>5 DEF LossInv, SpareAtStop
<1> QED
  BY <1>3, <1>4, <1>9, <1>10 DEF LossInv, LinkInv

-----------------------------------------------------------------------------
(* The theorems *)

LEMMA InitLoss == Init => LossInv
<1> SUFFICES ASSUME Init PROVE LossInv
  OBVIOUS
<1>1. LinkInv
  BY DEF Init, LinkInv, OpenInSet, EndsSwallow, ReportsHold, ChunksGranted,
         DownloadedStopped, NotStopped, ShortSilent
<1>2. Unowed = {} /\ Gone = {}
  BY DEF Init, Unowed, Awaiting, Gone
<1>3. LostBounded
  BY <1>2, FS_EmptySet DEF LostBounded
<1> QED
  BY <1>1, <1>3 DEF Init, LossInv, SpareAtStop

LEMMA StepLoss ==
  ASSUME RefusesNothing, IInv, IInv', RInv, RInv', EndInv, LossInv, [Next]_vars
  PROVE  LossInv'
<1>1. CASE ClientStep
  BY <1>1, SetupLoss, LoopLoss, HandlerLoss DEF ClientStep
<1>2. CASE \E p \in Peers : PeerServes(p) \/ PeerFails(p)
  BY <1>2, PeerServesLoss, PeerFailsLoss
<1>3. CASE PollFails
  BY <1>3, LoopLoss
<1>4. CASE Terminated \/ UNCHANGED vars
  <2>1. UNCHANGED vars
    BY <1>4 DEF Terminated
  <2>2. LinkInv'
    BY <2>1 DEF vars, LossInv, LinkInv, OpenInSet, EndsSwallow, ReportsHold, ChunksGranted,
                DownloadedStopped, NotStopped, ShortSilent
  <2>3. UNCHANGED <<Awaiting, Unowed, Gone, stop, peers_reached>>
    BY <2>1 DEF vars, Awaiting, Unowed, Gone, Spent, Owes, Quiet
  <2> QED
    BY <2>2, <2>3 DEF LossInv, LostBounded, SpareAtStop
<1> QED
  BY <1>1, <1>2, <1>3, <1>4 DEF Next

LEMMA LossInvariance == ASSUME RefusesNothing PROVE Spec => []LossInv
<1>1. Init => RInv /\ LossInv
  BY InitRefines, InitLoss
<1>2. IInv /\ RInv /\ [Next]_vars => RInv'
  BY StepRefines
<1>3. IInv /\ IInv' /\ RInv /\ RInv' /\ EndInv /\ LossInv /\ [Next]_vars => LossInv'
  BY RefusesNothing, StepLoss
<1> QED
  BY <1>1, <1>2, <1>3, Invariance, EndInvariance, PTL DEF Spec

LEMMA OrderInvariance == Spec => []RInv
<1>1. IInv /\ RInv /\ [Next]_vars => RInv'
  BY StepRefines
<1> QED
  BY <1>1, InitRefines, Invariance, PTL DEF Spec

Unfinished == {c \in Chunks : chunk_states[c] # "FINISHED"}

\* Once the loop is told to stop, no chunk is left to ask for.
LEMMA MissingAwaited ==
  ASSUME RefusesNothing, IInv, RInv, stop # 0 PROVE Unfinished = Awaiting
<1>1. \A c \in Chunks : chunk_states[c] # "QUEUED"
  BY DEF RefusesNothing, RInv, StopExplained, GivesUp, NoneQueued
<1> QED
  BY <1>1 DEF Unfinished, Awaiting, IInv, NetInv, TypeOK

\* A loop told to stop by peers that refuse nothing has lost at most one chunk
\* for each connection that ended or gave a header in parts; every other is
\* written or still owed.
THEOREM LossesAreEnds == ASSUME RefusesNothing PROVE Spec => []OwedAtEnd
<1>1. IInv /\ RInv /\ LossInv => OwedAtEnd
  <2> DEFINE E == {p \in Peers : link[p] # "up" \/ p \in short}
  <2> SUFFICES ASSUME IInv, RInv, LossInv, stop # 0
               PROVE  Cardinality(Lost) <= Cardinality(E)
    BY DEF OwedAtEnd
  <2>1. Lost = Unowed
    BY RefusesNothing, MissingAwaited DEF Lost, Unowed, Unfinished
  <2>2. E \in SUBSET Peers /\ Gone \subseteq E
    BY DEF Gone, Spent, IInv, NetInv, TypeOK
  <2> HIDE DEF E
  <2>3. IsFiniteSet(E)
    BY <2>2, SubsetBounds
  <2>4. Cardinality(Gone) <= Cardinality(E) /\ IsFiniteSet(Gone)
    BY <2>2, <2>3, FS_Subset
  <2>5. Cardinality(Gone) \in Nat /\ Cardinality(E) \in Nat /\ Cardinality(Unowed) \in Nat
    BY <2>3, <2>4, LossSets, FS_CardinalityType
  <2> QED
    BY <2>1, <2>4, <2>5 DEF LossInv, LostBounded
<1> QED
  BY <1>1, Invariance, OrderInvariance, LossInvariance, RefusesNothing, PTL

\* Without a full disk, what came was written.
AllWritten == \A c \in Chunks : chunk_states[c] = "FINISHED" => c \in written

LEMMA StepWrites ==
  ASSUME RefusesNothing, IInv, AllWritten, [Next]_vars PROVE AllWritten'
<1>1. ASSUME UNCHANGED chunkVars PROVE AllWritten'
  BY <1>1 DEF chunkVars, AllWritten
<1>2. CASE EndConnect
  BY <1>2 DEF EndConnect, AllWritten
<1>3. ASSUME NEW p \in Peers, NEW cs \in [Chunks -> {"QUEUED", "AWAITING", "FINISHED"}],
             NEW n, SelectRequest(p, cs, n), written \subseteq written',
             \A c \in Chunks : cs[c] = "FINISHED" => c \in written'
      PROVE  AllWritten'
  <2>1. \A c \in Chunks : chunk_states'[c] = "FINISHED" => cs[c] = "FINISHED"
    BY <1>3 DEF SelectRequest
  <2> QED
    BY <1>3, <2>1 DEF AllWritten
<1>4. ASSUME NEW p \in Peers, OpAccepted(p) \/ OpBadChunkReq(p) PROVE AllWritten'
  <2>1. chunk_states \in [Chunks -> {"QUEUED", "AWAITING", "FINISHED"}]
    BY DEF IInv, NetInv, TypeOK
  <2>2. (\E n \in {1, 2} : SelectRequest(p, chunk_states, n)) /\ written' = written
    BY <1>4 DEF OpAccepted, OpBadChunkReq
  <2> QED
    BY <1>3, <2>1, <2>2 DEF AllWritten
<1>5. ASSUME NEW p \in Peers, OpChunk(p) PROVE AllWritten'
  <2> DEFINE d == Head(inbox[p]).chunk
             cs == [chunk_states EXCEPT ![d] = "FINISHED"]
  <2>1. SelectRequest(p, cs, 1) /\ written' = written \cup {d}
    BY <1>5 DEF OpChunk
  <2>2. /\ cs \in [Chunks -> {"QUEUED", "AWAITING", "FINISHED"}]
        /\ \A c \in Chunks : cs[c] = "FINISHED" => c = d \/ chunk_states[c] = "FINISHED"
    BY DEF IInv, NetInv, TypeOK
  <2> HIDE DEF cs, d
  <2> QED
    BY <1>3, <2>1, <2>2 DEF AllWritten
<1>6. ASSUME NEW p \in Peers, PeerServes(p) \/ PeerFails(p) PROVE UNCHANGED chunkVars
  BY <1>6 DEF PeerServes, PeerAccept, PeerBadFile, PeerSilent, PeerChunk, PeerBadChunk,
              PeerStall, PeerResume, Reads, PeerFails, PeerClose, PeerReset, Hangup
<1>7. ASSUME NEW p \in Peers,
             \/ BadRevents(p) \/ RecvEnd(p) \/ OpBadFileReq(p)
             \/ OpChunkShort(p) \/ OpChunkCut(p) \/ OpTail(p)
      PROVE  UNCHANGED chunkVars
  BY <1>7 DEF BadRevents, RecvEnd, OpBadFileReq, OpChunkShort, OpChunkCut, OpTail
<1>8. \A p \in Peers : ~ OpChunkSeekFails(p)
  BY DEF OpChunkSeekFails, RefusesNothing
<1>9. CASE ConnectPeer \/ RequestFile \/ EndRequests \/ Poll \/ Finish \/ PollFails
  BY <1>1, <1>9 DEF ConnectPeer, RequestFile, EndRequests, Poll, Finish, PollFails, Disconnect
<1>10. CASE Terminated \/ UNCHANGED vars
  BY <1>1, <1>10 DEF Terminated, vars, chunkVars
<1> QED
  BY <1>1, <1>2, <1>4, <1>5, <1>6, <1>7, <1>8, <1>9, <1>10 DEF Next, ClientStep

\* A download that a handler ended misses fewer chunks than peers were reached,
\* whatever connections fail; of one peer that refuses nothing, none at all.
THEOREM FewAreMissing == ASSUME RefusesNothing PROVE Spec => []MissingBounded
<1>1. IInv /\ RInv /\ LossInv /\ AllWritten => MissingBounded
  <2> SUFFICES ASSUME IInv, RInv, LossInv, AllWritten, result = "downloaded"
               PROVE  Cardinality(Chunks \ written) < peers_reached
    BY DEF MissingBounded
  <2>1. stop # 0
    BY DEF LossInv, LinkInv, DownloadedStopped
  <2>2. Chunks \ written = Unfinished
    BY DEF AllWritten, IInv, WrittenCame, Unfinished
  <2> QED
    BY <2>1, <2>2, RefusesNothing, MissingAwaited DEF LossInv, SpareAtStop
<1>2. Init => AllWritten
  BY DEF Init, AllWritten
<1>3. IInv /\ AllWritten /\ [Next]_vars => AllWritten'
  BY RefusesNothing, StepWrites
<1> QED
  BY <1>1, <1>2, <1>3, Invariance, OrderInvariance, LossInvariance, RefusesNothing, PTL DEF Spec

-----------------------------------------------------------------------------
(* Peers that only answer *)

\* They may be out of reach, stay silent on the file or send the data of a
\* chunk in pieces, though not its header; poll() may fail.
PeersAnswer == Faults \subseteq {"unreachable", "silent", "stall", "interrupt"}

NoneEnded == short = {} /\ \A p \in Peers : link[p] = "up"

\* Then no connection ends, and a loop told to stop has lost no chunk: each is
\* written or still owed.  What logicp2p_download loses, it loses by not
\* waiting for it.
THEOREM NoneLost == ASSUME PeersAnswer PROVE Spec => [](stop # 0 => Lost = {})
<1>1. RefusesNothing
  BY PeersAnswer DEF PeersAnswer, RefusesNothing
<1>2. Init => NoneEnded
  BY DEF Init, NoneEnded
<1>3. IInv /\ NoneEnded /\ [Next]_vars => NoneEnded'
  <2> SUFFICES ASSUME IInv, NoneEnded, [Next]_vars PROVE UNCHANGED <<link, short>>
    BY DEF NoneEnded
  <2>1. \A p \in Peers : ~ PeerFails(p)
    BY PeersAnswer DEF PeersAnswer, PeerFails, PeerClose, PeerReset
  <2>2. CASE ConnectPeer \/ EndConnect \/ EndRequests \/ Poll \/ Finish \/ PollFails
    BY <2>2 DEF ConnectPeer, EndConnect, EndRequests, Poll, Finish, PollFails, Disconnect,
                loopVars, netVars
  <2>3. CASE RequestFile
    <3>1. i \in Peers /\ link[i] = "up"
      BY <2>3, SizesAssumption DEF RequestFile, Peers, NoneEnded, IInv, NetInv, TypeOK
    <3> QED
      BY <2>3, <3>1 DEF RequestFile, netVars, Send
  <2>4. ASSUME NEW p \in Peers,
               \/ BadRevents(p) \/ RecvEnd(p)
               \/ OpAccepted(p) \/ OpBadFileReq(p)
               \/ OpChunk(p) \/ OpChunkSeekFails(p) \/ OpBadChunkReq(p)
               \/ OpChunkShort(p) \/ OpChunkCut(p) \/ OpTail(p)
        PROVE  UNCHANGED <<link, short>>
    <3>1. link[p] = "up"
      BY DEF NoneEnded
    <3>2. ~ OpChunkShort(p)
      BY PeersAnswer DEF PeersAnswer, OpChunkShort
    <3> QED
      BY <2>4, <3>1, <3>2 DEF BadRevents, RecvEnd, OpAccepted, OpBadFileReq, OpChunk,
                              OpChunkSeekFails, OpChunkCut, OpTail, OpBadChunkReq,
                              SelectRequest, Send, Destroy, Crash, Ends, loopVars, netVars
  <2>5. ASSUME NEW p \in Peers, PeerServes(p) PROVE UNCHANGED <<link, short>>
    BY <2>5 DEF PeerServes, PeerAccept, PeerBadFile, PeerSilent, PeerChunk, PeerBadChunk,
                PeerStall, PeerResume, Reads, loopVars
  <2>6. CASE Terminated \/ UNCHANGED vars
    BY <2>6 DEF Terminated, vars
  <2> QED
    BY <2>1, <2>2, <2>3, <2>4, <2>5, <2>6 DEF Next, ClientStep
<1>4. IInv /\ NoneEnded /\ OwedAtEnd => (stop # 0 => Lost = {})
  <2> SUFFICES ASSUME IInv, NoneEnded, OwedAtEnd, stop # 0 PROVE Lost = {}
    OBVIOUS
  <2>1. {p \in Peers : link[p] # "up" \/ p \in short} = {}
    BY DEF NoneEnded
  <2>2. Cardinality(Lost) <= 0
    BY <2>1, FS_EmptySet DEF OwedAtEnd
  <2>3. IsFiniteSet(Lost)
    <3>1. Lost \in SUBSET Chunks
      BY DEF Lost
    <3> QED
      BY <3>1, SubsetBounds
  <2>4. Cardinality(Lost) = 0
    BY <2>2, <2>3, FS_CardinalityType
  <2> QED
    BY <2>3, <2>4, FS_EmptySet
<1> QED
  BY <1>1, <1>2, <1>3, <1>4, Invariance, LossesAreEnds, PTL DEF Spec

==============================================================================
