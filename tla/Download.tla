------------------------------ MODULE Download ------------------------------
(***************************************************************************)
(* The multi-source downloader of nanofiles: logicp2p_download with its    *)
(* opcode handlers (nf_ctl_logic_p2p.c), the connector it sends through    *)
(* (nf_connector.c), the TCP connections, and the peers as it sees them.   *)
(*                                                                         *)
(* One thread connects to every peer of the file, asks each for the file,  *)
(* then walks the sockets that poll() reported.  A chunk is QUEUED until   *)
(* it is asked of a peer, AWAITING until that peer sends it, then          *)
(* FINISHED.  A round of poll() is one snapshot, revents; its sockets are  *)
(* handled one per step, in index order, while the peers keep moving.      *)
(*                                                                         *)
(* TCP: each direction is a FIFO.  A close puts a FIN behind the data, or  *)
(* resets the connection when requests were left unread; sending on a      *)
(* connection the peer has closed succeeds once and brings the reset back. *)
(*                                                                         *)
(* The model ends where bytes that nobody meant as such would drive the    *)
(* program: a chunk's data read as opcodes, or a stale chunk header.  That *)
(* is the result "astray", of which nothing is said but how it comes       *)
(* about.                                                                  *)
(***************************************************************************)
EXTENDS Integers, Sequences, FiniteSets

CONSTANTS NPeers,   \* size of fi->peerlist
          NChunks,  \* ceil(fi->size / CHUNK_SIZE), 0 for an empty file
          Faults    \* what may go wrong besides the answers a good peer gives

\* "stall": a chunk comes in parts; "short": so may its header; "diskfull": the
\* output cannot be written; "interrupt": poll() fails, as a signal makes it.
FaultKinds == {"unreachable", "badfile", "silent", "badchunk", "stall", "short",
               "close", "reset", "diskfull", "interrupt"}

ASSUME SizesAssumption == NPeers \in Nat /\ NChunks \in Nat
ASSUME FaultsAssumption == Faults \subseteq FaultKinds

Peers   == 1..NPeers
Chunks  == 0..(NChunks - 1)
NoChunk == -1

\* The messages a downloader sends and those a peer sends back; of a chunk
\* "partchunk" is its beginning, the rest still to come, and "tail" the rest
\* where the beginning was read and given up.
Request == [op : {"filereq"}, chunk : {NoChunk}] \cup [op : {"chunkreq"}, chunk : Chunks]
Reply   == [op : {"accepted", "badfilereq", "badchunkreq", "tail"}, chunk : {NoChunk}]
             \cup [op : {"chunk", "partchunk"}, chunk : Chunks]

Msg(op, c) == [op |-> op, chunk |-> c]

VARIABLES
  pc,               \* "connect", "filereq", "poll" (the loop), "done"
  i,                \* index of the loop over fi->peerlist
  conn,             \* connections[p]: "null", "open", "freed" (dangling)
  fds,              \* the peers whose socket is in the poll set
  peers_reached,
  revents,          \* per peer: "none", "in" (POLLIN alone), "other"
  chunk_states,
  chunks_remaining,
  written,          \* the chunks given to fwrite()
  stop,             \* 0, 1 or 2
  result,           \* how the download ended, "none" while it goes on
  short,            \* the peers of whose chunk the header came in parts
  req,              \* per peer: what the downloader sent and it has not read
  inbox,            \* per peer: what it sent and the downloader has not read
  link              \* per peer: "up", "fin" or "rst"

loopVars  == <<pc, i, fds, peers_reached, result, short>>
chunkVars == <<chunk_states, chunks_remaining, written>>
netVars   == <<req, inbox, link>>
vars == <<pc, i, conn, fds, peers_reached, revents, chunk_states, chunks_remaining,
          written, stop, result, short, req, inbox, link>>

\* "downloaded": a handler ended the loop; "pollfailed": poll() did.  Both print
\* "file downloaded.".
Results == {"none", "unreached", "downloaded", "pollfailed", "astray", "crashed"}

TypeOK ==
  /\ pc \in {"connect", "filereq", "poll", "done"}
  /\ i \in 1..(NPeers + 1)
  /\ conn \in [Peers -> {"null", "open", "freed"}]
  /\ fds \in SUBSET Peers
  /\ peers_reached \in 0..NPeers
  /\ revents \in [Peers -> {"none", "in", "other"}]
  /\ chunk_states \in [Chunks -> {"QUEUED", "AWAITING", "FINISHED"}]
  /\ chunks_remaining \in 0..NChunks
  /\ written \in SUBSET Chunks
  /\ stop \in {0, 1, 2}
  /\ result \in Results
  /\ short \in SUBSET Peers
  /\ req \in [Peers -> Seq(Request)]
  /\ inbox \in [Peers -> Seq(Reply)]
  /\ link \in [Peers -> {"up", "fin", "rst"}]

Init ==
  /\ pc = "connect" /\ i = 1
  /\ conn = [p \in Peers |-> "null"]
  /\ fds = {} /\ peers_reached = 0
  /\ revents = [p \in Peers |-> "none"]
  /\ chunk_states = [c \in Chunks |-> "QUEUED"]
  /\ chunks_remaining = NChunks /\ written = {}
  /\ stop = 0 /\ result = "none" /\ short = {}
  /\ req = [p \in Peers |-> <<>>]
  /\ inbox = [p \in Peers |-> <<>>]
  /\ link = [p \in Peers |-> "up"]

-----------------------------------------------------------------------------
(* Sockets *)

\* nfc_destroy: the socket is closed and what it held is gone.  The caller
\* clears its pointer (how = "null") or leaves it dangling (how = "freed").
Destroy(p, how) ==
  /\ conn' = [conn EXCEPT ![p] = how]
  /\ req' = [req EXCEPT ![p] = <<>>]
  /\ inbox' = [inbox EXCEPT ![p] = <<>>]
  /\ link' = link

\* send() to p, which fails only on a connection already reset.
Send(p, m) ==
  /\ link[p] # "rst"
  /\ req' = IF link[p] = "up" THEN [req EXCEPT ![p] = Append(@, m)] ELSE req
  /\ link' = IF link[p] = "fin" THEN [link EXCEPT ![p] = "rst"] ELSE link

-----------------------------------------------------------------------------
(* Setting up *)

\* The same loop when the connection is taken as made whatever nfc_new says.
ConnectPeerUnchecked ==
  /\ pc = "connect" /\ i <= NPeers
  /\ \E reached \in {TRUE} \cup (IF "unreachable" \in Faults THEN {FALSE} ELSE {}) :
       conn' = [conn EXCEPT ![i] = IF reached THEN "open" ELSE "null"]
  /\ peers_reached' = peers_reached + 1
  /\ i' = i + 1
  /\ UNCHANGED <<pc, fds, revents, chunkVars, stop, result, short, netVars>>

ConnectPeer ==
  /\ pc = "connect" /\ i <= NPeers
  /\ \/ /\ conn' = [conn EXCEPT ![i] = "open"]
        /\ peers_reached' = peers_reached + 1
     \/ /\ "unreachable" \in Faults
        /\ UNCHANGED <<conn, peers_reached>>
  /\ i' = i + 1
  /\ UNCHANGED <<pc, fds, revents, chunkVars, stop, result, short, netVars>>

EndConnect ==
  /\ pc = "connect" /\ i > NPeers
  /\ pc' = "filereq" /\ i' = 1
  /\ chunk_states' = [c \in Chunks |-> "QUEUED"]
  /\ chunks_remaining' = NChunks
  /\ UNCHANGED <<conn, fds, peers_reached, revents, written, stop, result, short, netVars>>

RequestFile ==
  /\ pc = "filereq" /\ i <= NPeers
  /\ \/ /\ conn[i] = "null"
        /\ UNCHANGED <<conn, peers_reached, netVars>>
     \/ /\ conn[i] # "null"
        /\ Send(i, Msg("filereq", NoChunk))
        /\ UNCHANGED <<conn, peers_reached, inbox>>
     \/ /\ conn[i] # "null" /\ link[i] = "rst"
        /\ Destroy(i, "null")
        /\ peers_reached' = peers_reached - 1
  /\ i' = i + 1
  /\ UNCHANGED <<pc, fds, revents, chunkVars, stop, result, short>>

EndRequests ==
  /\ pc = "filereq" /\ i > NPeers
  /\ IF peers_reached = 0
       THEN /\ pc' = "done" /\ result' = "unreached"
            /\ UNCHANGED fds
       ELSE /\ pc' = "poll"
            /\ fds' = {p \in Peers : conn[p] # "null"}
            /\ UNCHANGED result
  /\ UNCHANGED <<i, conn, peers_reached, revents, chunkVars, stop, short, netVars>>

-----------------------------------------------------------------------------
(* One round of poll().  A timeout changes nothing, so it is a stutter.    *)

RoundOver == \A p \in fds : revents[p] = "none"

\* What poll() reports of p: a closed descriptor (POLLNVAL) and a reset
\* connection (POLLERR, POLLHUP) are not POLLIN alone; a FIN is.
Reported(p) ==
  CASE conn[p] # "open" \/ link[p] = "rst"   -> "other"
    [] conn[p] = "open" /\ link[p] # "rst"
         /\ (inbox[p] # <<>> \/ link[p] = "fin") -> "in"
    [] OTHER                                  -> "none"

Poll ==
  /\ pc = "poll" /\ stop = 0 /\ RoundOver
  /\ \E p \in fds : Reported(p) # "none"
  /\ revents' = [p \in Peers |-> IF p \in fds THEN Reported(p) ELSE "none"]
  /\ UNCHANGED <<loopVars, conn, chunkVars, stop, netVars>>

\* The walk over the sockets has reached p, which poll() reported as what.
\* stop does not break the walk.
AtSocket(p, what) ==
  /\ pc = "poll" /\ p \in fds /\ revents[p] = what
  /\ \A q \in fds : q < p => revents[q] = "none"
  /\ revents' = [revents EXCEPT ![p] = "none"]

Ends(how) ==
  /\ pc' = "done" /\ result' = how
  /\ UNCHANGED <<i, fds, peers_reached, short>>

\* A fault of memory ends the program.
Crash == Ends("crashed")

\* revents other than POLLIN: the connection is destroyed and its pointer
\* kept.  Destroying one already freed is undefined: the allocator aborts
\* or, where it does not notice, the walk goes on.
BadRevents(p) ==
  /\ AtSocket(p, "other")
  /\ \/ /\ conn[p] = "null"
        /\ UNCHANGED <<loopVars, conn, netVars>>
     \/ /\ conn[p] = "open"
        /\ Destroy(p, "freed") /\ UNCHANGED loopVars
     \/ /\ conn[p] = "freed"
        /\ Crash \/ UNCHANGED loopVars
        /\ UNCHANGED <<conn, netVars>>
  /\ UNCHANGED <<chunkVars, stop>>

\* recv() returns 0 after a FIN, -1 after a reset.
RecvEnd(p) ==
  /\ AtSocket(p, "in") /\ inbox[p] = <<>>
  /\ Destroy(p, "null")
  /\ UNCHANGED <<loopVars, chunkVars, stop>>

Received(p, op) ==
  /\ AtSocket(p, "in") /\ inbox[p] # <<>> /\ Head(inbox[p]).op = op

\* The search of select_next_chunk, stopping one chunk too early.
NoneQueuedButLast(cs) == \A c \in Chunks : c < NChunks - 1 => cs[c] # "QUEUED"

NoneQueued(cs) == \A c \in Chunks : cs[c] # "QUEUED"

\* select_next_chunk, with a search that starts past the first chunk.
IsNextSkippingFirst(cs, c) ==
  /\ cs[c] = "QUEUED"
  /\ \A d \in Chunks : 0 < d /\ d < c => cs[d] # "QUEUED"

\* select_next_chunk: the first queued chunk.
IsNext(cs, c) ==
  /\ cs[c] = "QUEUED"
  /\ \A d \in Chunks : d < c => cs[d] # "QUEUED"

\* select_request_chunk without the assignment that follows the send.
SelectRequestUnmarked(p, cs, stopIfNone) ==
  \/ /\ NoneQueued(cs)
     /\ chunk_states' = cs /\ stop' = stopIfNone
     /\ inbox' = [inbox EXCEPT ![p] = Tail(@)]
     /\ UNCHANGED <<conn, req, link>>
  \/ /\ \E c \in Chunks : IsNext(cs, c) /\ Send(p, Msg("chunkreq", c))
     /\ chunk_states' = cs /\ stop' = 0
     /\ inbox' = [inbox EXCEPT ![p] = Tail(@)]
     /\ UNCHANGED conn
  \/ /\ ~ NoneQueued(cs) /\ link[p] = "rst"
     /\ Destroy(p, "freed")
     /\ chunk_states' = cs /\ stop' = 0

\* The end of every handler that wants another chunk, on the chunk states cs
\* it has come to: select_request_chunk, then stop gets stopIfNone when no
\* chunk is queued and 0 otherwise.  A failed send frees the connection and
\* leaves the caller's pointer dangling.
SelectRequest(p, cs, stopIfNone) ==
  \/ /\ NoneQueued(cs)
     /\ chunk_states' = cs /\ stop' = stopIfNone
     /\ inbox' = [inbox EXCEPT ![p] = Tail(@)]
     /\ UNCHANGED <<conn, req, link>>
  \/ /\ \E c \in Chunks :
          /\ IsNext(cs, c)
          /\ Send(p, Msg("chunkreq", c))
          /\ chunk_states' = [cs EXCEPT ![c] = "AWAITING"]
     /\ stop' = 0
     /\ inbox' = [inbox EXCEPT ![p] = Tail(@)]
     /\ UNCHANGED conn
  \/ /\ ~ NoneQueued(cs) /\ link[p] = "rst"
     /\ Destroy(p, "freed")
     /\ chunk_states' = cs /\ stop' = 0

\* op_accepted counting the chunk it asks for as one it has.
OpAcceptedCounting(p) ==
  /\ Received(p, "accepted")
  /\ SelectRequest(p, chunk_states, 2)
  /\ chunks_remaining' = chunks_remaining - 1
  /\ UNCHANGED <<loopVars, written>>

OpAccepted(p) ==
  /\ Received(p, "accepted")
  /\ SelectRequest(p, chunk_states, 2)
  /\ UNCHANGED <<loopVars, chunks_remaining, written>>

\* op_badfilereq closing the connection it gives up.
OpBadFileReqDestroy(p) ==
  /\ Received(p, "badfilereq")
  /\ Destroy(p, "freed")
  /\ stop' = 2
  /\ UNCHANGED <<loopVars, chunkVars>>

OpBadFileReq(p) ==
  /\ Received(p, "badfilereq")
  /\ inbox' = [inbox EXCEPT ![p] = Tail(@)]
  /\ stop' = 2
  /\ UNCHANGED <<loopVars, conn, chunkVars, req, link>>

\* op_chunk trusting the comparison of the address with 0 to end the loop.
OpChunkGoesOn(p) ==
  /\ Received(p, "chunk")
  /\ SelectRequest(p, [chunk_states EXCEPT ![Head(inbox[p]).chunk] = "FINISHED"], 0)
  /\ chunks_remaining' = chunks_remaining - 1
  /\ written' = written \cup {Head(inbox[p]).chunk}
  /\ UNCHANGED loopVars

\* A whole chunk: it is written at its offset, counted, and another is asked
\* for.  The test that compares the address chunks_remaining with 0 is never
\* true; running out of queued chunks is what ends the loop.
OpChunk(p) ==
  /\ Received(p, "chunk")
  /\ SelectRequest(p, [chunk_states EXCEPT ![Head(inbox[p]).chunk] = "FINISHED"], 1)
  /\ chunks_remaining' = chunks_remaining - 1
  /\ written' = written \cup {Head(inbox[p]).chunk}
  /\ UNCHANGED loopVars

\* fseek() has to write out what fwrite() buffered and finds the disk full: the
\* chunk is FINISHED already, and is neither written nor counted.
OpChunkSeekFails(p) ==
  /\ "diskfull" \in Faults
  /\ Received(p, "chunk")
  /\ chunk_states' = [chunk_states EXCEPT ![Head(inbox[p]).chunk] = "FINISHED"]
  /\ inbox' = [inbox EXCEPT ![p] = Tail(@)]
  /\ stop' = 1
  /\ UNCHANGED <<loopVars, conn, chunks_remaining, written, req, link>>

\* The header of the chunk has not come whole: the handler gives up, and what
\* comes after stays on the connection.  When the header is there and the data
\* is not, the handler blocks in recv() and the downloader takes no step.
OpChunkShort(p) ==
  /\ "short" \in Faults
  /\ Received(p, "partchunk") /\ link[p] = "up"
  /\ inbox' = [inbox EXCEPT ![p][1] = Msg("tail", NoChunk)]
  /\ short' = short \cup {p}
  /\ stop' = 0
  /\ UNCHANGED <<pc, i, fds, peers_reached, result, conn, chunkVars, req, link>>

\* The connection ends inside a chunk.  In the header, recv() gives part of it,
\* or 0 after a FIN, for which the handler frees the connection and clears only
\* its own copy of the pointer; the -1 of a reset is stored unsigned, passes
\* both tests, and the header left in the buffer is used.  In the data, the
\* handler goes on receiving through the pointer it has just cleared.
OpChunkCut(p) ==
  /\ Received(p, "partchunk") /\ link[p] # "up"
  /\ \/ /\ inbox' = [inbox EXCEPT ![p] = Tail(@)]
        /\ stop' = 0
        /\ UNCHANGED <<loopVars, conn, req, link>>
     \/ /\ link[p] = "fin"
        /\ Destroy(p, "freed") /\ stop' = 0 /\ UNCHANGED loopVars
     \/ /\ link[p] = "rst"
        /\ Ends("astray") /\ UNCHANGED <<conn, stop, netVars>>
     \/ Crash /\ UNCHANGED <<conn, stop, netVars>>
  /\ UNCHANGED chunkVars

\* What followed a short header is read a byte at a time as opcodes: none is
\* one, or one of them starts a handler on bytes of the file.
OpTail(p) ==
  /\ Received(p, "tail")
  /\ \/ /\ inbox' = [inbox EXCEPT ![p] = Tail(@)]
        /\ UNCHANGED <<loopVars, conn, req, link>>
     \/ Ends("astray") /\ UNCHANGED <<conn, netVars>>
  /\ UNCHANGED <<chunkVars, stop>>

\* The chunk refused stays AWAITING; another is asked for.
OpBadChunkReq(p) ==
  /\ Received(p, "badchunkreq")
  /\ SelectRequest(p, chunk_states, 1)
  /\ UNCHANGED <<loopVars, chunks_remaining, written>>

\* After the loop: every connection left is destroyed, which is undefined for
\* one already freed, and the file is said to be downloaded.
Disconnect(how) ==
  /\ pc' = "done"
  /\ \/ result' = how
     \/ (\E p \in Peers : conn[p] = "freed") /\ result' = "crashed"
  /\ UNCHANGED <<i, conn, fds, peers_reached, revents, chunkVars, stop, short, netVars>>

Finish ==
  /\ pc = "poll" /\ stop # 0 /\ RoundOver
  /\ Disconnect("downloaded")

\* poll() < 0 ends the loop as a handler does.
PollFails ==
  /\ "interrupt" \in Faults
  /\ pc = "poll" /\ stop = 0 /\ RoundOver
  /\ Disconnect("pollfailed")

ClientStep ==
  \/ ConnectPeer \/ EndConnect \/ RequestFile \/ EndRequests
  \/ Poll \/ Finish
  \/ \E p \in Peers :
       \/ BadRevents(p) \/ RecvEnd(p)
       \/ OpAccepted(p) \/ OpBadFileReq(p)
       \/ OpChunk(p) \/ OpChunkSeekFails(p) \/ OpBadChunkReq(p)
       \/ OpChunkShort(p) \/ OpChunkCut(p) \/ OpTail(p)

-----------------------------------------------------------------------------
(* The peers, as their client_loop answers this downloader.                *)

\* p's thread reads the request at the head of req[p], with opcode op.
Reads(p, op) ==
  /\ pc # "done" /\ conn[p] = "open" /\ link[p] = "up"
  /\ req[p] # <<>> /\ Head(req[p]).op = op
  /\ req' = [req EXCEPT ![p] = Tail(@)]
  /\ UNCHANGED <<loopVars, conn, revents, chunkVars, stop, link>>

Replies1(p, m) == inbox' = [inbox EXCEPT ![p] = Append(@, m)]

\* client_loop without the break that follows a failed fopen: the request is
\* answered and stays to be read again.
PeerAcceptAgain(p) ==
  /\ pc # "done" /\ conn[p] = "open" /\ link[p] = "up"
  /\ req[p] # <<>> /\ Head(req[p]).op = "filereq"
  /\ Replies1(p, Msg("accepted", NoChunk))
  /\ UNCHANGED <<loopVars, conn, revents, chunkVars, stop, link, req>>

PeerAccept(p) ==
  Reads(p, "filereq") /\ Replies1(p, Msg("accepted", NoChunk))

PeerBadFile(p) ==
  /\ "badfile" \in Faults
  /\ Reads(p, "filereq") /\ Replies1(p, Msg("badfilereq", NoChunk))

\* The file is known but cannot be opened: nothing is sent.
PeerSilent(p) ==
  /\ "silent" \in Faults
  /\ Reads(p, "filereq") /\ UNCHANGED inbox

PeerChunk(p) ==
  Reads(p, "chunkreq") /\ Replies1(p, Msg("chunk", Head(req[p]).chunk))

\* The file became shorter than the chunk requested.
PeerBadChunk(p) ==
  /\ "badchunk" \in Faults
  /\ Reads(p, "chunkreq") /\ Replies1(p, Msg("badchunkreq", NoChunk))

\* A chunk does not arrive whole: some of it first, the rest later.
PeerStall(p) ==
  /\ "stall" \in Faults
  /\ Reads(p, "chunkreq") /\ Replies1(p, Msg("partchunk", Head(req[p]).chunk))

PeerResume(p) ==
  /\ pc # "done" /\ conn[p] = "open" /\ link[p] = "up"
  /\ inbox[p] # <<>> /\ Head(inbox[p]).op = "partchunk"
  /\ inbox' = [inbox EXCEPT ![p][1] = Msg("chunk", Head(inbox[p]).chunk)]
  /\ UNCHANGED <<loopVars, conn, revents, chunkVars, stop, req, link>>

PeerServes(p) ==
  \/ PeerAccept(p) \/ PeerBadFile(p) \/ PeerSilent(p)
  \/ PeerChunk(p) \/ PeerBadChunk(p) \/ PeerStall(p) \/ PeerResume(p)

Hangup(p, how) ==
  /\ pc # "done" /\ conn[p] = "open" /\ link[p] = "up"
  /\ link' = [link EXCEPT ![p] = how]
  /\ UNCHANGED <<loopVars, conn, revents, chunkVars, stop, inbox>>

\* The peer quits: a FIN, or a reset when it had not read a request.
PeerClose(p) ==
  /\ "close" \in Faults
  /\ Hangup(p, IF req[p] = <<>> THEN "fin" ELSE "rst")
  /\ req' = [req EXCEPT ![p] = <<>>]

PeerReset(p) ==
  /\ "reset" \in Faults
  /\ Hangup(p, "rst")
  /\ req' = [req EXCEPT ![p] = <<>>]

PeerFails(p) == PeerClose(p) \/ PeerReset(p)

-----------------------------------------------------------------------------
Terminated == pc = "done" /\ UNCHANGED vars

Next ==
  \/ ClientStep \/ PollFails
  \/ \E p \in Peers : PeerServes(p) \/ PeerFails(p)
  \/ Terminated

\* The downloader's thread is scheduled; a peer that is up answers what it
\* reads and sends what it began to send.  Nothing has to fail, poll() neither.
Fairness ==
  /\ WF_vars(ClientStep)
  /\ \A p \in Peers : WF_vars(PeerServes(p))

Spec == Init /\ [][Next]_vars
FairSpec == Spec /\ Fairness

-----------------------------------------------------------------------------
(* Properties *)

\* p has been asked for chunk c and the answer has not been handled.
Owes(p, c) == \/ \E k \in DOMAIN req[p] : req[p][k].chunk = c
              \/ \E k \in DOMAIN inbox[p] : inbox[p][k].chunk = c

\* At most one message is under way between the downloader and a peer: the
\* server reads a whole buffer and looks at one opcode (client_loop), so two
\* requests in a row would be taken for one.
OneRequestInFlight == \A p \in Peers : Len(req[p]) + Len(inbox[p]) <= 1

\* A chunk under way is awaited, and by one connection only: no chunk is
\* asked of two peers, nor again once it is FINISHED.
ChunkHeldOnce ==
  \A p, q \in Peers : \A c \in Chunks :
    /\ Owes(p, c) => chunk_states[c] = "AWAITING"
    /\ Owes(p, c) /\ Owes(q, c) => p = q

\* chunks_remaining counts the chunks not given to fwrite() yet: every chunk
\* that comes is counted once, one that fseek() fails on is not.
RemainingCounts == chunks_remaining = Cardinality(Chunks \ written)

\* The poll set, allocated for peers_reached entries, has that many.
PollSlotsFit == pc = "poll" => Cardinality(fds) = peers_reached

\* The chunks QUEUED are the ones past all those asked for: the download is
\* sequential ("sequential download", nf_ctl_logic_p2p.c:56).
Sequential ==
  \A c, d \in Chunks : c < d /\ chunk_states[c] = "QUEUED" => chunk_states[d] = "QUEUED"

\* The chunks that nobody will send any more.
Lost == {c \in Chunks : /\ chunk_states[c] # "FINISHED"
                        /\ \A p \in Peers : ~ Owes(p, c)}

\* A loop about to end has lost no chunk but those that were under way on
\* connections that ended or whose header came in parts, one each; every other
\* is written or still owed by a peer.  This is of peers that refuse nothing
\* and a disk with room (logicp2p_download).
OwedAtEnd ==
  stop # 0 => Cardinality(Lost) <= Cardinality({p \in Peers : link[p] # "up" \/ p \in short})

\* Once a handler has told the loop to stop for want of chunks to ask for, no
\* handler later in the same walk of the sockets takes it back, but op_chunk
\* on a chunk of which only a part has come.
StopSticks ==
  [][stop # 0 /\ NoneQueued(chunk_states) /\ (\A p \in Peers : ~ Received(p, "partchunk"))
       => stop' # 0]_vars

\* A download that says "file downloaded." has every chunk.
CompleteWhenDownloaded == result \in {"downloaded", "pollfailed"} => written = Chunks

\* Where a handler ended the loop, fewer chunks are missing than peers were
\* reached, even when connections fail and headers come in parts: each
\* connection loses at most the chunk it was asked for last, and the one whose
\* handler ended the loop loses none.  With one peer, the file is complete.
\* This is of peers that refuse nothing and a disk with room; where poll() ends
\* the loop, any number may be missing.
MissingBounded == result = "downloaded" => Cardinality(Chunks \ written) < peers_reached

\* Peers that refuse, stay silent or cannot be reached never crash it or lead
\* it astray, nor do a full disk and a failing poll(): either has its cause in
\* a connection that a peer ended or a chunk whose header came in parts.
CrashNeedsLostPeer ==
  result \in {"crashed", "astray"} => short # {} \/ \E p \in Peers : link[p] # "up"

\* The download as ChunkTransfer sees it.
Transfer == INSTANCE ChunkTransfer
              WITH N <- NChunks, MayGiveUp <- Faults \cap {"badfile", "diskfull"} # {},
                   asked <- {c \in Chunks : chunk_states[c] # "QUEUED"},
                   got <- {c \in Chunks : chunk_states[c] = "FINISHED"},
                   outcome <- result

\* The downloader implements it under every fault modelled.
ImplementsTransfer == Transfer!TransferSpec

\* A connection that ended inside a chunk.
CutInside(p) == link[p] # "up" /\ inbox[p] # <<>> /\ Head(inbox[p]).op = "partchunk"

\* logicp2p_download returns, or is left with no connection at all: the walk
\* then keeps polling the closed descriptors of connections that ended.  A
\* connection that ends inside a chunk excuses it too: op_chunk returns 0,
\* which takes back a decision to stop made earlier in the walk, and where the
\* double destruction that follows goes unnoticed, the peer whose handler
\* decided to stop is never asked anything again.  So does a header that came
\* in parts: its peer is asked for nothing more and stays connected.
Returns ==
  <>(\/ pc = "done"
     \/ pc = "poll" /\ \A p \in Peers : conn[p] # "open"
     \/ short # {} \/ \E p \in Peers : CutInside(p))
=============================================================================
