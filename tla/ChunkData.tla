------------------------------ MODULE ChunkData ------------------------------
(***************************************************************************)
(* The bytes of a download: how select_next_chunk cuts a file into chunks, *)
(* what a peer reads for an offset and a size (client_loop), and what      *)
(* op_chunk writes where (nf_ctl_logic_p2p.c).  Module Download has the    *)
(* peers, their order and their faults, and chunks without bytes; here one *)
(* peer answers every request, and integers have their widths.             *)
(*                                                                         *)
(* The size in the directory is the one the file had when it was scanned;  *)
(* the peer reads the file as it is now.  The disk may be full.            *)
(***************************************************************************)
EXTENDS Integers, FiniteSets

CONSTANTS ChunkSize,
          IntLimit,   \* 2^31: an int is in -IntLimit..(IntLimit - 1)
          FileSizes,  \* sizes of the file, published and now
          DiskSizes   \* bytes left on the disk of the downloader

\* A chunk starts at IntLimit, as it does for 2 MiB and 2 GiB.
ASSUME SizesAssumption == /\ ChunkSize \in Nat \ {0} /\ IntLimit \in Nat \ {0}
                          /\ IntLimit % ChunkSize = 0
                          /\ FileSizes \subseteq Nat /\ DiskSizes \subseteq Nat

None == [op |-> "none", offset |-> 0, size |-> 0]

VARIABLES
  filesize,         \* fi->size
  served,           \* the size of the peer's file
  room,             \* bytes left on the disk
  chunk_states,     \* per chunk: "queued", "awaiting", "finished"
  chunks_remaining,
  msg,              \* the message under way
  output,           \* the file written: per position, the peer's byte it has
  done              \* the loop has ended

vars == <<filesize, served, room, chunk_states, chunks_remaining, msg, output, done>>

Bare(op) == [op |-> op, offset |-> 0, size |-> 0]

\* An int, two's complement: what the product overflows to in the build.
Int32(n) == ((n + IntLimit) % (2 * IntLimit)) - IntLimit

Chunks == (filesize \div ChunkSize) + (IF filesize % ChunkSize > 0 THEN 1 ELSE 0)

\* Mutant: counted from one.
OffsetFromOne(chunk) == Int32(ChunkSize * (chunk + 1))

Offset(chunk) == Int32(ChunkSize * chunk)

\* Mutant: the last chunk is as long as the others.
SizeFull(chunk) == ChunkSize

Size(chunk) == IF filesize % ChunkSize # 0 /\ chunk = Chunks - 1
               THEN filesize % ChunkSize ELSE ChunkSize

Init == /\ filesize \in FileSizes /\ served \in FileSizes /\ room \in DiskSizes
        /\ chunk_states = [i \in 0..(Chunks - 1) |-> "queued"]
        /\ chunks_remaining = Chunks
        /\ msg = Bare("accepted")
        /\ output = [x \in {} |-> x]
        /\ done = FALSE

-----------------------------------------------------------------------------
\* select_request_chunk, on the states the handler leaves.
SelectRequest(states) ==
  \/ /\ \A i \in DOMAIN states : states[i] # "queued"
     /\ done' = TRUE /\ msg' = Bare("none") /\ chunk_states' = states
  \/ \E chunk \in DOMAIN states :
     /\ states[chunk] = "queued" /\ \A i \in 0..(chunk - 1) : states[i] # "queued"
     /\ msg' = [op |-> "chunkreq", offset |-> Offset(chunk), size |-> Size(chunk)]
     /\ chunk_states' = [states EXCEPT ![chunk] = "awaiting"]
     /\ UNCHANGED done

OpAccepted == /\ msg.op = "accepted"
              /\ SelectRequest(chunk_states)
              /\ UNCHANGED <<filesize, served, room, chunks_remaining, output>>

\* Mutant: the peer sends what it could read.
ServeShort == /\ msg.op = "chunkreq"
              /\ \/ /\ msg.offset >= 0 /\ msg.offset < served
                    /\ msg' = [msg EXCEPT !.op = "chunk", !.size =
                                 IF served - msg.offset < @ THEN served - msg.offset ELSE @]
                 \/ /\ msg.offset < 0 \/ msg.offset >= served
                    /\ msg' = Bare("badchunkreq")
              /\ UNCHANGED <<filesize, served, room, chunk_states, chunks_remaining, output, done>>

\* The peer: an offset that is negative as a long fails fseek, and a piece that
\* is not all in the file is refused.
Serve == /\ msg.op = "chunkreq"
         /\ \/ /\ msg.offset >= 0 /\ msg.offset + msg.size <= served
               /\ msg' = [msg EXCEPT !.op = "chunk"]
            \/ /\ msg.offset < 0 \/ msg.offset + msg.size > served
               /\ msg' = Bare("badchunkreq")
         /\ UNCHANGED <<filesize, served, room, chunk_states, chunks_remaining, output, done>>

\* fwrite of the peer's size bytes from offset on, at position at: what does not
\* fit on the disk is left out.  Bytes written over take no room.
Write(at, offset, size) ==
  LET new(x)  == (at..x) \ DOMAIN output
      written == {x \in at..(at + size - 1) : Cardinality(new(x)) <= room}
  IN  /\ output' = [x \in DOMAIN output \cup written |->
                      IF x \in written THEN offset + (x - at) ELSE output[x]]
      /\ room' = room - Cardinality(written \ DOMAIN output)

\* Mutant: no fseek; chunks are written one behind the other.
OpChunkInOrder ==
  /\ msg.op = "chunk"
  /\ Write(ChunkSize * (Chunks - chunks_remaining), msg.offset, msg.size)
  /\ chunks_remaining' = chunks_remaining - 1
  /\ SelectRequest([chunk_states EXCEPT ![msg.offset \div ChunkSize] = "finished"])
  /\ UNCHANGED <<filesize, served>>

\* A short write is counted as the chunk: fwrite is never negative.
OpChunk ==
  /\ msg.op = "chunk"
  /\ Write(msg.offset, msg.offset, msg.size)
  /\ chunks_remaining' = chunks_remaining - 1
  /\ SelectRequest([chunk_states EXCEPT ![msg.offset \div ChunkSize] = "finished"])
  /\ UNCHANGED <<filesize, served>>

\* Mutant: the refused chunk is asked for again.
OpBadChunkReqRetrying ==
  /\ msg.op = "badchunkreq"
  /\ SelectRequest([i \in DOMAIN chunk_states |->
       IF chunk_states[i] = "awaiting" THEN "queued" ELSE chunk_states[i]])
  /\ UNCHANGED <<filesize, served, room, chunks_remaining, output>>

OpBadChunkReq == /\ msg.op = "badchunkreq"
                 /\ SelectRequest(chunk_states)
                 /\ UNCHANGED <<filesize, served, room, chunks_remaining, output>>

Terminated == done /\ UNCHANGED vars

Next == OpAccepted \/ Serve \/ OpChunk \/ OpBadChunkReq \/ Terminated

Spec == Init /\ [][Next]_vars

\* Both ends answer.
FairSpec == Spec /\ WF_vars(OpAccepted \/ Serve \/ OpChunk \/ OpBadChunkReq)

-----------------------------------------------------------------------------
(* Properties.                                                             *)

Finished == {i \in DOMAIN chunk_states : chunk_states[i] = "finished"}

\* The positions of a chunk in the file, by the definition of a chunk.
Positions(chunk) == {x \in 0..(filesize - 1) : x \div ChunkSize = chunk}

\* The state is well formed; in particular a chunk received is one of the file's
\* (op_chunk indexes chunk_states with it).
TypeOK ==
  /\ filesize \in FileSizes /\ served \in FileSizes /\ room \in Int
  /\ chunk_states \in [0..(Chunks - 1) -> {"queued", "awaiting", "finished"}]
  /\ chunks_remaining \in Int
  /\ msg \in [op : {"accepted", "chunkreq", "chunk", "badchunkreq", "none"},
             offset : (-IntLimit)..(IntLimit - 1), size : 0..ChunkSize]
  /\ msg.op = "chunk" => msg.offset \div ChunkSize \in 0..(Chunks - 1)
  /\ DOMAIN output \subseteq Nat /\ done \in BOOLEAN

\* A byte written is at the position the peer's file has it at, and within the
\* size of the file, also when offsets overflow (select_next_chunk, op_chunk).
BytesInPlace == \A x \in DOMAIN output : output[x] = x /\ x < filesize

\* A chunk marked finished is in the output, but for what a full disk cut off, up
\* to 4 GiB.  Further on the last chunk, wrapped around, may finish another one
\* with fewer bytes.
FinishedIsWritten ==
  room > 0 /\ filesize <= 2 * IntLimit =>
    \A i \in Finished : Positions(i) \subseteq DOMAIN output

\* When the download ends, every byte below 2 GiB is in the output whose chunk the
\* peer's file has whole: a file of up to 2 GiB that is as it was published comes
\* over whole, and a larger or changed one as far as that.
CoveredBelowLimit ==
  done /\ room > 0 =>
    \A i \in DOMAIN chunk_states :
      ChunkSize * i < IntLimit /\ Positions(i) \subseteq 0..(served - 1)
        => Positions(i) \subseteq DOMAIN output

\* The download ends, whatever is refused.
Ends == <>done
=============================================================================
