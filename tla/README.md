# A verification model of nanofiles-c

nanofiles-c is a small peer-to-peer file-sharing system in C. A UDP directory
server keeps which peer publishes which file; a client publishes its files to
the directory, serves them to other peers over TCP, and downloads a file from
all the peers that have it at once.

This directory holds TLA+ modules translated from its source, the TLC
configurations that check them on small instances, and TLAPS proofs of theorems
that hold for every instance. `PROJECT.json` maps each definition to the lines
it stands for, and lists runs, mutants, hazards, findings and theorems.

Contents: [1 The system](#1-the-system) · [2 The modules](#2-the-modules) · [3
The runs](#3-the-runs) · [4 Bounds](#4-bounds-and-why-they-are-enough) · [5
Fairness](#5-fairness) · [6 Proofs](#6-proofs) · [7 Where code and documents
disagree](#7-where-code-and-documents-disagree) · [8 What is not
modelled](#8-what-is-not-modelled) · [9 Plan](#9-plan)

## 1 The system

| Component | Source | State | Operations |
|---|---|---|---|
| Multi-source download | `nf_ctl_logic_p2p.c:30-399`, `nf_connector.c` | `connections[]`, `chunk_states`, `chunks_remaining`, `peers_reached`, `stop`, `fds` and `revents` | connect, request the file, poll, `op_accepted`, `op_badfilereq`, `op_chunk`, `op_badchunkreq` |
| Chunk arithmetic and data | `nf_ctl_logic_p2p.c:56-200, 425-470` | offsets and sizes of chunks, the output file | `select_next_chunk`, the server's fseek/fread, `op_chunk`'s fseek/fwrite |
| Peer server | `nf_ctl_logic_p2p.c:401-540`, `nf_server.c` | `lp->nfs`, connections, each thread's `reqd_file`, the shared `recv_buff` | `startserver`, accept, `client_loop` |
| Peer messages | `nf_message.c` | the one `msg_buff` | one builder per opcode |
| Directory client | `directory_connector.c`, `nf_ctl_logic_dir.c` | socket, count of forwardings, static `recv_buff` | `dc_request` with timeout and retry; ping, publish, fetch, test |
| Directory server | `dir_server.c` | the database of files and their peers | test, ping, filelist, publish, register a peer |
| Directory messages | `dir_message.c` | the buffer printed to | (de)serialisation of each message |
| File database | `filedb.c` | vector of files, each with a vector of peers; the scan's static `buff`, `errno` | scan, insert, find |
| Controller, main | `nf_controller.c`, `main.c` | online state | one handler per command, exit |
| Shell, utilities | `nf_shell.c`, `netutil.c`, `util.c` | none to speak of | line input, wrappers |

How they interact. The controller calls the directory client, which exchanges
one datagram for one with the directory server: a reply carries no identifier,
and a timeout sends the request again. A download takes the peers of a file from
the last list fetched and opens a TCP connection to each. What a client
publishes is what its scan of the shared directory found as it started; the list
goes to the directory and from there to others as text in one datagram. On the
other side of a download an accept loop starts a detached thread per
connection. These threads share, without a lock, one receive buffer and one
message buffer, and the latter also with the main thread when it downloads; all
share the file database, which `quit` frees.

What is hard, and so what the models are about:

- *Ordering among peers.* Chunks come back from several peers in any order
  while `poll()`'s snapshot is walked; connections end in the middle; `stop` is
  assigned by every handler; freed connections stay in the array.
- *UDP.* Requests and replies are lost, late, duplicated, reordered; the
  directory answers a publish before it has registered the files; it keeps its
  database in memory and may be restarted; the client's buffer keeps the tail
  of a longer reply.
- *Threads.* Every use of a shared buffer races with every other thread's.
- *Limits.* File descriptors that are never closed, products of ints that
  overflow at 2 GiB, a disk that fills up, lists longer than a datagram, vectors
  that outgrow their blocks.
- *Texts.* File names may contain the separators of the protocol; what is cut
  off, and where, decides what the reader makes of the rest.
- *A directory that changes.* The scan looks at a file three times, and its
  errors travel up through `errno` rather than through results.

What makes each component correct:

- download: every chunk asked for once and in order, none under way twice, the
  count right, no chunk lost when the loop ends, the function returns;
- chunk data: the chunks cut the file exactly, every byte written in its place,
  what counts as finished is written;
- peer server: one reply for each request, and the right one; requests do not
  bring the process down;
- directory: retransmission is harmless, an acknowledged publish can be found,
  a client takes the reply to its own request, no file is listed for a peer
  that does not have it, every command returns;
- texts: what is read was printed, whatever the names; a file that was published
  can be asked for; only length does harm;
- file database: a record is true of the file it names, what cannot be read costs
  only what is near it, the vectors stay inside their blocks.

## 2 The modules

| Module | Models | Extended or instantiated by |
|---|---|---|
| `ChunkTransfer` | abstract specification: what a download promises | `Download` (refinement mapping `Transfer`) |
| `Download` | the downloader, its connections, its peers | `DownloadProofs` |
| `DownloadProofs` | theorems about `Download`: its inductive invariant, crashes, the decision to stop, and that it implements `ChunkTransfer` | `DownloadOwedProofs` |
| `DownloadOwedProofs` | how many chunks peers that refuse nothing can lose | |
| `ChunkData` | the bytes behind the chunks, integers at their width | `MCChunkData`, `ChunkDataProofs` |
| `ChunkDataProofs` | theorems about `ChunkData` | |
| `Registry` | abstract specification: what the directory promises | `Directory` (refinement mapping `Promises`) |
| `Directory` | directory server, its clients, the network between | `MCDirectory`, `DirectoryProofs` |
| `DirectoryProofs` | theorems about `Directory`: the database, that it implements `Registry`, and requests, replies and lists in step | |
| `DirMessage` | the texts of the directory protocol | `Catalogue`, `DirMessageProofs` |
| `DirMessageProofs` | what is read of a text that was printed and cut | `CatalogueProofs` |
| `Catalogue` | files published, listed and asked for by way of these texts | `MCCatalogue`, `CatalogueProofs` |
| `CatalogueProofs` | theorems about `Catalogue` | |
| `Vectors` | the growing vectors of `filedb.c` | `FileDb` |
| `FileDb` | the scan of the shared directory | `MCFileDb`, `FileDbProofs` |
| `FileDbProofs` | theorems about `FileDb` and `Vectors` | |
| `PeerServer` | the server threads and the buffers they share | `MCPeerServer`, `PeerServerProofs` |
| `PeerServerProofs` | theorems about `PeerServer` | |

A definition whose comment begins with "Mutant", or whose name says what it gets
wrong (`ConnectPeerUnchecked`, `RespondPublishButFirst`), is a plausible bug,
put beside the definition it replaces when a property's sensitivity is tested.
`Next` uses none of them.

### Download

*State.* `conn`, `chunk_states`, `chunks_remaining`, `peers_reached`, `stop` and
`fds` are the variables of `logicp2p_download`, `revents` is what the last
`poll()` wrote; `req`, `inbox`, `link` are the two directions and the status of
each TCP connection; `pc` and `i` say where the function is, `result` what it
returned. `conn[p]` tells an unused slot ("null") from a live connection and
from one that was destroyed but whose pointer is still in the array ("freed"),
because the code reads it again.

*Actions.* One per iteration of the connect loop and of the file request loop;
`poll()`, which takes the snapshot; and for each socket of the snapshot, in
index order, one action per outcome: bad `revents`, end of stream, each opcode
handler. A handler's action includes the `select_request_chunk` it ends with, and
what that does when `send` fails. `op_chunk` has several: `OpChunk` for a chunk
that came whole; `OpChunkSeekFails`, where `fseek` flushes to a full disk and the
chunk, FINISHED by then, is neither written nor counted; `OpChunkShort`, where one
`recv()` gave only part of the header and the handler gives up on a live
connection, leaving a "tail" behind; and `OpChunkCut`, where the connection ends in
the middle. Where the header came and the data did not, the handler blocks. A tail
is read as opcodes (`OpTail`). The loop ends by a handler's `stop` (`Finish`) or by
`poll()` failing (`PollFails`), and prints "file downloaded." either way
(`Disconnect`). A peer reads one request at a time, as `client_loop` does, and
accepts, refuses, stays silent (its `fopen` failed), sends a chunk whole or in
parts, refuses a chunk, closes or resets. What the code does through a dangling or
NULL pointer is a choice between a crash and going on.

*Abstraction.* Chunks have no bytes (`ChunkData` has them); `written` is the
chunks that `fwrite` got. `Faults` says which misbehaviour an instance allows, so
that a property can be stated for exactly the peers under which it holds. Once
bytes of a file, or a stale header, have started a handler, anything may follow:
the result is then "astray" and the model ends. `CrashNeedsLostPeer` says what it
takes to get there.

`ChunkTransfer` is the specification it implements: chunks are asked for in
order and once each, obtained at most once and after they were asked for, and a
handler ends the download only when all were asked for, unless one may give up
(`MayGiveUp`: on a peer that refuses the file, or a full disk). A download ended by
`poll()` failing has the outcome "pollfailed", with no such promise.

### ChunkData

One peer answers every request of one download. `filesize` is the size the
directory has, `served` the size of the peer's file now; they differ when the
file was changed after the scan. `Offset` is the product of two ints at their
width: `IntLimit` stands for 2^31 and `Int32` is what the build computes.
`output` maps the positions written to the byte of the peer's file they hold.
`room` is the space left on disk: `fwrite` writes what fits and its result is
compared with `< 0`, which is never true.

What follows for large files: from chunk 1024 on (2 GiB, `IntLimit`) the offset
is negative, the peer refuses it, and the file ends with holes; from chunk 2048
on (4 GiB) the offset has wrapped around and an earlier chunk is fetched again
and written to its old place. So bytes never land in a wrong place
(`BytesInPlace`, proved), and below the limit the file comes over whole
(`CoveredBelowLimit`).

### Directory

*State.* Per client what its shell waits for, `dc_request`'s count, the stale
text in its receive buffer, the online state, the last list, the files on its
disk, and its `NF_DIR_PROTOCOL_ID`; of the directory whether it runs (`up`,
`epoch` counts its lives), its database `registry`, and what it still has to
register after its acknowledgement (`todo`, `client_sa`); and both directions of
the network as sequences of datagrams.

*Actions.* A command sends a request; `Timeout` repeats it or gives up after
`MaxForwardings`; `Answered` takes the first datagram in the socket, whatever it
is; the server's handlers, one per request; `RegisterPeer` registers one file of
an acknowledged publish per step; faults lose, delay, duplicate, reorder, crash.
With `-tu` a client asks for the directory's test reply instead and ends
(`CtlTest`, `TestAnswered`). A client of another protocol is refused its ping
and nothing else: it merely never thinks itself online. `faults.disorder`
records whether one of the faults brought replies and requests out of step.

The text of a message is a record; a reply shorter than one before it leaves the
tail of the old text in the buffer, which is parsed: `Width` measures texts in
fields, and the line that the border falls into is `Garbled`. `addrlen` in
`ds_recv` is read uninitialised: a choice, of which the bad outcome is the fault
"addrlen".

`Registry` is what this amounts to for the clients: a set of pairs of file and
client to which all the files of a client are added at once, and a set of
clients that hold an acknowledgement, each of which has all its files in the
first. A restart empties both. Under the refinement mapping the files still to be
registered count as known: the loop that registers them cannot be observed, since
the directory takes no datagram in between.

### DirMessage and Catalogue

A text is a sequence of tokens: the separators, blank and newline, and the words
between them, all of one unit's width. `Printed` is a row of `snprintf` calls at
`buff + len`, which returns what it *would* have printed: `len` may pass the
limit, and the next call prints past the end (`past`). The operators that read
are the parsers, with `strchr` and `strpbrk` as searches for the first separator;
where the code goes on at the NULL that a failed search returned they say so
(`null`). Each loop of the code is one turn (`PublishLine`, `NextHost`, `ListLine`)
and a function of the number of turns; a loop that has ended stands still.

`Catalogue` puts a directory between clients whose files have such names. An
exchange is one step: printing, cutting, reading and registering on one side,
printing, cutting and reading on the other (`Publish`, `Fetch`), or the crash of
either process (`PublishOverruns`, `FetchCrashes`). A vector that has grown has
outgrown its block (`Overruns`, which is what `Vectors` says of any element at
least two bytes wide). Its process is then `damaged`: whenever it uses or adds to
its lists, any records of them may be found overwritten (`Held`), and it may crash
at any time (`HeapBreaks`). It goes on printing, reading and registering what it
holds, so that damage travels: a damaged client publishes junk, a damaged directory
lists it and does not know its files again. `Word` is the shell's splitting of a
command, `Found` what `download` looks up.

### FileDb and Vectors

*State.* The stack of calls of `filedb_scan` with the entries each has not read
yet, in any order (`readdir` has none); the one static `buff` they all print
to; the size that was taken of the file to be hashed next; `errno`; the database;
and the shared directory: contents that others change while the scan goes on,
what may not be opened, and whether the path given with `-p` ends in a slash.

*Actions.* One per entry read, by kind: "." and "..", links and the like are
skipped; a directory is a call; a file is `StatFile` and then `HashFile`, and
between the two anything may happen to it. A call that cannot open its directory
returns -1 to a caller that ignores it, but it leaves `errno` set, which that
caller takes for an error of `readdir` at its next entry (`Abort`). At the end of
a directory `errno` is not looked at, but it stays for the caller's. A `readdir`
that really fails returns NULL, which is taken for the end of the directory, with
the result 0 (`ReadFails`): the rest is left out, in the shared directory itself
too, and the client comes up.

A path is the sequence of its names, and the contents of a file are a number:
hash and size are that number, so a record whose hash and size differ is one of
two different contents. Files keep their kind during the scan. Paths longer than
`buff`, and the descriptor an aborted call leaves open, are not modelled.

`Vectors` counts elements and bytes: `capacity` doubles, and the block is then
`capacity` bytes, whatever an element takes. Elements outside of it lie in freed
memory: after an insertion any records of such a vector may be overwritten
(`Damaged`), and the process may crash from then on (`HeapBreaks`).

### PeerServer

*State.* Per client the state of its connection, how far it is in the list of
requests it makes, the bytes under way; per thread where it is in `client_loop`,
its `reqd_file`, the position `fseek` set, `read_bytes`; shared by all,
`recv_buff` and `msg_buff` with the data behind its header; of the process
`lp->nfs`, the accept thread, open descriptors, the main thread.

*Actions.* The source is built without optimisation and shares the buffers
without a lock, so each statement that reads or writes one is a step of its own:
`Recv`, `Switch`, `Find`, `Opcode`, `SendOpcode`, `ChunkHeader`, `Seek`, `Read`,
`Check`, `SendChunk`. The other threads may do anything in between. Each buffer
carries a ghost `by`, its last writer, and `met` says that two threads have been
at a request at once; the properties use them to say *when* the server is right.
A `fread` is one step: a mix of two threads' data shows as a disturbed buffer.

`accept_loop` has a step on each side of `accept()`: it reads `lp` and enters
(`EnterAccept`), gets a client (`Accept`) or an error of any kind (`AcceptFails`),
copies what the client's thread needs out of `lp` (`HandOver`), or destroys the
server it finds there (`EndLoop`). Cancellation is deferred and `accept()` is where
it takes effect: a `Quit` while the loop is elsewhere frees the `lp` that the loop
goes on to read, which is a choice between a crash and going on with anything. To
cancel a loop that has ended is undefined too. The detached threads go on until
`Exit`.

The server is started by `serve` (`StartServer`) or, with `-tt`, tested
(`TestServer`, `Tested`): one connection is accepted and given back what it
sends, again and again on each `serve`. Either may fail (`StartFails`): the socket
stays open, and the test goes on with the NULL. Where the tested client resets its
connection, its socket stays open or the `send` raises SIGPIPE.

## 3 The runs

| Run | Instance | Shows |
|---|---|---|
| `download_any` | 2 peers, 3 chunks, every fault | one request in flight per connection, each chunk under way once, the count right, the poll set fits its allocation; `stop` is not taken back; a crash, or file bytes taken for messages, need a connection that a peer ended or a header in parts; `ImplementsTransfer` |
| `download_leaving` | 3 peers, 3 chunks; peers unreachable, connections closed, reset, cut inside a chunk, headers in parts, `poll()` failing; fairness | an ended connection or a short header costs at most one chunk when a handler ends the loop; a file "downloaded" that way misses fewer chunks than peers were reached; the function returns |
| `download_early` | 2 good peers, 2 chunks | *violation* of `CompleteWhenDownloaded` |
| `chunks` | sizes 0..29 for the file then and now, three disks | the data properties and `Ends` |
| `directory_any` | 2 clients, a file in common, one perhaps foreign; 2 faults of any network or crash kind | `ImplementsRegistry`; database without doubles; no file attributed to a peer that lacks it; while replies keep in step, the right reply, own files seen, lists grow and are read as sent |
| `directory_live` | 1 client, all commands and the test; 2 faults | commands return, a pinging client comes back online |
| `directory_stale` | 1 client, 1 late reply | *violation* of `AnswersAlwaysMatch` |
| `catalogue` | 2 clients, 7 lists of files, 18 lengths of datagram, vectors with room for three, which two of the lists outgrow | without growth: what is listed is shared, a list is a prefix, files are found again; a vector is damaged, and a process crashes, only by length, whatever damaged processes hold, print and register |
| `catalogue_joined` | 2 publishers of one file | *violation* of `PeersAreSplit` |
| `scan` | 3 files in nested directories, room for 2, 2 changes meanwhile, anything refused, any `readdir` failing | the records are true, what is missing is near what went wrong, a crash has one of four causes |
| `server_any` | 2 clients, 4 descriptors, the main thread downloading, testing and quitting, the accept loop in and out of `accept()` | one reply for each request, the right one unless another thread used the buffers, no crash by requests alone |
| `server_wrong` | 2 clients, nothing else | *violation* of `RepliesAnswer` |

Deadlock is checked except where the program can really be left with nothing to
do: in the `download` runs but `download_early` a silent peer, or one whose header
came in parts, keeps `poll()` waiting for ever, and an abandoned download polls
closed descriptors; in `catalogue` the processes may all have crashed.

Each property of a passing run has a mutant of the code that breaks it under the
same configuration.

Properties that need a qualification have it because the unqualified one fails,
each for a reason found with TLC:

- `RemainingCounts` relates the count to the chunks `written`, not to those
  FINISHED: where `fseek` fails the chunk is FINISHED and not counted.
- `OwedAtEnd` counts: as many chunks as connections have ended, or given a header
  in parts, may be owed by nobody when the loop ends. None is when the peers answer
  and their headers come whole: that is the theorem `NoneLost`.
- `MissingBounded` is of a loop that a handler ended; `poll()` failing may end it
  with any number of chunks never asked for.
- `StopSticks` holds unless a chunk of which only part has come was being read:
  `op_chunk` then returns 0, which overwrites a decision to stop made earlier in
  the walk.
- `Returns` excepts the three ways in which the loop can go on for ever: no
  connection is left, one was cut inside a chunk, or the header of a chunk came in
  parts, after which its peer is asked for nothing more and stays connected.
- `CrashNeedsLostPeer`: destroyed connections stay as dangling pointers, and what
  follows a short header is read as opcodes, so connections that end and headers
  that come in parts can bring the client down. Nothing else can.
- `AnswersMatch`, `SeesOwnFiles`, `ListsGrow`, `ListIsTheReply` are for replies in
  step (`~ faults.disorder`): after a late or repeated one every later reply is
  taken for the next command's.
- `UndisturbedReplies` and `CrashNeedsCompany` are for a thread left alone with
  the buffers; the latter names the crashes that need no company: a quit that
  cancels an accept loop that has ended, or frees the `lp` that one out of
  `accept()` goes on to read, or the database that a thread searches; and the test
  mode's, with its port taken or its client reset.
- `OneReplyEach` makes an exception for a failed `fopen`, upon which nothing is
  replied.
- The type invariant of `Catalogue` on what is read, `ListedIsShared`,
  `FetchIsPrefix`, `Findable`, `RecordsTrue` and `MissingIsLocal` are for vectors
  that have not grown (`Undamaged`): of a program whose records may be overwritten
  they are false. `CrashNeedsLength` says when that can be, with no such guard.
- `ListedIsShared` and `Findable` are for names without a newline behind a ";"
  (`Tame`): with one, the rest of the name is read as the beginning of the next
  file's line, which then has no hash that anybody asks for.
- `ListedIsShared` promises name and size only for names that are read back as
  they were printed (`Plain`): a ";" cuts the name, and the size is then read
  from the rest of it, as 0. The hash, and who has the file, are right always.
- `Findable` by name is for plain names of one word that no other file has,
  for the shell splits at blanks and `filedb_find_name` takes the first; by hash
  it is for every file. Either needs lists that fit: what does not fit is
  acknowledged all the same.
- `CrashNeedsLength`, `CrashNeedsCause` name what does crash the processes: a
  list longer than a datagram, more files or peers than a vector was made for,
  files that cannot be read during the scan, a path without its slash. A name that
  is not `Tame` can hold several lines, so that a client with few files publishes
  many: the directory's vector is what `Published` fills, not what is shared.
- `MissingIsLocal` is for a client that comes up: then the files directly in the
  shared directory are all listed, unless `readdir` failed on it, since anything
  else that ends that call early ends `main`. Deeper down, an entry that fails
  costs the entries after it, in its directory and perhaps in those above.

## 4 Bounds, and why they are enough

- *Peers and chunks.* Two peers show every race between two handlers; a third lets
  two disagree while one still owes a chunk. With two peers for three chunks, or
  three of which some are not reached or leave, a connection asks for a second
  chunk and chunks run out at different times. The theorems of section 6 hold for
  any number of both.
- *ChunkSize 3, IntLimit 12, sizes to 29*: every remainder, the empty file, the
  exact multiples, offsets negative (chunks 4 to 7) and wrapped (8 and 9).
  Files that shrank and grew, both by less and by more than a chunk. Disks
  with no room, with room for part of the file, and for all of it.
- *MaxForwardings 2* instead of 5: the loop is entered, repeated and given up.
- *MaxFaults* is a budget for all faults together and bounds restarts with them,
  hence `epoch`; two faults suffice to lose a reply and delay its repetition.
- *Directory clients and files.* Two files and two publishers of one give
  lines with one and with two peers; a client of another protocol is there to
  be refused.
- *Catalogue.* The seven lists have in their names each separator, blanks before
  and within, another file's hash, one name that is not `Tame` and holds more lines
  by itself; one name for two files and several for one. The limits 6 to 18 and 21
  cut a text at each token of its first lines, so that every way to cut a line
  occurs; 24, 28 and 33 cut longer ones, 99 cuts none. `Initial` 3 has room for
  what five of the lists register, so that the guards `Undamaged` are met; the four
  copies of one file and the name that is not `Tame`, with the file behind it,
  outgrow a vector. Two clients do not outgrow a file's list of peers: that growth
  is covered by the proof of `CrashesNeedLength` only. A damaged directory does not
  know its files again and would register them for ever: `MaxLines` 3 is where its
  list stops, and nothing else depends on it. The symmetry is sound, as nothing
  tells one client from another.
- *Scan.* Nested directories, so that an error travels up; `Initial` 2 for three
  files, so that the last insertion grows the vector and may overwrite the others;
  two changes, so that a file can change between `stat` and the hash and another
  one vanish.
- *FdLimit 4* for two connections: the files left open by the first requests
  exhaust it. *MaxSize 1* makes a request's data one unit, and sizes 2 and 1
  give a piece inside a file and one past the end.

## 5 Fairness

- `Download`: weak fairness of `ClientStep` (the thread is scheduled) and of
  `PeerServes(p)` (a peer that is up handles what it received, and sends the
  rest of what it began). No failure is
  ever forced: `PollFails` is not among the steps of `ClientStep`.
- `ChunkData`: weak fairness of its only activity; no step waits.
- `Directory`: weak fairness of `RegisterPeer`, of a blocked client's `Answered`
  and `Timeout`, and of `Discard`; strong fairness of `Server(c)`, because the
  socket of the directory is one FIFO and no client's datagram waits for ever
  behind those of others; strong fairness of `CtlPing`, the user who pings now
  and then, on whom `BackOnline` depends and says so. Nothing makes the
  directory start again: `BackOnline` is about a directory that stays up.
- `PeerServer` has none. Instead of liveness, `OneReplyEach` says that a thread back
  at `recv` has replied, and a thread gets back there within ten of its steps.

## 6 Proofs

Checked by TLAPS, for every value of the constants.

Every safety property that a passing run checks is also a theorem. No theorem
assumes fairness.

### Download

`DownloadProofs` and, for the last three, `DownloadOwedProofs`, from
`SizesAssumption`:

| Theorem | States |
|---|---|
| `TypeCorrect` | `Spec => []TypeOK` |
| `RequestsAlternate` | `Spec => []OneRequestInFlight` |
| `ChunksHeldOnce` | `Spec => []ChunkHeldOnce` |
| `CountIsRight` | `Spec => []RemainingCounts` |
| `SlotsFit` | `Spec => []PollSlotsFit` |
| `CrashesNeedLostPeers` | `Spec => []CrashNeedsLostPeer` |
| `StopStands` | `Spec => StopSticks` |
| `Refinement` | `Spec => ImplementsTransfer` |
| `LossesAreEnds` | `Spec => []OwedAtEnd`, if `RefusesNothing` |
| `FewAreMissing` | `Spec => []MissingBounded`, if `RefusesNothing` |
| `NoneLost` | `Spec => [](stop # 0 => Lost = {})`, if `PeersAnswer` |

None of the first five is inductive alone. `OneRequestInFlight` holds because a
handler sends only after it has taken the reply off `inbox`, so one must know that
a connection without a message is the only kind on which something is sent: during
set-up nothing is under way (`SetupQuiet`), and a connection that is not open has
nothing under way (`QuietUnlessOpen`). `ChunkHeldOnce` needs all of these to
conclude that a handler takes away the only debt of its chunk before it adds one
for a chunk that was QUEUED, hence owed by nobody. `NetInv` is their conjunction;
`WrittenCame` (what was written is FINISHED), `RemainingCounts`, `ReachedCounts`
and `PollSlotsFit` are each preserved given it, the last because `peers_reached`
counts the open connections when the set is filled and neither changes afterwards.
`IInv` is the whole. The proof that a step preserves it goes action by action,
with lemmas for what `Destroy`, `Send` and `select_request_chunk` do to the
network.

`CrashesNeedLostPeers` adds `EndInv`: a pointer dangles only where the peer has
ended its connection, `poll()` reports something other than data only on a
dangling pointer or after a reset, and a tail is under way only from a peer whose
header came in parts. `StopStands` needs no more than `IInv`: each
handler that assigns `stop` assigns it anew from the chunks that are left, and
these do not become QUEUED again.

`Refinement` adds `RInv`: the chunks asked for are a prefix (`Sequential`),
nothing is asked for while setting up, `result` is "none" until the function
returns, and the loop was told to stop because no chunk is QUEUED or because a
peer may refuse the file, or the disk be full (`StopExplained`). Then each step is
one of four kinds: it changes neither chunks nor result, it returns, it asks for
the next chunk, or it obtains one and perhaps asks for the next; each kind is a
lemma, and the four are the disjuncts of `ChunkTransfer` and its stuttering.

The last three are about chunks AWAITING that nobody owes any more.
`RefusesNothing` leaves the peers all that a network can do to them, and what the
shared server does when it is out of descriptors, but they do not answer
badfilereq or badchunkreq, and the disk has room: `op_badchunkreq` goes on to the
next chunk and the refused one is never asked for again, while `op_badfilereq`
ends the loop with chunks not yet asked for, so that the bounds would be false.
`LossInv` counts: the chunks nobody owes are no more than the polled connections
that ended with nothing left to read or gave a header in parts (`LostBounded`),
and when the loop is told to stop, fewer chunks are AWAITING than peers were
reached (`SpareAtStop`), for the handler that stopped it has just heard from a
peer that now owes nothing. To count, debts are mapped to debtors
(`AwaitingBounded`): by `OneRequestInFlight` no peer owes two chunks, so that the
mapping is injective. `LinkInv` has what this needs of the connections: that one
whose header came in parts is asked for nothing more (`ShortSilent`), so that it
loses one chunk only. With `PeersAnswer` no connection ends and no header comes in
parts, and the bound is 0.

### ChunkData

`ChunkDataProofs`, from `SizesAssumption`:

| Theorem | States |
|---|---|
| `ChunksPartition` | offsets and sizes of the chunks partition a file of any size, without overflow |
| `TypeCorrect` | `Spec => []TypeOK`, with it that `op_chunk` indexes `chunk_states` within bounds |
| `BytesStayInPlace` | `Spec => []BytesInPlace`, overflow included |
| `FinishedChunksAreWritten` | `Spec => []FinishedIsWritten` |
| `WhatCanComeHasCome` | `Spec => []CoveredBelowLimit` |

The invariant adds `MsgInFile`: a request whose offset is not negative, and the
chunk sent for it, lie inside the file as published. The argument is that an
offset that overflowed and is not negative is less than the true one, so
whatever it names was in the file already.

For what comes over, `ComeInv` says that a chunk below the limit that the peer's
file has whole is queued, or asked for and not refused, or in the output
(`NearComes`). What endangers this is a later chunk whose offset has wrapped
around and is taken for an earlier one: `MsgOfChunk` says that every chunk up to
the place that a message names was asked for before, so that `op_chunk` can
finish none that is still queued. And a write after which there is room left has
written all it was given (`WriteWhole`).

### FileDb and Vectors

`FileDbProofs`, from `TreeAssumption`, `RecordAssumption` and `InitialAssumption`:

| Theorem | States |
|---|---|
| `TypeCorrect` | `Spec => []TypeOK` |
| `CrashesCaused` | `Spec => []CrashNeedsCause` |
| `GrowthOverruns` | the records lie within their block exactly as long as there are no more than `Initial` |
| `RecordsStayTrue` | `Spec => []RecordsTrue` |
| `MissingStaysLocal` | `Spec => []MissingIsLocal` |

`IInv` says of each call on the stack that it is as deep as its directory
and that what it has still to read is there (`GoodFrame`), so that what is hashed is
a file's path; and of the vector (`Shape`) that it is as it was made, or its block
has as many bytes as it has room for elements, more than half of which is taken.
Two bytes per element then do not fit. `Catalogue` relies on this for its
`Overruns`. None of this is disturbed by records that are overwritten.

`ScanInv` adds that the stack is one path down the tree whose entries were taken
by the calls above (`Nested`). A file is then ahead of the scan (`Ahead`) if some
call has still to read it or a directory above it. Whatever is listed is not ahead
and unlike the rest (`GoodRecords`), so that it is listed once; what is neither
listed nor ahead, nor in `buff`, has trouble in a subdirectory above it, or the
shared directory itself could not be read on (`AllFound`); both as long as the
vector has not grown, as what overwrites a record may do so to any. An error set
in `errno` is trouble below the directory of the call that will trip over it,
whatever call below set it, which makes the entries lost by the `Abort` excused.

### Directory

`DirectoryProofs`, from the five assumptions in
`Directory`:

| Theorem | States |
|---|---|
| `TypeCorrect` | `Spec => []TypeOK` |
| `NoDuplicates` | `Spec => []LinesDistinct` |
| `AcksAreRegistered` | `Spec => []AckedIsRegistered`, if "addrlen" is no fault |
| `NobodyMisattributed` | `Spec => []NeverMisattributed`, if "addrlen" is no fault |
| `DirectoryImplementsRegistry` | `Spec => ImplementsRegistry`, if "addrlen" is no fault |
| `AnswersInStep` | `Spec => []AnswersMatch`, if "addrlen" is no fault |
| `OwnFilesSeen` | `Spec => SeesOwnFiles`, if "addrlen" is no fault |
| `ListsOnlyGrow` | `Spec => ListsGrow`, if "addrlen" is no fault |
| `ListsAreReplies` | `Spec => ListIsTheReply`, if "addrlen" is no fault |

"addrlen" is excluded since an address cut short leaves the one of the request
before, for which the directory then registers the files, and the statements are
false; the run allows the other faults too. `RegistryInv`, for the registry, says
that a publish in the course of being registered is of the client whose address
the directory holds (`Registering`); that a directory that is down holds nothing,
and no acknowledgement is from one yet to be started, so that a restart makes the
old ones void; that every line that can be read, in the registry, in a datagram,
or in a receive buffer with a stale tail behind it, is true of its peers
(`LinesTrue`); and that the files of a client with an acknowledgement, taken *or
under way*, are registered or about to be (`AcksRegistered`). The steps then map
to those of `Registry`: the reply to a publish to the publish, the restart to the
restart, a publishack read to that client's having it.

`OrderInv` adds, as long as nothing came late, twice or out of turn, that each
client which waits has either its own request or the answer to it under way, or
neither (`InStep`). A list under way to a client then was sent after anything
that the client has read: it names the client's own files (`OwnListed`), and in
the directory's first life it has all that the client's buffer and list have, and
is line by line no shorter (`Growing`). This makes the new text cover the old one
in the buffer, and no tail is left to be read.

### DirMessage and Catalogue

`DirMessageProofs`, from `WordsAssumption`, for texts of any tokens that include
those of the protocol:

| Theorem | States |
|---|---|
| `PublishReads` | of a publish, cut anywhere, the first files are read, and all if it was not cut, if their names are tame |
| `ListReads` | of a list, cut anywhere, the first lines are read, and all if it was not cut, without coming to a NULL |

and `CatalogueProofs`, from the assumptions in `Catalogue` (hashes are words and
clients are no separators, what is shared is a list of a hash, a name of any words
and separators and a number each, and a datagram has room for more than the first
line of a message):

| Theorem | States |
|---|---|
| `TypeCorrect` | `Spec => []TypeOK` |
| `ListsArePrefixes` | `Spec => FetchIsPrefix` |
| `CrashesNeedLength` | `Spec => []CrashNeedsLength` |
| `ListedAreShared` | `Spec => []ListedIsShared` |
| `PublishedAreFound` | `Spec => []Findable` |

A row of `snprintf` calls leaves in the buffer the beginning of what a buffer
without end would hold, up to the limit, and in `len` the length of the whole
(`Holds`, kept by each call). Of that whole, `IsPublish` and `IsList` give what is
printed from each line on, so that one line with anything behind it can be looked
at by itself. A reader's turn over a line that was cut after `n` tokens leaves
what is behind the line, cut after as many fewer, if `n` is enough for the line,
and otherwise nothing (`PublishLineReads`, `ListLineReads`): with a search for a
separator, what is in front of it and what is behind it of the cut text are the
cuts of what is there in the whole one (`CutSplit`), and skipping blanks commutes
with cutting (`StripCut`). Then, turn by turn, the list has one element for each
line that was not cut, each as its line was (`Follows`).

A name with a ";" is the hard case: the line is not split where it was joined, the
rest of the name is read as the size, and what is skipped up to the newline is
longer. `PublishShape` finds the parts as they are read; it needs `Tame`. What the
directory has registered is `Readable` instead, and then split where it was
joined, whatever was published: no hash has a ":" and no name a ";" or a blank at
its front, since the readers stop at these (`PublishType`). This is why
`TypeCorrect`, `ListsArePrefixes` and `CrashesNeedLength` hold for names that are
not tame.

`Inv` is the inductive invariant: the types (`Typed`), with lines that are
`Readable`; that each line of the directory was read for a file that somebody
shares, and each of its peers shares a file of that hash (`Sourced`), and the same
of the list that a client has (`ListedSourced`); and that of a client whose publish
was acknowledged and fitted, every hash is registered (`Registered`); all but the
types as long as no process is `damaged`. Each file
registered leaves the lines where and as they are, but for the peers, of which
there may be more (`Grows`). Causes of crashes stay for that reason: a list that
grows is printed no shorter (`LengthGrows`). In a damaged directory it may be
printed shorter, but then a vector has grown, which is a cause as well and stays
one (`DamageIsGrowth`, `LongStays`): no step makes a list shorter, whatever it
overwrites.

### PeerServer

`PeerServerProofs`, from the four assumptions in `PeerServer`:

| Theorem | States |
|---|---|
| `TypeCorrect` | `Spec => []TypeOK` |
| `OneReplyForEach` | `Spec => []OneReplyEach` |
| `RightWhenUndisturbed` | `Spec => UndisturbedReplies` |
| `CrashesNeedCompany` | `Spec => []CrashNeedsCompany`, if `FileFirst` |

`ServerInv` has two parts for each thread. `Waits` ties `pc` to what is under way
on its connection, whatever the buffers hold, since any other thread may write
them. `Sees` is under a condition on the last writer: as long as `recv_buff` is
this thread's, it holds the request it is at, and its branch was taken on that;
if `msg_buff` and the data are its own too, they are what goes into the right
reply. Another thread's step makes the condition false or leaves the buffer as
it is, which is why the two parts do not interfere. For crashes, `Alone` says
that until two threads have been at a request at once, all but one are idle, and
a thread asked for a piece has a file open. What an accept loop that outlives `lp`
hands over does not matter to it: a crash from then on has `quit` for a cause, in
one of the states that the property names. `FileFirst`, that a client asks for a
file before its pieces, is what the downloader does; one that begins with a
piece makes the server read through a NULL `reqd_file` without any company.

### Induction

The induction theorems of the library cannot be cited with a predicate of one's
own. Where a proof needs induction over a number, it takes the least
counterexample instead (`LeastElement`, from `NatLessThanWellFounded`): for how
far a full disk cuts a write, for the directories above a path, and for sums of
widths, with which `DirectoryProofs` finds the line of a stale text on which the
new one ends. `DirMessageProofs` has it as a lemma for sets of numbers up to a
bound (`InductionTo`), with which it shows of each loop that there is a function
of the turns (`PrintedLoop`, `PublishLoop`, `HostsLoop`, `ListLinesLoop`) and what
holds after all of them.

### What stays with TLC

- Everything under fairness (`Returns`, `Ends`, `CommandsReturn`, `BackOnline`):
  neither ENABLED nor fairness is in the prover's reach.
- `get_value` and with it `dm_deserialize`, which finds out the operation of a
  message: the proofs need nothing of it, as the directory reads a publish only if
  it is one and a client does not look at the operation of a list.
- That the mutants break the properties, and that the counterexamples of section 7
  exist.

## 7 Where code and documents disagree

1. `download_early`: `select_request_chunk` calls the download finished when no
   chunk is QUEUED ("finished downlad", `nf_ctl_logic_p2p.c:88`), and the client
   prints "file downloaded." (line 346) while other peers still owe chunks.
2. `directory_stale`: a reply after its timeout is taken for the next command's,
   whereas `doc/PROTOCOL.md:47` gives the filelist request one answer.
3. `catalogue_joined`: the peers of a line are joined with "; " and split at
   ",", `doc/PROTOCOL.md:109` has ", ".
4. `server_wrong`: a thread answers the request another connection made,
   against `doc/PROTOCOL.md:256`.

The models contain other defects that no document contradicts, so that no run asks
for them; PROJECT.json has them as hazards: the accept loop that ends at any error
of `accept()` and cannot be restarted, and the `quit` that cancels it then, or
frees what it is reading; `lp->nfs` not initialised; chunk headers in parts, after
which the data is read as opcodes; a failing `poll()` that ends a download as a
success; a failing `readdir` that ends a directory as a success; files over 2 GiB;
the file that a client truncates by downloading what it serves; vectors that grow
to bytes instead of elements; lists cut by the datagram's size, and the NULL a cut
in front of the first host leads to; names with ";", listed with the size 0, and
with a newline behind it, at the cost of the next file; `-p` without a slash.

## 8 What is not modelled

- `logicp2p_test_client` with `nfc_test`, and `nfc_stop`: nothing calls them.
- The line buffer of the shell, the utilities, the parsing of the command line.
  Commands are chosen freely by the models.
- Name resolution, IPv6 versus IPv4.
- Hash collisions: a file is its hash.
- More than one connection of one client at a time in `PeerServer`.
- What a downloader does once bytes of a file or a stale header drive it: the
  model ends there ("astray").
- What a write past the end of a vector does to anything but the records of that
  process's lists: it is a crash or nothing. An overwritten record has an empty hash
  and name, and its peers; the properties of what is in the records are stated for
  programs without one.
- A damaged directory's list beyond `MaxLines`, which is a bound of the model.
- Changes of a file's kind during the scan, contents that are put back as they
  were, paths longer than 4095 bytes.
- The width of tokens in `DirMessage`: a buffer that is full inside a number or a
  name is full before it. A number cut short would be a smaller number.

## 9 Plan

What is modelled is the whole of the program but the list above. Open, in order:

1. `Transfer`: `Download` against `PeerServer`'s protocol, one connection each, to
   check the assumption each makes about the other: `FileFirst` of the one's
   clients, `RefusesNothing` of the other's peers.
2. A bound like `OwedAtEnd` for peers that refuse chunks, with the refused ones
   counted apart: as it stands it is false of them.
