----------------------------- MODULE PeerServer -----------------------------
(***************************************************************************)
(* The peer server of a nanofiles client: the accept loop, a client_loop   *)
(* thread per connection (nf_ctl_logic_p2p.c, nf_server.c), the messages   *)
(* they build (nf_message.c), and the main thread that starts the server,  *)
(* downloads, and quits.                                                   *)
(*                                                                         *)
(* Every thread receives into the one recv_buff of nfs_nfc_recv, and every *)
(* thread, the downloading main thread too, builds its messages in the one *)
(* msg_buff of nf_message.c.  A thread reads recv_buff again at each use   *)
(* of the request, so there is a step per use.  No step takes a lock.      *)
(*                                                                         *)
(* A file is a sequence of units of data, the unit n of file f being       *)
(* <<f, n>>.  A client asks for a file and then for pieces of it, waiting  *)
(* for each reply, as the downloader of module Download does.              *)
(***************************************************************************)
EXTENDS Integers, FiniteSetsExt, SequencesExt

CONSTANTS Clients, Files,
          FileSize,     \* units in each file of localdb on disk
          Wants,        \* per client: the requests it makes on a connection
          MaxSize,      \* units in the largest request
          FdLimit,      \* descriptors left to connections and served files
          Downloading   \* does the main thread request chunks meanwhile?

Main   == "main"
NoFile == "nofile"

\* A request has the bytes of its hash, or of its offset and size.  Read as the
\* other, a hash is an offset and a size past any file's end, and an offset and
\* a size are no file's hash.
Past == 1000
FileReq(f)     == [op |-> "filereq", file |-> f, offset |-> Past, size |-> Past]
ChunkReq(o, n) == [op |-> "chunkreq", file |-> NoFile, offset |-> o, size |-> n]
Request == {FileReq(f) : f \in Files \cup {NoFile}}
             \cup {ChunkReq(o, n) : o \in 0..Past, n \in 1..MaxSize}

ASSUME NamesAssumption == Main \notin Clients /\ IsFiniteSet(Clients) /\ NoFile \notin Files
ASSUME SizesAssumption == /\ FileSize \in [Files -> 0..(Past - 1)]
                          /\ MaxSize \in 1..Past /\ FdLimit \in Nat
ASSUME WantsAssumption == Wants \in [Clients -> Seq(Request)]
ASSUME DownloadingAssumption == Downloading \in BOOLEAN

VARIABLES
  \* of the clients
  link,       \* "closed", "backlog", "up", "fin"
  turn,       \* how many requests it has made on this connection
  req,        \* the request not yet received, as a sequence of at most one
  reply,      \* the reply to its last request, as a sequence of at most one
  \* of the threads of client_loop
  pc,         \* "none", or what the thread does next
  reqd_file,
  pos,        \* where fseek went, until fread
  read_bytes, \* of the case for chunk requests
  \* shared by all threads
  recv_buff,  \* the last request received, and the thread that did
  msg_buff,   \* the header, and the thread that wrote it last
  data,       \* the units behind the header, and the thread that wrote last
  \* of the process
  test_mode_tcp, \* is it run with -tt?
  nfs,        \* lp->nfs: "null", "open", or "closed" (dangling)
  accept_thread, \* of accept_loop: "none"; "waiting" in accept(); out of it
                 \* "entering" it, "handing" over a client or "failing";
                 \* "ended"; "cancelled", when it ends after that
  files_open, \* descriptors opened and never closed: of files, and of sockets
  main,       \* the main thread: "run", "testing", "freed" (lp and the
              \* database), "exit"
  crashed,
  met         \* ghost: two threads have been at a request at once

clientVars == <<link, turn, req, reply>>
localVars  == <<pc, reqd_file, pos, read_bytes>>
buffVars   == <<recv_buff, msg_buff, data>>
modeVars   == <<test_mode_tcp, accept_thread>>
procVars   == <<modeVars, nfs, files_open, main, crashed>>
vars == <<clientVars, localVars, buffVars, procVars, met>>

Init ==
  /\ link = [c \in Clients |-> "closed"] /\ turn = [c \in Clients |-> 0]
  /\ req = [c \in Clients |-> <<>>] /\ reply = [c \in Clients |-> <<>>]
  /\ pc = [c \in Clients |-> "none"]
  /\ reqd_file = [c \in Clients |-> NoFile]
  /\ pos = [c \in Clients |-> 0] /\ read_bytes = [c \in Clients |-> 0]
  /\ recv_buff = [msg |-> FileReq(NoFile), by |-> Main]
  /\ msg_buff = [op |-> "none", offset |-> 0, size |-> 0, by |-> Main]
  /\ data = [units |-> [n \in 1..MaxSize |-> <<>>], by |-> Main]
  /\ nfs \in {"null", "closed"} \* logicp2p_new does not set it
  /\ test_mode_tcp \in BOOLEAN /\ accept_thread = "none"
  /\ files_open = 0 /\ main = "run" /\ crashed = FALSE /\ met = FALSE

Alive == ~ crashed /\ main # "exit"
Connected == {c \in Clients : pc[c] # "none"}
FdsUsed == Cardinality(Connected) + files_open

-----------------------------------------------------------------------------
(* The clients.                                                            *)

Connect(c) == /\ link[c] = "closed" /\ nfs = "open" /\ Alive
              /\ link' = [link EXCEPT ![c] = "backlog"]
              /\ UNCHANGED <<turn, req, reply, localVars, buffVars, procVars, met>>

Asked(c) == Wants[c][turn[c]]

\* What the downloader goes on to ask that peer for more upon: not upon badfilereq,
\* nor upon an opcode it does not know, unless there are bytes behind it, which it
\* takes for opcodes.
GoesOn(r) == r.op # "badfilereq" /\ (r.op \in {"accepted", "chunk", "badchunkreq"}
                                        \/ r.data # <<>>)

\* The next request is made when the one before was answered.
Ask(c) == /\ link[c] \in {"backlog", "up"} /\ Alive
          /\ turn[c] < Len(Wants[c])
          /\ turn[c] = 0 \/ \E n \in DOMAIN reply[c] : GoesOn(reply[c][n])
          /\ turn' = [turn EXCEPT ![c] = @ + 1]
          /\ req' = [req EXCEPT ![c] = <<Wants[c][turn[c] + 1]>>]
          /\ reply' = [reply EXCEPT ![c] = <<>>]
          /\ UNCHANGED <<link, localVars, buffVars, procVars, met>>

\* It may leave with a request unreceived.  The thread does not notice before it
\* receives again, so that leaving meanwhile is leaving then.
Leave(c) == /\ link[c] = "up" /\ pc[c] = "recv" /\ Alive
            /\ link' = [link EXCEPT ![c] = "fin"]
            /\ UNCHANGED <<turn, req, reply, localVars, buffVars, procVars, met>>

-----------------------------------------------------------------------------
(* The main and accept threads.                                            *)

\* logicp2p_start_server: with lp->nfs set it only says "already running".
StartServer == /\ main = "run" /\ nfs = "null" /\ ~ test_mode_tcp /\ ~ crashed
               /\ nfs' = "open" /\ accept_thread' = "entering"
               /\ UNCHANGED <<clientVars, localVars, buffVars, test_mode_tcp, files_open,
                              main, crashed, met>>

\* With -tt, logicp2p_test_server: it takes no notice of lp->nfs.
TestServer == /\ main = "run" /\ test_mode_tcp /\ ~ crashed
              /\ nfs' = "open" /\ main' = "testing"
              /\ UNCHANGED <<clientVars, localVars, buffVars, modeVars, files_open, crashed, met>>

\* nfs_new fails, since the port is taken or there is no descriptor, and does not
\* close its socket.  nfs_test goes on with the NULL.
StartFails == /\ main = "run" /\ (test_mode_tcp \/ nfs = "null") /\ ~ crashed
              /\ nfs' = "null"
              /\ crashed' = test_mode_tcp
              /\ files_open' = IF FdsUsed < FdLimit THEN files_open + 1 ELSE files_open
              /\ UNCHANGED <<clientVars, localVars, buffVars, modeVars, main, met>>

\* accept_loop reads lp->nfs and calls accept(), where it can be cancelled.  Once
\* lp is freed, what it reads there is anything.
EnterAccept == /\ accept_thread = "entering" /\ Alive
               /\ \/ /\ accept_thread' = IF main = "freed" THEN "cancelled" ELSE "waiting"
                     /\ UNCHANGED crashed
                  \/ main = "freed" /\ crashed' = TRUE /\ UNCHANGED accept_thread
               /\ UNCHANGED <<clientVars, localVars, buffVars, test_mode_tcp, nfs, files_open,
                              main, met>>

Accept(c) == /\ accept_thread = "waiting" /\ link[c] = "backlog" /\ Alive
             /\ FdsUsed < FdLimit
             /\ link' = [link EXCEPT ![c] = "up"]
             /\ pc' = [pc EXCEPT ![c] = "new"]
             /\ accept_thread' = "handing"
             /\ UNCHANGED <<turn, req, reply, reqd_file, pos, read_bytes, buffVars,
                            test_mode_tcp, nfs, files_open, main, crashed, met>>

\* It copies what the client's thread needs out of lp, freed or not, starts it and
\* goes back to accept(); quitting on its way there is quitting here.
HandOver(c) == /\ accept_thread = "handing" /\ pc[c] = "new" /\ Alive
               /\ \/ /\ pc' = [pc EXCEPT ![c] = "recv"]
                     /\ accept_thread' = IF main = "freed" THEN "entering" ELSE "waiting"
                     /\ UNCHANGED crashed
                  \/ main = "freed" /\ crashed' = TRUE /\ UNCHANGED <<pc, accept_thread>>
               /\ UNCHANGED <<clientVars, reqd_file, pos, read_bytes, buffVars, test_mode_tcp,
                              nfs, files_open, main, met>>

\* nfs_destroy closes the listening socket, and with it the connections waiting;
\* lp->nfs stays.
CloseServer ==
  LET reset(f, v) == [c \in Clients |-> IF link[c] = "backlog" THEN v ELSE f[c]]
  IN  /\ nfs' = "closed"
      /\ link' = reset(link, "closed") /\ turn' = reset(turn, 0)
      /\ req' = reset(req, <<>>) /\ reply' = reset(reply, <<>>)

\* accept() fails, for want of a descriptor or any other reason.
AcceptFails == /\ accept_thread = "waiting" /\ Alive
               /\ accept_thread' = "failing"
               /\ UNCHANGED <<clientVars, localVars, buffVars, test_mode_tcp, nfs, files_open,
                              main, crashed, met>>

\* That ends the loop, which destroys the server it finds in lp.
EndLoop == /\ accept_thread = "failing" /\ Alive
           /\ \/ /\ accept_thread' = IF main = "freed" THEN "cancelled" ELSE "ended"
                 /\ CloseServer \/ (main = "freed" /\ UNCHANGED <<clientVars, nfs>>)
                 /\ UNCHANGED crashed
              \/ /\ main = "freed" /\ crashed' = TRUE
                 /\ UNCHANGED <<accept_thread, clientVars, nfs>>
           /\ UNCHANGED <<localVars, buffVars, test_mode_tcp, files_open, main, met>>

\* nfs_test has given a client what it sends and closed its connection, or found
\* none to accept; where the client has reset it, send() fails and its socket stays
\* open, or raises SIGPIPE when recv() had failed before it.
Tested == /\ main = "testing" /\ ~ crashed
          /\ \/ UNCHANGED <<files_open, crashed>>
             \/ /\ FdsUsed < FdLimit /\ \E c \in Clients : link[c] = "backlog"
                /\ \/ files_open' = files_open + 1 /\ UNCHANGED crashed
                   \/ crashed' = TRUE /\ UNCHANGED files_open
          /\ CloseServer
          /\ main' = "run"
          /\ UNCHANGED <<localVars, buffVars, modeVars, met>>

\* The main thread's download builds a request in msg_buff, to send it next.
BuildRequest == /\ Downloading /\ main = "run" /\ Alive /\ msg_buff.by # Main
                /\ msg_buff' = [op |-> "chunkreq", offset |-> 0, size |-> MaxSize, by |-> Main]
                /\ UNCHANGED <<clientVars, localVars, recv_buff, data, procVars, met>>

\* ctl_destroy cancels the accept thread and frees lp, and main frees the database.
\* A thread is cancelled in accept(): out of it, it goes on to there.  One that has
\* ended must not be cancelled.  The threads of the clients are detached and go on.
Quit == /\ main = "run" /\ Alive
        /\ main' = "freed"
        /\ nfs' = IF nfs = "open" THEN "closed" ELSE nfs
        /\ accept_thread' = IF accept_thread = "waiting" THEN "cancelled" ELSE accept_thread
        /\ \/ UNCHANGED crashed
           \/ accept_thread = "ended" /\ crashed' = TRUE
        /\ UNCHANGED <<clientVars, localVars, buffVars, test_mode_tcp, files_open, met>>

\* main returns: the threads end and the connections are closed.
Exit == /\ main = "freed" /\ Alive
        /\ main' = "exit" /\ files_open' = 0
        /\ link' = [c \in Clients |-> "closed"] /\ turn' = [c \in Clients |-> 0]
        /\ req' = [c \in Clients |-> <<>>] /\ reply' = [c \in Clients |-> <<>>]
        /\ pc' = [c \in Clients |-> "none"]
        /\ reqd_file' = [c \in Clients |-> NoFile]
        /\ pos' = [c \in Clients |-> 0] /\ read_bytes' = [c \in Clients |-> 0]
        /\ UNCHANGED <<buffVars, modeVars, nfs, crashed, met>>

-----------------------------------------------------------------------------
(* client_loop, for the connection of c.                                   *)

At(c, label) == pc[c] = label /\ Alive
Goto(c, label) == pc' = [pc EXCEPT ![c] = label]

Recv(c) == /\ At(c, "recv") /\ req[c] # <<>>
           /\ recv_buff' = [msg |-> Head(req[c]), by |-> c]
           /\ req' = [req EXCEPT ![c] = <<>>]
           /\ Goto(c, "switch")
           /\ met' = (met \/ \E d \in Clients \ {c} : pc[d] \notin {"none", "new", "recv"})
           /\ UNCHANGED <<link, turn, reply, reqd_file, pos, read_bytes, msg_buff, data, procVars>>

\* The peer closed: the thread ends, and does not close reqd_file.
RecvEnd(c) == /\ At(c, "recv") /\ req[c] = <<>> /\ link[c] = "fin"
              /\ link' = [link EXCEPT ![c] = "closed"]
              /\ Goto(c, "none")
              /\ turn' = [turn EXCEPT ![c] = 0] /\ reply' = [reply EXCEPT ![c] = <<>>]
              /\ reqd_file' = [reqd_file EXCEPT ![c] = NoFile]
              /\ UNCHANGED <<req, pos, read_bytes, buffVars, procVars, met>>

Switch(c) == /\ At(c, "switch")
             /\ Goto(c, IF recv_buff.msg.op = "filereq" THEN "find"
                        ELSE IF reqd_file[c] = NoFile THEN "nofile" ELSE "header")
             /\ UNCHANGED <<clientVars, reqd_file, pos, read_bytes, buffVars, procVars, met>>

\* Mutant: the file opened is a variable of the case, which hides reqd_file.
FindHiding(c) ==
  /\ At(c, "find") /\ FdsUsed < FdLimit
  /\ Goto(c, IF recv_buff.msg.file = NoFile THEN "badfilereq" ELSE "accepted")
  /\ files_open' = files_open + (IF recv_buff.msg.file = NoFile THEN 0 ELSE 1)
  /\ UNCHANGED <<clientVars, reqd_file, pos, read_bytes, buffVars, modeVars, nfs, main, crashed, met>>

\* filedb_find_hash finds a file, in a freed database any or none, and fopen opens
\* it; where that fails, nothing is replied.
Find(c) ==
  /\ At(c, "find")
  /\ \/ \E f \in IF main = "freed" THEN Files \cup {NoFile} ELSE {recv_buff.msg.file} :
          /\ \/ /\ f = NoFile /\ Goto(c, "badfilereq")
                /\ UNCHANGED <<reqd_file, files_open>>
             \/ /\ f # NoFile /\ FdsUsed < FdLimit
                /\ Goto(c, "accepted")
                /\ reqd_file' = [reqd_file EXCEPT ![c] = f]
                /\ files_open' = files_open + 1
             \/ /\ f # NoFile
                /\ Goto(c, "recv")
                /\ reqd_file' = [reqd_file EXCEPT ![c] = NoFile]
                /\ UNCHANGED files_open
          /\ UNCHANGED crashed
     \/ /\ main = "freed" /\ crashed' = TRUE
        /\ UNCHANGED <<pc, reqd_file, files_open>>
  /\ UNCHANGED <<clientVars, pos, read_bytes, buffVars, modeVars, nfs, main, met>>

\* nfm_accepted, nfm_badfilereq, nfm_badchunkreq: one opcode byte.
Opcode(c) ==
  /\ \/ /\ \E op \in {"accepted", "badfilereq", "badchunkreq"} :
             At(c, op) /\ msg_buff' = [msg_buff EXCEPT !.op = op, !.by = c]
        /\ Goto(c, "send")
     \/ /\ At(c, "nofile") /\ msg_buff' = [msg_buff EXCEPT !.op = "badchunkreq", !.by = c]
        /\ Goto(c, "sendfirst")
  /\ UNCHANGED <<clientVars, reqd_file, pos, read_bytes, recv_buff, data, procVars, met>>

\* Mutant: no break behind the badchunkreq of a short read.
SendOpcodeFallingThrough(c) ==
  /\ \/ At(c, "send") /\ Goto(c, IF msg_buff.op = "badchunkreq" THEN "chunk" ELSE "recv")
     \/ At(c, "sendfirst") /\ Goto(c, "header")
  /\ reply' = [reply EXCEPT ![c] = Append(@,
                 [op |-> msg_buff.op, offset |-> 0, size |-> 0, data |-> <<>>])]
  /\ UNCHANGED <<link, turn, req, reqd_file, pos, read_bytes, buffVars, procVars, met>>

\* With no file open, badchunkreq has been sent but the case goes on.
SendOpcode(c) ==
  /\ \/ At(c, "send") /\ Goto(c, "recv")
     \/ At(c, "sendfirst") /\ Goto(c, "header")
  /\ reply' = [reply EXCEPT ![c] = Append(@,
                 [op |-> msg_buff.op, offset |-> 0, size |-> 0, data |-> <<>>])]
  /\ UNCHANGED <<link, turn, req, reqd_file, pos, read_bytes, buffVars, procVars, met>>

\* Mutant: nfm_chunk gets offset and size in the other order.
ChunkHeaderSwapped(c) ==
  /\ At(c, "header")
  /\ msg_buff' = [op |-> "chunk", offset |-> recv_buff.msg.size,
                  size |-> recv_buff.msg.offset, by |-> c]
  /\ Goto(c, "seek")
  /\ UNCHANGED <<clientVars, reqd_file, pos, read_bytes, recv_buff, data, procVars, met>>

\* nfm_chunk.
ChunkHeader(c) == /\ At(c, "header")
                  /\ msg_buff' = [op |-> "chunk", offset |-> recv_buff.msg.offset,
                                  size |-> recv_buff.msg.size, by |-> c]
                  /\ Goto(c, "seek")
                  /\ UNCHANGED <<clientVars, reqd_file, pos, read_bytes, recv_buff, data, procVars, met>>

\* fseek, which crashes on a NULL file and fails on a negative offset, as a hash
\* read for one may be.
Seek(c) == /\ At(c, "seek")
           /\ \/ /\ reqd_file[c] = NoFile /\ crashed' = TRUE
                 /\ UNCHANGED <<pc, pos>>
              \/ /\ reqd_file[c] # NoFile
                 /\ pos' = [pos EXCEPT ![c] = recv_buff.msg.offset]
                 /\ Goto(c, "read") /\ UNCHANGED crashed
              \/ /\ reqd_file[c] # NoFile /\ recv_buff.msg.offset = Past
                 /\ Goto(c, "badchunkreq") /\ UNCHANGED <<pos, crashed>>
           /\ UNCHANGED <<clientVars, reqd_file, read_bytes, buffVars, modeVars, nfs, files_open, main, met>>

\* Mutant: the requested size is taken for the number of units read.
ReadUnchecked(c) ==
  LET n == Min({recv_buff.msg.size, MaxSize}) IN
  /\ At(c, "read")
  /\ read_bytes' = [read_bytes EXCEPT ![c] = recv_buff.msg.size]
  /\ pos' = [pos EXCEPT ![c] = 0]
  /\ data' = [units |-> [k \in 1..MaxSize |-> IF k <= n THEN <<reqd_file[c], pos[c] + k>>
                                                      ELSE data.units[k]],
              by |-> c]
  /\ Goto(c, "check")
  /\ UNCHANGED <<clientVars, reqd_file, recv_buff, msg_buff, procVars, met>>

\* fread.  More than MaxSize units are written past the end of msg_buff, which
\* nothing defines: the process dies or goes on.
Read(c) ==
  LET f == reqd_file[c]
      n == Min({recv_buff.msg.size, Max({FileSize[f] - pos[c], 0})})
  IN  /\ At(c, "read")
      /\ read_bytes' = [read_bytes EXCEPT ![c] = n]
      /\ pos' = [pos EXCEPT ![c] = 0]
      /\ data' = [units |-> [k \in 1..MaxSize |-> IF k <= n THEN <<f, pos[c] + k>>
                                                           ELSE data.units[k]],
                  by |-> c]
      /\ Goto(c, "check")
      /\ \/ UNCHANGED crashed
         \/ n > MaxSize /\ crashed' = TRUE
      /\ UNCHANGED <<clientVars, reqd_file, recv_buff, msg_buff, modeVars, nfs, files_open, main, met>>

Check(c) == /\ At(c, "check")
            /\ \/ /\ read_bytes[c] = recv_buff.msg.size
                  /\ Goto(c, "chunk") /\ UNCHANGED read_bytes
               \/ /\ read_bytes[c] # recv_buff.msg.size
                  /\ Goto(c, "badchunkreq") /\ read_bytes' = [read_bytes EXCEPT ![c] = 0]
            /\ UNCHANGED <<clientVars, reqd_file, pos, buffVars, procVars, met>>

SendChunk(c) == /\ At(c, "chunk")
                /\ reply' = [reply EXCEPT ![c] = Append(@,
                     [op |-> msg_buff.op, offset |-> msg_buff.offset, size |-> msg_buff.size,
                      data |-> SubSeq(data.units, 1, Min({read_bytes[c], MaxSize}))])]
                /\ read_bytes' = [read_bytes EXCEPT ![c] = 0]
                /\ Goto(c, "recv")
                /\ UNCHANGED <<link, turn, req, reqd_file, pos, buffVars, procVars, met>>

Thread(c) == \/ Recv(c) \/ RecvEnd(c) \/ Switch(c) \/ Find(c) \/ Opcode(c) \/ SendOpcode(c)
             \/ ChunkHeader(c) \/ Seek(c) \/ Read(c) \/ Check(c) \/ SendChunk(c)

-----------------------------------------------------------------------------
Terminated == ~ Alive /\ UNCHANGED vars

Next == \/ \E c \in Clients : Connect(c) \/ Ask(c) \/ Leave(c) \/ Accept(c) \/ HandOver(c) \/ Thread(c)
        \/ EnterAccept \/ AcceptFails \/ EndLoop
        \/ StartServer \/ TestServer \/ Tested \/ StartFails \/ BuildRequest \/ Quit \/ Exit
        \/ Terminated

Spec == Init /\ [][Next]_vars

-----------------------------------------------------------------------------
(* Properties.                                                             *)

\* The file of the last file request on this connection.
FileAsked(c) ==
  LET asked == {n \in 1..turn[c] : Wants[c][n].op = "filereq"}
  IN  IF asked = {} THEN NoFile ELSE Wants[c][Max(asked)].file

\* What the protocol answers to the request of c.
Answer(c) ==
  LET r == Asked(c)
      f == FileAsked(c)
      bare(op) == [op |-> op, offset |-> 0, size |-> 0, data |-> <<>>]
  IN  CASE r.op = "filereq" -> bare(IF r.file = NoFile THEN "badfilereq" ELSE "accepted")
        [] r.op = "chunkreq" /\ f # NoFile /\ r.offset + r.size <= FileSize[f] ->
             [op |-> "chunk", offset |-> r.offset, size |-> r.size,
              data |-> [k \in 1..r.size |-> <<f, r.offset + k>>]]
        [] OTHER -> bare("badchunkreq")

\* No other thread wrote a buffer between this thread's use of it and its reply,
\* nor has main freed the database, and the file it has open is the one asked for.
Undisturbed(c) == /\ main # "freed"
                  /\ recv_buff.by = c /\ msg_buff.by = c
                  /\ pc[c] = "chunk" => data.by = c
                  /\ Asked(c).op = "chunkreq" => reqd_file[c] = FileAsked(c)

Replies(c) == Len(reply'[c]) > Len(reply[c])

\* The buffers hold what some thread put there.
TypeOK ==
  /\ link \in [Clients -> {"closed", "backlog", "up", "fin"}]
  /\ \A c \in Clients : turn[c] \in 0..Len(Wants[c]) /\ Len(req[c]) <= 1
  /\ reqd_file \in [Clients -> Files \cup {NoFile}]
  /\ pos \in [Clients -> 0..Past] /\ read_bytes \in [Clients -> 0..Past]
  /\ recv_buff.msg \in Request /\ msg_buff.offset \in 0..Past /\ msg_buff.size \in 0..Past
  /\ recv_buff.by \in Clients \cup {Main} /\ msg_buff.by \in Clients \cup {Main}
  /\ \A k \in 1..MaxSize : LET u == data.units[k]
                           IN  u = <<>> \/ (u[1] \in Files /\ u[2] \in 1..FileSize[u[1]])
  /\ nfs \in {"null", "open", "closed"} /\ files_open \in 0..FdLimit
  /\ accept_thread \in {"none", "entering", "waiting", "handing", "failing", "ended",
                        "cancelled"}

\* Whatever the other threads do to its buffers, a thread that is done with a
\* request has replied once, unless fopen failed; only a thread with no file open
\* may reply twice, on its way to crash (client_loop).  A thread is done within
\* ten steps of its own.
OneReplyEach ==
  \A c \in Clients :
     /\ pc[c] = "recv" /\ turn[c] > 0 /\ req[c] = <<>> =>
          Len(reply[c]) = 1 \/ (reply[c] = <<>> /\ reqd_file[c] = NoFile)
     /\ pc[c] # "recv" /\ reply[c] # <<>> =>
          reqd_file[c] = NoFile /\ pc[c] \in {"header", "seek"}

\* Clients that ask for a file before its pieces do not crash the server as long
\* as one request is processed at a time, except by an exit that frees what a thread
\* looks into, the database or the lp of an accept loop that is not in accept(), or
\* that cancels a loop that has ended; or in the test mode, when the port is taken
\* or a client resets its connection (client_loop, accept_loop, logicp2p_destroy).
CrashNeedsCompany ==
  crashed /\ ~ met => \/ main = "freed" /\ accept_thread \in {"entering", "handing", "failing", "ended"}
                      \/ main = "freed" /\ \E c \in Clients : pc[c] = "find"
                      \/ main = "run" /\ test_mode_tcp

\* A reply built while no other thread used the shared buffers is the protocol's
\* answer to the request (client_loop, nf_message.c).
UndisturbedReplies ==
  [][\A c \in Clients : Replies(c) /\ Undisturbed(c) => Last(reply'[c]) = Answer(c)]_vars

\* Every reply is the protocol's answer to its request, the sender's own file
\* being open: what the protocol says, and two connections break.
RepliesAnswer == [][\A c \in Clients : Replies(c) => Last(reply'[c]) = Answer(c)]_vars
=============================================================================
