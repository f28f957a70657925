------------------------------ MODULE Directory ------------------------------
(***************************************************************************)
(* The directory of nanofiles and its clients: the server (dir_server.c),  *)
(* the messages (dir_message.c), the client's connector, which retransmits *)
(* over UDP (directory_connector.c), its exchanges (nf_ctl_logic_dir.c)    *)
(* and the commands of the shell that use them (nf_controller.c).          *)
(*                                                                         *)
(* The server handles one datagram at a time, but answers a publish before *)
(* it registers the files, one per step here.  Requests and replies carry  *)
(* no identifier.  Of a client, pc says which command waits for a reply    *)
(* ("ping", "publish", "list", "download", or the "test" of -tu) or that   *)
(* the shell is idle; a client has one host, and a host runs one client.   *)
(*                                                                         *)
(* Between a client and the directory each direction is a sequence of      *)
(* datagrams under way; what the network or the directory's host does to   *)
(* them is a fault, and there are at most MaxFaults.                       *)
(***************************************************************************)
EXTENDS Integers, Sequences, SequencesExt, FiniteSetsExt

CONSTANTS Clients, Files,
          Nobody,          \* an address that is no client's
          NoFile,          \* no file of Files, and the hash of a garbled line
          Shares,          \* per client: its files, as filedb_scan found them
          Foreign,         \* clients that may have another NF_DIR_PROTOCOL_ID
          MaxForwardings,  \* MAX_FORWARDINGS
          Commands,        \* per client: what its user asks for besides ping
          Faults, MaxFaults

FaultKinds == {"loss",     \* a datagram is lost
               "late",     \* SOCK_TIMEOUT passes with the answer on its way
               "dup",      \* a datagram is delivered twice
               "reorder",  \* a datagram overtakes the one before it
               "crash",    \* the directory stops; it may be started again
               "addrlen"}  \* ds_recv's uninitialised addrlen is too small

ASSUME NamesAssumption == Nobody \notin Clients /\ NoFile \notin Files
ASSUME SharesAssumption == Shares \in [Clients -> Seq(Files)] /\ Foreign \subseteq Clients
ASSUME BoundsAssumption == MaxForwardings \in Nat \ {0} /\ MaxFaults \in Nat
ASSUME FaultsAssumption == Faults \subseteq FaultKinds
ASSUME CommandsAssumption ==
  Commands \in [Clients -> SUBSET {"serve", "listremote", "download", "quit", "test"}]

Hosts == Clients \cup {Nobody}
Line  == [hash : Files \cup {NoFile}, peers : Seq(Hosts)]   \* file_info_t

Waits   == {"ping", "publish", "list", "download", "test"}
Request == {"ping", "publish", "filelist", "test"}
Reply   == [op : {"pingok", "pingbad", "publishack", "filelistres", "testok"},
            list : Seq(Line), epoch : Nat]

VARIABLES
  \* of the clients
  pc,        \* "start", "idle", one of Waits, "writing", "quit"
  fwds,      \* dc_request's count of forwardings
  text,      \* lines of the longest list left in dc_request's recv_buff
  state,     \* ctl->state
  arg,       \* the file that a download is for
  listing,   \* what logicdir_fetch last returned
  serving,   \* is the peer server started?
  acked,     \* ghost: latest epoch of which a publishack was taken, 0 for none
  protoid,   \* NF_DIR_PROTOCOL_ID: "ours", the directory's, or "other"
  disk,      \* the files whole in the shared directory
  \* of the directory
  up,        \* is it running?
  registry,  \* ds->db
  client_sa, \* the address that ds_recv left
  todo,      \* the files of a publish that are still to be registered
  epoch,     \* which run of the directory this is
  \* between them
  sent,      \* requests under way
  sock,      \* replies under way, or in the client's socket
  faults     \* ghost: how many there have been, and whether one of them
             \* brought replies and requests out of step

fetchVars  == <<text, listing>>
ctlVars    == <<state, serving, acked, protoid>>
fileVars   == <<arg, disk>>
clientVars == <<pc, fwds, fetchVars, ctlVars, fileVars>>
serverVars == <<up, registry, client_sa, todo, epoch>>
vars == <<clientVars, serverVars, sent, sock, faults>>

Init ==
  /\ pc = [c \in Clients |-> "start"]
  /\ fwds = [c \in Clients |-> 0]
  /\ text = [c \in Clients |-> <<>>]
  /\ state = [c \in Clients |-> "OFFLINE"]
  /\ arg = [c \in Clients |-> NoFile]
  /\ listing = [c \in Clients |-> <<>>]
  /\ serving = [c \in Clients |-> FALSE]
  /\ acked = [c \in Clients |-> 0]
  /\ protoid \in {id \in [Clients -> {"ours", "other"}] :
                   \A c \in Clients \ Foreign : id[c] = "ours"}
  /\ disk = [c \in Clients |-> ToSet(Shares[c])]
  /\ up = TRUE /\ registry = <<>> /\ client_sa = Nobody /\ todo = <<>> /\ epoch = 1
  /\ sent = [c \in Clients |-> <<>>]
  /\ sock = [c \in Clients |-> <<>>]
  /\ faults = [count |-> 0, disorder |-> FALSE]

Fault(kind) ==
  /\ kind \in Faults /\ faults.count < MaxFaults
  /\ faults' = [count |-> faults.count + 1,
                disorder |-> faults.disorder \/ kind \in {"late", "dup", "reorder"}]

-----------------------------------------------------------------------------
(* The client: dc_request, and the commands that call it.                  *)

RequestOf(wait) == IF wait \in {"list", "download"} THEN "filelist" ELSE wait

Transmit(c, wait) == sent' = [sent EXCEPT ![c] = Append(@, RequestOf(wait))]

\* A command sends its request and blocks in recvfrom.
Ask(c, wait) ==
  /\ pc' = [pc EXCEPT ![c] = wait]
  /\ Transmit(c, wait)
  /\ UNCHANGED <<fwds, fetchVars, ctlVars, disk, serverVars, sock, faults>>

\* The command with the guard of the others: a ping once, at the start.
CtlPingOnce(c) == pc[c] = "start" /\ Ask(c, "ping") /\ UNCHANGED arg

CtlPing(c)       == pc[c] \in {"start", "idle"} /\ Ask(c, "ping") /\ UNCHANGED arg
CtlTest(c)       == /\ "test" \in Commands[c] /\ pc[c] = "start"
                      /\ Ask(c, "test") /\ UNCHANGED arg
Online(c, cmd)   == cmd \in Commands[c] /\ pc[c] = "idle" /\ state[c] = "ONLINE"
CtlServe(c)      == Online(c, "serve") /\ Ask(c, "publish") /\ UNCHANGED arg
CtlListremote(c) == Online(c, "listremote") /\ Ask(c, "list") /\ UNCHANGED arg
CtlDownload(c)   == Online(c, "download") /\ Ask(c, "download")
                      /\ \E f \in Files : arg' = [arg EXCEPT ![c] = f]

CtlQuit(c) == /\ "quit" \in Commands[c] /\ pc[c] = "idle"
              /\ pc' = [pc EXCEPT ![c] = "quit"]
              /\ serving' = [serving EXCEPT ![c] = FALSE]
              /\ UNCHANGED <<fwds, fetchVars, state, acked, protoid, fileVars,
                             serverVars, sent, sock, faults>>

InFlight(c) == sent[c] # <<>> \/ sock[c] # <<>>

\* dc_request without the count of forwardings.
TimeoutForever(c) ==
  /\ pc[c] \in Waits
  /\ IF InFlight(c) THEN Fault("late") ELSE UNCHANGED faults
  /\ Transmit(c, pc[c])
  /\ UNCHANGED <<clientVars, serverVars, sock>>

\* dc_request with the bound of its loop off by one.
TimeoutOnceMore(c) ==
  /\ pc[c] \in Waits
  /\ IF InFlight(c) THEN Fault("late") ELSE UNCHANGED faults
  /\ \/ /\ fwds[c] < MaxForwardings
        /\ fwds' = [fwds EXCEPT ![c] = @ + 1]
        /\ Transmit(c, pc[c])
        /\ UNCHANGED <<pc, state, arg>>
     \/ /\ fwds[c] = MaxForwardings
        /\ fwds' = [fwds EXCEPT ![c] = 0]
        /\ pc' = [pc EXCEPT ![c] = "idle"]
        /\ UNCHANGED <<sent, state, arg>>
  /\ UNCHANGED <<fetchVars, serving, acked, protoid, disk, serverVars, sock>>

\* recvfrom times out: the request is sent again, or the exchange fails.
Timeout(c) ==
  /\ pc[c] \in Waits
  /\ IF InFlight(c) THEN Fault("late") ELSE UNCHANGED faults
  /\ \/ /\ fwds[c] + 1 < MaxForwardings
        /\ fwds' = [fwds EXCEPT ![c] = @ + 1]
        /\ Transmit(c, pc[c])
        /\ UNCHANGED <<pc, state, arg>>
     \/ /\ fwds[c] + 1 = MaxForwardings
        /\ fwds' = [fwds EXCEPT ![c] = 0]
        /\ pc' = [pc EXCEPT ![c] = IF pc[c] = "test" THEN "quit" ELSE "idle"]
        /\ state' = IF pc[c] = "ping" THEN [state EXCEPT ![c] = "OFFLINE"] ELSE state
        /\ arg' = [arg EXCEPT ![c] = NoFile]
        /\ UNCHANGED sent
  /\ UNCHANGED <<fetchVars, serving, acked, protoid, disk, serverVars, sock>>

\* recv_buff is static and dc_request does not terminate what it receives, so
\* a list shorter than the one received before is followed by what it does not
\* cover.  Each field of a line counts as one unit of text: a line that is
\* covered in part runs into the next, and neither can be read.
Garbled == [hash |-> NoFile, peers |-> <<>>]
Width(list) ==
  LET width[n \in 0..Len(list)] == IF n = 0 THEN 0 ELSE width[n - 1] + 1 + Len(list[n].peers)
  IN  width[Len(list)]
Uncovered(list, old) ==
  LET whole == {k \in 0..Len(old) : Width(SubSeq(old, 1, k)) <= Width(list)}
      k == CHOOSE n \in whole : \A m \in whole : m <= n
  IN  CASE Width(SubSeq(old, 1, k)) = Width(list) -> SubSeq(old, k + 1, Len(old))
        [] k + 2 <= Len(old) -> <<Garbled>> \o SubSeq(old, k + 3, Len(old))
        [] OTHER -> <<>>

\* The text after reply r, and the list that dm_deserialize_filelistres makes
\* of it.  Nothing checks the operation: another reply covers the first line
\* of the list left in the buffer, which spoils the hash of the next.
TextAfter(r, old) == IF r.op = "filelistres" THEN r.list \o Uncovered(r.list, old) ELSE old
Fetched(r, old) ==
  CASE r.op = "filelistres" -> TextAfter(r, old)
    [] r.op # "filelistres" /\ old # <<>> -> <<Garbled>> \o Tail(old)
    [] OTHER -> <<>>

\* recvfrom with MSG_PEEK: the datagram stays in the socket.
TakePeeking(c, wait) ==
  /\ pc[c] = wait
  /\ sock[c] # <<>>
  /\ fwds' = [fwds EXCEPT ![c] = 0]
  /\ text' = [text EXCEPT ![c] = TextAfter(Head(sock[c]), @)]
  /\ UNCHANGED <<serverVars, sent, sock, faults>>

\* recvfrom returns the oldest datagram, whichever request it answers.
Take(c, wait) ==
  /\ pc[c] = wait
  /\ sock[c] # <<>>
  /\ sock' = [sock EXCEPT ![c] = Tail(@)]
  /\ fwds' = [fwds EXCEPT ![c] = 0]
  /\ text' = [text EXCEPT ![c] = TextAfter(Head(sock[c]), @)]
  /\ UNCHANGED <<serverVars, sent, faults>>

PingAnswered(c) ==
  /\ Take(c, "ping")
  /\ pc' = [pc EXCEPT ![c] = "idle"]
  /\ state' = [state EXCEPT ![c] = IF Head(sock[c]).op = "pingok" THEN "ONLINE" ELSE "OFFLINE"]
  /\ UNCHANGED <<listing, serving, acked, protoid, fileVars>>

\* -tu: the process says whether the directory is online, and ends.
TestAnswered(c) ==
  /\ Take(c, "test")
  /\ pc' = [pc EXCEPT ![c] = "quit"]
  /\ UNCHANGED <<listing, ctlVars, fileVars>>

PublishAnswered(c) ==
  /\ Take(c, "publish")
  /\ pc' = [pc EXCEPT ![c] = "idle"]
  /\ \/ /\ Head(sock[c]).op = "publishack"
        /\ serving' = [serving EXCEPT ![c] = TRUE]
        /\ acked' = [acked EXCEPT ![c] = Max({@, Head(sock[c]).epoch})]
     \/ /\ Head(sock[c]).op # "publishack"
        /\ UNCHANGED <<serving, acked>>
  /\ UNCHANGED <<listing, state, protoid, fileVars>>

ListAnswered(c) ==
  /\ Take(c, "list")
  /\ pc' = [pc EXCEPT ![c] = "idle"]
  /\ listing' = [listing EXCEPT ![c] = Fetched(Head(sock[c]), text[c])]
  /\ UNCHANGED <<ctlVars, fileVars>>

\* The file of a download is looked up by its hash in the list just fetched,
\* and the output file is opened, which empties it, before any peer is asked.  The
\* command ends here if the file is not listed or its output cannot be opened.
DownloadAnswered(c) ==
  /\ Take(c, "download")
  /\ listing' = [listing EXCEPT ![c] = Fetched(Head(sock[c]), text[c])]
  /\ \/ /\ \E l \in ToSet(listing'[c]) : l.hash = arg[c]
        /\ pc' = [pc EXCEPT ![c] = "writing"]
        /\ disk' = [disk EXCEPT ![c] = @ \ {arg[c]}]
        /\ UNCHANGED arg
     \/ /\ pc' = [pc EXCEPT ![c] = "idle"]
        /\ arg' = [arg EXCEPT ![c] = NoFile]
        /\ UNCHANGED disk
  /\ UNCHANGED ctlVars

\* dm_filelistres joins the peers of a line with ";" and the client splits them
\* at ",": all of them are the one hostname of the line.
HostOf(l) == IF Len(l.peers) = 1 THEN l.peers[1] ELSE Nobody

\* A peer from which the download of f may obtain the whole of it.
Source(p, f, list) ==
  /\ p \in Clients /\ serving[p] /\ f \in disk[p]
  /\ \E l \in ToSet(list) : l.hash = f /\ HostOf(l) = p

\* logicp2p_download (module Download) returns, with the whole file or not.
DownloadEnds(c) ==
  /\ pc[c] = "writing"
  /\ pc' = [pc EXCEPT ![c] = "idle"]
  /\ \/ /\ \E p \in Clients : Source(p, arg[c], listing[c])
        /\ disk' = [disk EXCEPT ![c] = @ \cup {arg[c]}]
     \/ UNCHANGED disk
  /\ arg' = [arg EXCEPT ![c] = NoFile]
  /\ UNCHANGED <<fwds, fetchVars, ctlVars, serverVars, sent, sock, faults>>

-----------------------------------------------------------------------------
(* The directory: ds_run takes a datagram when the last one is done with.  *)

Receive(c, request) ==
  /\ up /\ todo = <<>>
  /\ sent[c] # <<>> /\ Head(sent[c]) = request
  /\ sent' = [sent EXCEPT ![c] = Tail(@)]
  /\ \/ client_sa' = c /\ UNCHANGED faults
     \/ client_sa' = client_sa /\ Fault("addrlen")
  /\ UNCHANGED <<clientVars, up, epoch>>

\* sendto client_sa: to no client when the address is none.
Respond(op, list) ==
  sock' = [c \in Clients |->
             IF c = client_sa'
             THEN Append(sock[c], [op |-> op, list |-> list, epoch |-> epoch])
             ELSE sock[c]]

RespondPing(c) == /\ Receive(c, "ping")
                  /\ Respond(IF protoid[c] = "ours" THEN "pingok" ELSE "pingbad", <<>>)
                  /\ UNCHANGED <<registry, todo>>

\* The test case of ds_respond, before anything is parsed.
RespondTest(c) == /\ Receive(c, "test")
                  /\ Respond("testok", <<>>)
                  /\ UNCHANGED <<registry, todo>>

RespondFilelist(c) == /\ Receive(c, "filelist")
                      /\ Respond("filelistres", registry)
                      /\ UNCHANGED <<registry, todo>>

\* A publish whose first line is taken for the operation's.
RespondPublishButFirst(c) == /\ Receive(c, "publish")
                             /\ Respond("publishack", <<>>)
                             /\ todo' = SubSeq(Shares[c], 2, Len(Shares[c]))
                             /\ UNCHANGED registry

\* A publish that replaces the database instead of joining it.
RespondPublishReplacing(c) == /\ Receive(c, "publish")
                              /\ Respond("publishack", <<>>)
                              /\ todo' = Shares[c]
                              /\ registry' = <<>>

RespondPublish(c) == /\ Receive(c, "publish")
                     /\ Respond("publishack", <<>>)
                     /\ todo' = Shares[c]
                     /\ UNCHANGED registry

\* ds_register_peer that adds a peer to new files only.
RegisterPeerOnlyNew ==
  /\ todo # <<>>
  /\ todo' = Tail(todo)
  /\ registry' = IF \E l \in ToSet(registry) : l.hash = Head(todo) THEN registry
                 ELSE Append(registry, [hash |-> Head(todo), peers |-> <<client_sa>>])
  /\ UNCHANGED <<clientVars, up, client_sa, epoch, sent, sock, faults>>

\* ds_register_peer without the test of sl_exists.
RegisterPeerAgain ==
  /\ todo # <<>>
  /\ todo' = Tail(todo)
  /\ \/ \E k \in DOMAIN registry :
          /\ registry[k].hash = Head(todo)
          /\ registry' = [registry EXCEPT ![k].peers = Append(@, client_sa)]
     \/ /\ \A k \in DOMAIN registry : registry[k].hash # Head(todo)
        /\ registry' = Append(registry, [hash |-> Head(todo), peers |-> <<client_sa>>])
  /\ UNCHANGED <<clientVars, up, client_sa, epoch, sent, sock, faults>>

\* ds_register_peer adding the peer to the last line, not to the one found.
RegisterPeerLast ==
  /\ todo # <<>>
  /\ todo' = Tail(todo)
  /\ \/ /\ \E l \in ToSet(registry) : l.hash = Head(todo)
        /\ registry' = [registry EXCEPT ![Len(registry)].peers = Append(@, client_sa)]
     \/ /\ \A l \in ToSet(registry) : l.hash # Head(todo)
        /\ registry' = Append(registry, [hash |-> Head(todo), peers |-> <<client_sa>>])
  /\ UNCHANGED <<clientVars, up, client_sa, epoch, sent, sock, faults>>

\* One turn of ds_register_peer's loop over the published files.
RegisterPeer ==
  /\ todo # <<>>
  /\ todo' = Tail(todo)
  /\ \/ \E k \in DOMAIN registry :
          /\ registry[k].hash = Head(todo)
          /\ registry' = IF client_sa \in ToSet(registry[k].peers) THEN registry
                         ELSE [registry EXCEPT ![k].peers = Append(@, client_sa)]
     \/ /\ \A k \in DOMAIN registry : registry[k].hash # Head(todo)
        /\ registry' = Append(registry, [hash |-> Head(todo), peers |-> <<client_sa>>])
  /\ UNCHANGED <<clientVars, up, client_sa, epoch, sent, sock, faults>>

\* The database is in memory only, and goes with the process.
Crash == /\ up /\ Fault("crash")
         /\ up' = FALSE
         /\ registry' = <<>> /\ todo' = <<>> /\ client_sa' = Nobody
         /\ UNCHANGED <<clientVars, epoch, sent, sock>>

StartAgain == /\ ~up
              /\ up' = TRUE /\ epoch' = epoch + 1
              /\ UNCHANGED <<clientVars, registry, client_sa, todo, sent, sock, faults>>

\* A datagram finds no socket bound to the port.
Discard(c) == /\ ~up
              /\ sent[c] # <<>>
              /\ sent' = [sent EXCEPT ![c] = Tail(@)]
              /\ UNCHANGED <<clientVars, serverVars, sock, faults>>

-----------------------------------------------------------------------------
(* The network, in either direction of a client.                           *)

OnPath(c, Change(_, _)) ==
  \/ \E k \in DOMAIN sent[c] : sent' = [sent EXCEPT ![c] = Change(@, k)] /\ UNCHANGED sock
  \/ \E k \in DOMAIN sock[c] : sock' = [sock EXCEPT ![c] = Change(@, k)] /\ UNCHANGED sent

Lose(c)      == Fault("loss") /\ OnPath(c, RemoveAt)
Duplicate(c) == Fault("dup") /\ OnPath(c, LAMBDA s, k : InsertAt(s, k, s[k]))
Reorder(c)   == Fault("reorder")
                  /\ OnPath(c, LAMBDA s, k : IF k = 1 THEN s
                                             ELSE [s EXCEPT ![k] = s[k - 1], ![k - 1] = s[k]])

Network == \E c \in Clients : (Lose(c) \/ Duplicate(c) \/ Reorder(c))
                                /\ UNCHANGED <<clientVars, serverVars>>

-----------------------------------------------------------------------------
Command(c) == CtlTest(c) \/ CtlPing(c) \/ CtlServe(c) \/ CtlListremote(c) \/ CtlDownload(c) \/ CtlQuit(c)
Answered(c) == \/ PingAnswered(c) \/ PublishAnswered(c) \/ ListAnswered(c)
               \/ DownloadAnswered(c) \/ TestAnswered(c)
Server(c) == RespondPing(c) \/ RespondTest(c) \/ RespondFilelist(c) \/ RespondPublish(c)

\* Every client has quit and the directory has nothing left to do.
Terminated == /\ \A c \in Clients : pc[c] = "quit" /\ sent[c] = <<>>
              /\ todo = <<>>
              /\ UNCHANGED vars

Next == \/ \E c \in Clients : \/ Command(c) \/ Timeout(c) \/ Answered(c)
                              \/ DownloadEnds(c) \/ Server(c) \/ Discard(c)
        \/ RegisterPeer
        \/ Crash \/ StartAgain
        \/ Network
        \/ Terminated

Spec == Init /\ [][Next]_vars

\* The socket of the directory is a FIFO, so no client's datagrams wait forever
\* behind those of others; a blocked client gets its reply or its timeout; and a
\* user whose client is idle pings now and then.
FairSpec == /\ Spec
            /\ WF_vars(RegisterPeer)
            /\ \A c \in Clients : /\ SF_vars(Server(c)) /\ WF_vars(Discard(c))
                                  /\ WF_vars(Answered(c)) /\ WF_vars(Timeout(c))
                                  /\ SF_vars(CtlPing(c))

-----------------------------------------------------------------------------
(* Properties.                                                             *)

\* The type invariant of the clients, the directory and the paths between them.
TypeOK ==
  /\ pc \in [Clients -> {"start", "idle", "writing", "quit"} \cup Waits]
  /\ fwds \in [Clients -> 0..(MaxForwardings - 1)]
  /\ text \in [Clients -> Seq(Line)] /\ listing \in [Clients -> Seq(Line)]
  /\ state \in [Clients -> {"OFFLINE", "ONLINE"}]
  /\ arg \in [Clients -> Files \cup {NoFile}]
  /\ serving \in [Clients -> BOOLEAN]
  /\ acked \in [Clients -> Nat]
  /\ protoid \in [Clients -> {"ours", "other"}]
  /\ disk \in [Clients -> SUBSET Files]
  /\ up \in BOOLEAN /\ epoch \in Nat \ {0}
  /\ registry \in Seq(Line) /\ client_sa \in Hosts /\ todo \in Seq(Files)
  /\ sent \in [Clients -> Seq(Request)]
  /\ sock \in [Clients -> Seq(Reply)]
  /\ faults \in [count : 0..MaxFaults, disorder : BOOLEAN]

Pairs(list) == {<<l.hash, p>> : l \in ToSet(list), p \in Clients} \cap
                 UNION {{l.hash} \X ToSet(l.peers) : l \in ToSet(list)}

\* However often a publish is sent or delivered, the directory holds one line
\* per hash, and in it each peer once: ds_register_peer's filedb_find_hash and
\* sl_exists see what the earlier copies registered.
LinesDistinct ==
  /\ \A j, k \in DOMAIN registry : registry[j].hash = registry[k].hash => j = k
  /\ \A l \in ToSet(registry) : IsInjective(l.peers)

\* ds_respond acknowledges a publish before it registers the files.  Still,
\* a client that has taken the publishack of the directory that runs now has
\* all its files registered, or the directory is registering the rest.
AckedIsRegistered ==
  \A c \in Clients : up /\ acked[c] = epoch =>
    \A f \in ToSet(Shares[c]) : \/ <<f, c>> \in Pairs(registry)
                                \/ f \in ToSet(todo) /\ client_sa = c

\* What a client reads out of recv_buff may be stale, and lines may be spoilt,
\* but a line whose hash it can read names no peer that did not publish it.
NeverMisattributed ==
  \A c \in Clients : \A pair \in Pairs(listing[c]) :
    pair[1] # NoFile => pair[1] \in ToSet(Shares[pair[2]])

\* What the directory does for its clients is what module Registry promises
\* them; the files of a publish that are still to be registered count as known,
\* since the directory takes no other datagram before they are.
Promises == INSTANCE Registry
              WITH Offers <- [c \in Clients |-> ToSet(Shares[c])],
                   known <- Pairs(registry) \cup (ToSet(todo) \X {client_sa}),
                   acked <- {c \in Clients : up /\ acked[c] = epoch}

\* ds_respond and ds_register_peer implement Registry, however often the
\* network repeats, delays and reorders what the clients send.
ImplementsRegistry == Promises!RegistrySpec

Answer(wait) == CASE wait = "ping" -> {"pingok", "pingbad"}
                  [] wait = "test" -> {"testok"}
                  [] wait = "publish" -> {"publishack"}
                  [] OTHER -> {"filelistres"}

\* The reply that a command takes is one to its own request, as the protocol
\* says of each (doc/PROTOCOL.md: the answer to 'filelist' is its reply).
AnswersAlwaysMatch ==
  \A c \in Clients : pc[c] \in Waits /\ sock[c] # <<>> => Head(sock[c]).op \in Answer(pc[c])

\* Losses and restarts alone never make a command take a reply that is not one
\* to its own request (dc_request), though nothing but the order of exchanges
\* relates the two.
AnswersMatch == ~ faults.disorder => AnswersAlwaysMatch

\* A client that the directory of now has told that its files are published finds
\* them in every list it fetches from then on, as long as replies keep in step.
SeesOwnFiles ==
  [][\A c \in Clients : ~ faults.disorder /\ ListAnswered(c) /\ acked[c] = epoch =>
       \A f \in ToSet(Shares[c]) : <<f, c>> \in Pairs(listing'[c])]_vars

\* As long as it is the same directory and replies keep in step, a list never
\* lacks what an earlier one had: nothing is ever unpublished.
ListsGrow ==
  [][\A c \in Clients : ~ faults.disorder /\ epoch = 1 /\ listing'[c] # listing[c] =>
       Pairs(listing[c]) \subseteq Pairs(listing'[c])]_vars

\* Nor is anything read that the directory did not send: recv_buff keeps the
\* tail of every longer list, but the lists of one directory only grow.
ListIsTheReply ==
  [][\A c \in Clients : ~ faults.disorder /\ epoch = 1 /\ ListAnswered(c) =>
       listing'[c] = Head(sock[c]).list]_vars

\* A command that waits for the directory returns, be it gone for good.
CommandsReturn == \A c \in Clients : pc[c] \in Waits ~> pc[c] \notin Waits

\* If the directory stays up, a client whose user keeps pinging is online again
\* and again: the failed pings use up the replies that came too late.
BackOnline ==
  \A c \in Clients : protoid[c] = "ours" =>
    (<>[]up => []<>(state[c] = "ONLINE" \/ pc[c] \in {"writing", "quit"}))
=============================================================================
