------------------------------ MODULE Catalogue ------------------------------
(***************************************************************************)
(* What becomes of the clients' files on their way into the directory and  *)
(* out of it: the list a client publishes and the one it fetches are texts *)
(* (DirMessage), cut at the size of a datagram, and the lists read out of  *)
(* them are vectors that overrun when they grow (Vectors).  A process with *)
(* such a vector goes on with records that may have been overwritten, as   *)
(* long as it does not crash.                                              *)
(*                                                                         *)
(* An exchange is one step; module Directory has their interleavings, and  *)
(* what the network does to them.                                          *)
(***************************************************************************)
EXTENDS DirMessage

CONSTANTS Clients, Server,
          ShareLists,  \* the lists of files that clients may share
          Limits,      \* what MAX_DGRAM_SIZE may be, in tokens
          Hashes,      \* the tokens that is_sha1 accepts
          Initial,     \* INITIAL_VECTOR_CAPACITY
          MaxLines     \* the length up to which a damaged list of the directory grows

HashTexts == {<<h>> : h \in Hashes}

ASSUME NamesAssumption   == Server \notin Clients /\ Clients \cap Separators = {}
ASSUME HashesAssumption  == Hashes \subseteq Words
ASSUME LimitsAssumption  == Limits \subseteq Nat \ (0..5)  \* more than a first line
ASSUME InitialAssumption == Initial \in Nat /\ MaxLines \in Nat
ASSUME SharesAssumption  ==
  ShareLists \subseteq Seq([hash : HashTexts, name : Seq(Words \cup Separators), size : Numbers])

VARIABLES
  shares,    \* per client: its files
  limit,     \* MAX_DGRAM_SIZE
  registry,  \* the directory's files
  acked,     \* the clients whose publish was acknowledged
  listing,   \* the list that a client has last fetched
  damaged,   \* the processes with a vector that reaches past its block
  crashed    \* the processes that have crashed

vars == <<shares, limit, registry, acked, listing, damaged, crashed>>

Alive(c) == crashed \cap {c, Server} = {}

\* With "size + 1 >= capacity" for the vectors' test.
OverrunsEarly(list) == Len(list) >= Initial

\* A vector that has grown reaches past the end of its block (Vectors).
Overruns(list) == Len(list) > Initial

Init == /\ shares \in [Clients -> ShareLists] /\ limit \in Limits
        /\ registry = <<>> /\ acked = {}
        /\ listing = <<>> /\ crashed = {}
        /\ damaged = {c \in Clients : Overruns(shares[c])}

\* What a record is after the heap has got hold of its texts.
Overwritten(f) == [f EXCEPT !.hash = <<>>, !.name = <<>>, !.size = Zero]

\* What a list may be in a process, if that is damaged: any of its records may have
\* been overwritten.
Held(isDamaged, list) ==
  {[k \in DOMAIN list |-> IF k \in hit THEN Overwritten(list[k]) ELSE list[k]] :
      hit \in SUBSET (IF isDamaged THEN DOMAIN list ELSE {})}

\* ds_register_peer without the test of sl_exists.
RegisterFileAgain(db, f, host) ==
  IF \E k \in DOMAIN db : db[k].hash = f.hash
  THEN [k \in DOMAIN db |->
          IF db[k].hash = f.hash THEN [db[k] EXCEPT !.peers = Append(@, host)] ELSE db[k]]
  ELSE Append(db, [hash |-> f.hash, name |-> f.name, size |-> f.size, peers |-> <<host>>])

\* ds_register_peer.
RegisterFile(db, f, host) ==
  IF \E k \in DOMAIN db : db[k].hash = f.hash
  THEN [k \in DOMAIN db |->
          IF db[k].hash = f.hash /\ host \notin ToSet(db[k].peers)
          THEN [db[k] EXCEPT !.peers = Append(@, host)] ELSE db[k]]
  ELSE Append(db, [hash |-> f.hash, name |-> f.name, size |-> f.size, peers |-> <<host>>])

Register(db, files, host) ==
  LET after[k \in 0..Len(files)] ==
        IF k = 0 THEN db ELSE RegisterFile(after[k - 1], files[k], host)
  IN  after[Len(files)]

\* dm_publish of a client's list, and what the directory reads of it.
Sent(list) == dm_publish(list, limit)
Read(list) == dm_deserialize_publish(Sent(list).text)
Published(c) == Read(shares[c])

\* logicdir_register_server prints the list, the directory acknowledges the
\* publish and registers what it reads.  A damaged directory does not know its
\* files again and adds them as often as they come.
Publish(c) ==
  /\ Alive(c)
  /\ Server \in damaged => Len(registry) < MaxLines
  /\ \E list \in Held(c \in damaged, shares[c]) :
       /\ dm_deserialize(Sent(list).text) = "publish"
       /\ \E files \in Held(Server \in damaged \/ Overruns(Read(list)), Read(list)) :
            LET db == Register(registry, files, c) IN
            /\ damaged' = damaged \cup
                 IF \/ Overruns(files) \/ Overruns(db)
                    \/ \E k \in DOMAIN db : Overruns(db[k].peers)
                 THEN {Server} ELSE {}
            /\ registry' \in Held(Server \in damaged', db)
  /\ acked' = acked \cup {c}
  /\ UNCHANGED <<shares, limit, listing, crashed>>

\* The list is longer than the buffer by more than its last line.
PublishOverruns(c) == /\ Alive(c)
                      /\ \E list \in Held(c \in damaged, shares[c]) : Sent(list).past
                      /\ crashed' = crashed \cup {c}
                      /\ UNCHANGED <<shares, limit, registry, acked, listing, damaged>>

\* logicdir_fetch, for listremote and download.  Nobody looks at the operation.
Reply   == dm_filelistres(registry, limit)
Fetched == dm_deserialize_filelistres(Reply.text)
Fetch(c) == /\ Alive(c)
            /\ ~ Fetched.null
            /\ damaged' = damaged \cup IF Overruns(Fetched.list) THEN {c} ELSE {}
            /\ listing' \in Held(c \in damaged', Fetched.list)
            /\ UNCHANGED <<shares, limit, registry, acked, crashed>>

FetchCrashes(c) == /\ Alive(c)
                   /\ \/ Reply.past /\ crashed' = crashed \cup {Server}
                      \/ Fetched.null /\ crashed' = crashed \cup {c}
                   /\ UNCHANGED <<shares, limit, registry, acked, listing, damaged>>

\* What was written past the end of a vector comes to light.
HeapBreaks(process) == /\ process \in damaged \ crashed
                       /\ crashed' = crashed \cup {process}
                       /\ UNCHANGED <<shares, limit, registry, acked, listing, damaged>>

Next == \/ \E c \in Clients : Publish(c) \/ PublishOverruns(c) \/ Fetch(c) \/ FetchCrashes(c)
        \/ \E process \in Clients \cup {Server} : HeapBreaks(process)

Spec == Init /\ [][Next]_vars

-----------------------------------------------------------------------------
(* The download command's file.                                            *)

\* filedb_find_hash, filedb_find_name: the first of the files that match.
First(list, matching) == IF matching = {} THEN <<>> ELSE <<list[Min(matching)]>>
WithHash(list, hash) == {k \in DOMAIN list : list[k].hash = hash}
WithName(list, name) == {k \in DOMAIN list : list[k].name = name}

\* The shell splits its line at blanks: the argument is the first word.
Word(text) == LET line == Strip(text)
              IN  IF Has(line, {Blank}) THEN Before(line, {Blank}) ELSE line

\* Whatever is typed is taken for a name.
FoundByName(list, text) == First(list, WithName(list, Word(text)))

\* ctl_download: what looks like a hash is one.
Found(list, text) == LET arg == Word(text)
                     IN  First(list, IF arg \in HashTexts THEN WithHash(list, arg)
                                     ELSE WithName(list, arg))

-----------------------------------------------------------------------------
(* Properties.                                                             *)

IsFile(f) == /\ f.size \in Numbers \cup {Zero}
             /\ ~ Has(f.hash, {Colon}) /\ ~ Has(f.name, {Semicolon})

\* As long as no vector has outgrown its block: the rest of the properties are of
\* programs that no heap has been damaged in.
Undamaged == damaged = {}

\* The type invariant: what was read can be printed and read again, and a file's
\* peers are clients, each once.
TypeOK ==
  /\ shares \in [Clients -> ShareLists] /\ limit \in Limits
  /\ Undamaged => /\ \A f \in ToSet(registry) : /\ IsFile(f) /\ ToSet(f.peers) \subseteq Clients
                                               /\ IsInjective(f.peers)
                  /\ \A f \in ToSet(listing) : IsFile(f)
  /\ acked \subseteq Clients
  /\ crashed \subseteq Clients \cup {Server} /\ damaged \subseteq Clients \cup {Server}

Shared == UNION {{<<c, f>> : f \in ToSet(shares[c])} : c \in Clients}

\* What is read for a name that is printed; and a name that stays as it is.
ReadName(name) == Strip(IF Has(name, {Semicolon}) THEN Before(name, {Semicolon}) ELSE name)
Plain(name)    == ReadName(name) = name

\* No name has a newline behind a semicolon: the rest of it would be read as the
\* beginning of the line of the next file.
Tame == \A s \in Shared : LET name == s[2].name
                         IN  ~ (Has(name, {Semicolon}) /\ Has(After(name, {Semicolon}), {Newline}))

\* If the names are tame and no vector has grown, whatever else is in the names and
\* wherever a list is cut, a line that a client reads has the hash of a file that
\* somebody shares, is under its name and has its size unless that name is not
\* plain, and names only hosts that share it (dm_publish to
\* dm_deserialize_filelistres).
ListedIsShared ==
  Undamaged /\ Tame => \A line \in ToSet(listing) :
    /\ \E s \in Shared : /\ s[2].hash = line.hash
                         /\ Plain(s[2].name) => s[2].name = line.name /\ s[2].size = line.size
    /\ \A p \in ToSet(line.peers) : \A d \in ToSet(p) \cap Clients :
         \E f \in ToSet(shares[d]) : f.hash = line.hash

\* What the snprintfs of a message return in all.
PublishLength(db) == dm_publish(db, limit).len
ListLength(db)    == dm_filelistres(db, limit).len

\* As long as no vector has grown, a list that is fetched has the directory's files
\* in the directory's order, up to where the datagram was cut, and all of them if
\* it was not; newlines, colons and commas in names do not disturb it
\* (dm_filelistres and its reader).
FetchIsPrefix ==
  [][listing' # listing /\ Undamaged' =>
       /\ Len(listing') <= Len(registry)
       /\ \A k \in DOMAIN listing' : /\ listing'[k].hash = registry[k].hash
                                    /\ listing'[k].name = registry[k].name
                                    /\ listing'[k].size = registry[k].size
       /\ ListLength(registry) < limit => Len(listing') = Len(registry)]_vars

\* If the names are tame, no vector has grown, and what its publisher and the
\* directory sent fitted into a datagram each, a file can be downloaded by its
\* hash, whatever its name has become; and by its name, if that is plain and one
\* word, is not like a hash, no other shared file is read under it, and this one
\* under no other (ctl_serve to ctl_download).
Findable ==
  Undamaged /\ Tame /\ ListLength(registry) < limit =>
    \A s \in Shared :
      LET f         == s[2]
          unique    == \A t \in Shared : ReadName(t[2].name) = f.name <=> t[2].hash = f.hash
          Gets(text) == LET file == Found(Fetched.list, text)
                        IN  file # <<>> /\ file[1].hash = f.hash
      IN  s[1] \in acked /\ PublishLength(shares[s[1]]) < limit
          => /\ Gets(f.hash)
             /\ Plain(f.name) /\ Word(f.name) = f.name /\ f.name \notin HashTexts /\ unique
                  => Gets(f.name)

\* As long as every list fits into its datagram and no vector has to grow, there
\* is nothing in the files' names that crashes the directory or a client; but a
\* name that is not tame can hold more lines than a vector has room for.  And a
\* list that is too long for a datagram overwrites no record: a vector grows only
\* by what a list has been read to hold.
GrowsLong == \/ \E c \in Clients : \/ Len(shares[c]) > Initial
                                   \/ ~ Tame /\ Len(Published(c)) > Initial
             \/ Len(registry) > Initial
             \/ \E f \in ToSet(registry) : Len(f.peers) > Initial

CrashNeedsLength ==
  /\ damaged # {} => GrowsLong
  /\ crashed # {} => \/ GrowsLong
                     \/ \E c \in Clients : PublishLength(shares[c]) >= limit
                     \/ ListLength(registry) >= limit

\* The peers of a line are read as the hosts that they are (doc/PROTOCOL.md).
PeersAreSplit ==
  \A line \in ToSet(listing) :
    \A p \in ToSet(line.peers) : Len(p) = 1
=============================================================================
