------------------------------- MODULE FileDb -------------------------------
(***************************************************************************)
(* The scan of the shared directory with which a client starts             *)
(* (filedb_scan, filedb.c; main.c): directories are read recursively, one  *)
(* entry per step, while others may change or remove files.                *)
(*                                                                         *)
(* A path is the sequence of its names, below the shared directory <<>>.   *)
(* The hash and the size of a file are the number of its contents, which   *)
(* is 1 as the scan starts and counts the changes after, or Gone.          *)
(* readdir's order is any.  The static buff is shared by all calls.        *)
(***************************************************************************)
EXTENDS SequencesExt, FiniteSetsExt, Vectors

CONSTANTS Kind,        \* per path in the shared directory: its d_type
          RecordSize,  \* sizeof(file_info_t)
          MaxEdits     \* how often files change meanwhile

Paths == DOMAIN Kind
Files == {p \in Paths : Kind[p] = "reg"}
Dirs  == {<<>>} \cup {p \in Paths : Kind[p] = "dir"}
Gone  == 0
Dots  == {".", ".."}

ASSUME TreeAssumption ==
  \A p \in Paths : /\ p \in Seq(STRING)
                   /\ Kind[p] \in {"dir", "reg", "other"}  \* DT_DIR, DT_REG
                   /\ p # <<>> /\ Front(p) \in Dirs /\ Last(p) \notin Dots
ASSUME RecordAssumption == RecordSize \in Nat \ {0, 1} /\ MaxEdits \in Nat

VARIABLES
  pc,      \* "start", "scan", "hash" (of a file whose size is known),
           \* "ready" for commands, "exit" of main with 1, "crashed"
  frames,  \* the calls of filedb_scan: dirpath, and entries not yet read
  buff,    \* the path that was last printed to buff
  size,    \* get_file_size of that file
  errno,   \* is errno set?
  db,
  now,     \* the contents of the files
  edits,   \* how often they have changed
  denied,  \* files that open refuses; directories that opendir refuses, or readdir
           \* fails to read on in
  slash    \* does the shared directory's path, given with -p, end in "/"?

fsVars == <<now, edits, denied, slash>>
vars == <<pc, frames, buff, size, errno, db, fsVars>>

Record == [name : Files, hash : 1..(MaxEdits + 1), size : 0..(MaxEdits + 1)]
Junk   == [name |-> <<>>, hash |-> Gone, size |-> 0]  \* a record overwritten

Init == /\ pc = "start" /\ frames = <<>> /\ buff = <<>> /\ size = 0
        /\ errno = FALSE
        /\ db = New(RecordSize)
        /\ now = [f \in Files |-> 1] /\ edits = 0
        /\ denied \in SUBSET (Dirs \cup Files)
        /\ slash \in BOOLEAN

\* "%s%s" of basepath and a path below it names the file only if basepath ends
\* in a slash.
Resolves(p) == slash \/ p = <<>>
Broken(d)   == ~ Resolves(d) \/ d \in denied             \* opendir or readdir may fail
Exists(f)   == Resolves(f) /\ now[f] # Gone              \* stat
Readable(f) == Exists(f) /\ f \notin denied              \* SHA1File

Call(d) == [dirpath |-> d,
            todo |-> Dots \cup {Last(p) : p \in {q \in Paths : Front(q) = d}}]

\* The path of an entry without the directories above its own.
PathOfBare(call, name) == <<name>>
PathOf(call, name) == Append(call.dirpath, name)

\* readdir returns an entry of the directory: which kind of entry it is.
KindOf(name) == IF name \in Dots THEN "dots" ELSE Kind[PathOf(Last(frames), name)]
Reads(name, kinds) == /\ pc = "scan" /\ name \in Last(frames).todo
                      /\ ~ errno
                      /\ KindOf(name) \in kinds

\* A call of filedb_scan returns.  The caller, if filedb_scan, ignores the
\* result; main ends the process on -1.
ReturnUnchecked(result) ==
  /\ frames' = Front(frames)
  /\ pc' = IF Len(frames) = 1 THEN "ready" ELSE "scan"

Return(result) ==
  /\ frames' = Front(frames)
  /\ pc' = IF Len(frames) > 1 THEN "scan" ELSE IF result < 0 THEN "exit" ELSE "ready"

Start == /\ pc = "start"
         /\ \/ Resolves(<<>>) /\ pc' = "scan" /\ frames' = <<Call(<<>>)>>
            \/ Broken(<<>>) /\ pc' = "exit" /\ UNCHANGED frames
         /\ UNCHANGED <<buff, size, errno, db, fsVars>>

\* An errno left by the entry before, or by a call below, is taken for readdir's.
Abort == /\ pc = "scan" /\ Last(frames).todo # {}
         /\ errno
         /\ Return(-1)
         /\ UNCHANGED <<buff, size, errno, db, fsVars>>

\* readdir fails, which looks as the end of the directory does.
ReadFails == /\ pc = "scan" /\ Last(frames).dirpath \in denied
             /\ errno' = TRUE
             /\ Return(0)
             /\ UNCHANGED <<buff, size, db, fsVars>>

Consumed(name) == [frames EXCEPT ![Len(frames)].todo = @ \ {name}]

Skip(name) == /\ Reads(name, {"dots", "other"})
              /\ frames' = Consumed(name)
              /\ UNCHANGED <<pc, buff, size, errno, db, fsVars>>

Directory(name) ==
  LET d == PathOf(Last(frames), name) IN
  /\ Reads(name, {"dir"})
  /\ buff' = d
  /\ \/ Resolves(d) /\ frames' = Append(Consumed(name), Call(d)) /\ UNCHANGED errno
     \/ Broken(d) /\ frames' = Consumed(name) /\ errno' = TRUE
  /\ UNCHANGED <<pc, size, db, fsVars>>

\* get_file_size: 0 when stat fails.
StatFile(name) ==
  LET f == PathOf(Last(frames), name) IN
  /\ Reads(name, {"reg"})
  /\ buff' = f
  /\ \/ Exists(f) /\ size' = now[f] /\ UNCHANGED errno
     \/ ~ Exists(f) /\ size' = 0 /\ errno' = TRUE
  /\ frames' = Consumed(name)
  /\ pc' = "hash"
  /\ UNCHANGED <<db, fsVars>>

\* compute_file_hash and the insertion.  strdup(NULL) crashes.  Once the vector has
\* been reallocated to less than it holds, records may be overwritten.
HashFile ==
  /\ pc = "hash"
  /\ \/ /\ Readable(buff)
        /\ LET r == [name |-> buff, hash |-> now[buff], size |-> size] IN
           db' \in Damaged(Insert(db, r), RecordSize, Junk)
        /\ pc' = "scan"
     \/ /\ ~ Readable(buff)
        /\ pc' = "crashed" /\ UNCHANGED db
  /\ UNCHANGED <<frames, buff, size, errno, fsVars>>

\* What a write past the end of the vector has damaged comes to light.
HeapBreaks == /\ pc \in {"scan", "hash"} /\ ~ InBounds(db, RecordSize)
              /\ pc' = "crashed"
              /\ UNCHANGED <<frames, buff, size, errno, db, fsVars>>

EndOfDirectory == /\ pc = "scan" /\ Last(frames).todo = {}
                  /\ Return(0)
                  /\ UNCHANGED <<buff, size, errno, db, fsVars>>

\* Somebody writes, removes or puts back a file while the scan goes on.
Edit(f) == /\ pc \in {"scan", "hash"} /\ edits < MaxEdits
           /\ edits' = edits + 1
           /\ \E contents \in {edits + 2, Gone} : now' = [now EXCEPT ![f] = contents]
           /\ UNCHANGED <<pc, frames, buff, size, errno, db, denied, slash>>

Over == pc \in {"ready", "exit", "crashed"} /\ UNCHANGED vars

Names == {Last(p) : p \in Paths} \cup Dots

Next == \/ Start \/ Abort \/ ReadFails \/ HashFile \/ HeapBreaks \/ EndOfDirectory \/ Over
        \/ \E name \in Names : Skip(name) \/ Directory(name) \/ StatFile(name)
        \/ \E f \in Files : Edit(f)

Spec == Init /\ [][Next]_vars

-----------------------------------------------------------------------------
(* Properties.                                                             *)

\* The type invariant: calls nest along the path that is being read, and the
\* vector has grown before it is full.
TypeOK ==
  /\ pc \in {"start", "scan", "hash", "ready", "exit", "crashed"}
  /\ \A k \in DOMAIN frames : /\ frames[k].dirpath \in Dirs
                              /\ Len(frames[k].dirpath) = k - 1
                              /\ frames[k].todo \subseteq Names
  /\ buff \in Dirs \cup Files /\ size \in 0..(MaxEdits + 1) /\ errno \in BOOLEAN
  /\ db \in Vector(Record \cup {Junk}) /\ WellFormed(db)
  /\ now \in [Files -> 0..(MaxEdits + 1)] /\ edits \in 0..MaxEdits
  /\ denied \subseteq Dirs \cup Files /\ slash \in BOOLEAN

Listed    == {db.items[k].name : k \in DOMAIN db.items}
Undamaged == Len(db.items) <= Initial

\* A file is listed once, under its own path below the shared directory, and
\* unless somebody changed it, with the hash and size it has: though all calls
\* print their paths to one buff, and the size is asked for before the contents
\* are read (filedb_scan).
RecordsTrue ==
  Undamaged =>
    \A k \in DOMAIN db.items :
      LET r == db.items[k] IN
        /\ \A j \in DOMAIN db.items : db.items[j].name = r.name => j = k
        /\ now[r.name] = 1 => r.hash = 1 /\ r.size = 1

\* What can stop a directory from being read to its end: itself or a directory
\* below it that opendir or readdir fails for, or a file below it that somebody
\* changed.
Troubled(d) == \E p \in Dirs \cup Files : /\ d \in Prefixes(p)
                                         /\ IF p \in Dirs THEN Broken(p) ELSE now[p] # 1

\* filedb_scan ignores the result of its own calls, an errno left behind ends the
\* directory above as well, and a failed readdir looks as the end of a directory
\* does.  Still, when a client comes up, files are missing only below a
\* subdirectory with trouble somewhere in it: those directly in the shared
\* directory are all listed, unless reading that directory itself failed; as long
\* as there are no more files than filedb_new has room for (filedb_scan, main).
MissingIsLocal ==
  pc = "ready" /\ Undamaged =>
    \A f \in Files \ Listed : \E d \in Dirs \cap Prefixes(f) :
      (d # <<>> \/ d \in denied) /\ Troubled(d)

\* The scan crashes only over a file it cannot read: one that may not be opened,
\* that has gone, or any at all if the path given with -p does not end in a slash;
\* or when there are more files than filedb_new has room for (filedb_insert).
CrashNeedsCause ==
  pc = "crashed" => \/ ~ slash \/ denied \cap Files # {}
                    \/ \E f \in Files : now[f] = Gone
                    \/ Len(db.items) > Initial
=============================================================================
