----------------------------- MODULE DirMessage -----------------------------
(***************************************************************************)
(* The texts of the directory protocol (dir_message.c): what is printed to *)
(* the buffer of a datagram, and what is read out of it again.             *)
(*                                                                         *)
(* A text is a sequence of tokens: the separators, which are one character *)
(* each, and hashes, sizes, hosts and parts of names, which count as one.  *)
(* A buffer that is full in the middle of a token is full before it: what  *)
(* is left of the line lacks its next separator in either case.            *)
(***************************************************************************)
EXTENDS SequencesExt, FiniteSetsExt, Integers

CONSTANTS Words,     \* the tokens between the separators
          Numbers    \* those that strtoll reads as numbers

Blank     == " "
Colon     == ":"
Semicolon == ";"
Comma     == ","
Newline   == "\n"
Separators == {Colon, Semicolon, Comma, Blank, Newline}
Zero == "0"

ASSUME WordsAssumption == Words \cap Separators = {} /\ Numbers \subseteq Words

-----------------------------------------------------------------------------
(* Printing.                                                               *)

\* One snprintf at buff + len.  It returns what it would have printed, so that
\* len can pass the limit; then the next one prints past the end of the buffer.
Snprintf(limit, b, text) ==
  [text |-> IF b.len < limit
            THEN SubSeq(b.text \o text, 1, Min({limit - 1, b.len + Len(text)}))
            ELSE b.text,
   len  |-> b.len + Len(text),
   past |-> b.past \/ b.len > limit]

\* Texts printed one after the other; a datagram is ended by the first NUL.
Printed(limit, buff, texts) ==
  LET after[k \in 0..Len(texts)] ==
        IF k = 0 THEN buff ELSE Snprintf(limit, after[k - 1], texts[k])
  IN  after[Len(texts)]

Unprinted == [text |-> <<>>, len |-> 0, past |-> FALSE]

FirstLine(oper) == <<"operation", Colon, Blank, oper, Newline>>

FileText(f) == f.hash \o <<Colon, Blank>> \o f.name \o <<Semicolon, Blank, f.size>>

dm_publish(db, limit) ==
  Printed(limit, Snprintf(limit, Unprinted, FirstLine("publish")),
          [k \in DOMAIN db |-> FileText(db[k]) \o <<Newline>>])

\* The peers of a file with "; " between them.
PeerTexts(peers) == [k \in 1..(2 * Len(peers) - 1) |->
                       IF k % 2 = 1 THEN <<peers[(k + 1) \div 2]>> ELSE <<Semicolon, Blank>>]

LineTexts(f) == <<FileText(f) \o <<Semicolon, Blank>>>> \o PeerTexts(f.peers) \o <<<<Newline>>>>

dm_filelistres(db, limit) ==
  LET after[k \in 0..Len(db)] ==
        IF k = 0 THEN Snprintf(limit, Unprinted, FirstLine("filelistres"))
        ELSE Printed(limit, after[k - 1], LineTexts(db[k]))
  IN  after[Len(db)]

-----------------------------------------------------------------------------
(* Reading.                                                                *)

Has(text, tokens) == \E k \in DOMAIN text : text[k] \in tokens

\* strchr, strpbrk: where the first of the tokens is.
Place(text, tokens)  == CHOOSE k \in DOMAIN text : /\ text[k] \in tokens
                                                  /\ \A j \in 1..(k - 1) : text[j] \notin tokens
Before(text, tokens) == SubSeq(text, 1, Place(text, tokens) - 1)
After(text, tokens)  == SubSeq(text, Place(text, tokens) + 1, Len(text))

Strip(text) == LET blanks == {k \in 0..Len(text) : \A j \in 1..k : text[j] = Blank}
               IN  SubSeq(text, Max(blanks) + 1, Len(text))

\* The value of the first line with the key, as a sequence of at most one; an
\* empty key is any key.
get_value(key, text) ==
  LET ends == {Colon, Newline}
      value[t \in {SubSeq(text, k, Len(text)) : k \in 1..(Len(text) + 1)}] ==
        LET line == Strip(t)
            rest == Strip(After(line, ends))
        IN  CASE ~ Has(line, ends) -> <<>>
              [] Has(line, ends) /\ Before(line, ends) \in {<<>>, <<key>>} ->
                   <<IF line[Place(line, ends)] = Newline THEN <<>>
                     ELSE IF Has(rest, {Newline}) THEN Before(rest, {Newline}) ELSE rest>>
              [] OTHER -> IF Has(line, {Newline}) THEN value[After(line, {Newline})] ELSE <<>>
  IN  value[text]

Operations == {"ping", "filelist", "publish", "pingok", "pingbad", "filelistres", "publishack"}

\* The operation of a message.
dm_deserialize(text) ==
  LET value == get_value("operation", text)
  IN  IF \E oper \in Operations : value = <<<<oper>>>> THEN value[1][1] ELSE "invalid"

strtoll(text) == IF text # <<>> /\ text[1] \in Numbers THEN text[1] ELSE Zero

\* The name with the blank before it.
FieldsUnstripped(text) == LET named == After(text, {Colon})
                          IN  [hash |-> Before(text, {Colon}), name |-> Before(named, {Semicolon}),
                               rest |-> Strip(After(named, {Semicolon}))]

\* A text that says no ":" or ";" where one belongs ends the list there.
HasFields(text) == Has(text, {Colon}) /\ Has(Strip(After(text, {Colon})), {Semicolon})
Fields(text) == LET named == Strip(After(text, {Colon}))
                IN  [hash |-> Before(text, {Colon}), name |-> Before(named, {Semicolon}),
                     rest |-> Strip(After(named, {Semicolon}))]

\* One turn of the loop over the lines of a publish: what is left of the text,
\* nothing of it where the loop ends, and the list.
PublishLine(s) ==
  LET f == Fields(s.text) IN
  IF HasFields(s.text) /\ Has(f.rest, {Newline})
  THEN [text |-> After(f.rest, {Newline}),
        list |-> Append(s.list, [hash |-> f.hash, name |-> f.name, size |-> strtoll(f.rest)])]
  ELSE [s EXCEPT !.text = <<>>]

\* There are no more turns than tokens.
PublishLines(text) ==
  LET after[k \in 0..Len(text)] ==
        IF k = 0 THEN [text |-> text, list |-> <<>>] ELSE PublishLine(after[k - 1])
  IN  after[Len(text)].list

dm_deserialize_publish(text) ==
  IF Has(text, {Newline}) THEN PublishLines(After(text, {Newline})) ELSE <<>>

\* One turn of the loop over hosts, and how the loop ends: at the line's end, in
\* want of one, or at the end of the text.
NextHost(s) ==
  LET host == Before(s.text, {Comma, Newline}) IN
  CASE s.end # "more" -> s
    [] s.end = "more" /\ s.text = <<>> -> [s EXCEPT !.end = "text"]
    [] s.end = "more" /\ s.text # <<>> /\ ~ Has(s.text, {Comma, Newline}) ->
         [s EXCEPT !.end = "none"]
    [] OTHER -> [text  |-> Strip(After(s.text, {Comma, Newline})),
                 hosts |-> IF host = <<>> THEN s.hosts ELSE Append(s.hosts, host),
                 end   |-> IF s.text[Len(host) + 1] = Newline THEN "line" ELSE "more"]

HostsOf(text) ==
  LET after[k \in 0..(Len(text) + 1)] ==
        IF k = 0 THEN [text |-> text, hosts |-> <<>>, end |-> "more"] ELSE NextHost(after[k - 1])
  IN  after[Len(text) + 1]

\* The next line is looked for from the start of this one.
ListLineFromStart(s) ==
  LET f     == Fields(s.text)
      peers == HostsOf(Strip(After(f.rest, {Semicolon})))
  IN  IF HasFields(s.text) /\ Has(f.rest, {Semicolon})
      THEN [text |-> IF peers.end = "line" THEN After(s.text, {Newline}) ELSE <<>>,
            list |-> Append(s.list, [hash |-> f.hash, name |-> f.name, size |-> strtoll(f.rest),
                                     peers |-> peers.hosts]),
            null |-> peers.end = "text"]
      ELSE [s EXCEPT !.text = <<>>]

\* One turn of the loop over the lines of a list; where the text ends in place of
\* the first host, it goes on at NULL.
ListLine(s) ==
  LET f     == Fields(s.text)
      hosts == Strip(After(f.rest, {Semicolon}))
      peers == HostsOf(hosts)
  IN  IF HasFields(s.text) /\ Has(f.rest, {Semicolon})
      THEN [text |-> IF peers.end = "line" THEN After(hosts, {Newline}) ELSE <<>>,
            list |-> Append(s.list, [hash |-> f.hash, name |-> f.name, size |-> strtoll(f.rest),
                                     peers |-> peers.hosts]),
            null |-> peers.end = "text"]
      ELSE [s EXCEPT !.text = <<>>]

ListLines(text) ==
  LET after[k \in 0..Len(text)] ==
        IF k = 0 THEN [text |-> text, list |-> <<>>, null |-> FALSE] ELSE ListLine(after[k - 1])
  IN  after[Len(text)]

dm_deserialize_filelistres(text) ==
  IF Has(text, {Newline}) THEN ListLines(After(text, {Newline}))
  ELSE [text |-> <<>>, list |-> <<>>, null |-> FALSE]
===============================================================================
