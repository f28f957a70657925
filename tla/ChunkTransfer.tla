---------------------------- MODULE ChunkTransfer ----------------------------
(***************************************************************************)
(* What a download of nanofiles promises, whoever its peers are: the N     *)
(* chunks of a file are asked for in order and each of them once; a chunk  *)
(* is obtained at most once and only after it was asked for; and unless a  *)
(* handler may give up, a download that a handler ends has asked for every *)
(* chunk.  One that poll() ends by failing may not have, and no download   *)
(* promises that every chunk was obtained: see CompleteWhenDownloaded in   *)
(* Download.                                                               *)
(***************************************************************************)
EXTENDS Integers

CONSTANTS N,          \* number of chunks
          MayGiveUp   \* may a handler end the loop with chunks to ask for?

VARIABLES asked, got, outcome

tvars == <<asked, got, outcome>>

TransferInit == asked = {} /\ got = {} /\ outcome = "none"

AskNext == \E c \in 0..(N - 1) : asked = 0..(c - 1) /\ asked' = asked \cup {c}

Ask == /\ outcome = "none"
       /\ AskNext
       /\ UNCHANGED <<got, outcome>>

\* A chunk is obtained, and with it may come the request of the next one.
Obtain == /\ outcome = "none"
          /\ \E c \in asked \ got : got' = got \cup {c}
          /\ AskNext \/ UNCHANGED asked
          /\ UNCHANGED outcome

Return == /\ outcome = "none"
          /\ \/ outcome' \in {"crashed", "astray", "pollfailed"}
             \/ outcome' = "unreached" /\ asked = {}
             \/ outcome' = "downloaded" /\ (asked = 0..(N - 1) \/ MayGiveUp)
          /\ UNCHANGED <<asked, got>>

TransferNext == Ask \/ Obtain \/ Return

TransferSpec == TransferInit /\ [][TransferNext]_tvars
=============================================================================
