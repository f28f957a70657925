------------------------------- MODULE Registry -------------------------------
(* What the directory promises its clients: it knows who offers which file,  *)
(* learns all the files of a client at once, forgets nothing as long as it   *)
(* runs, and acknowledges a client only once it knows all that client's      *)
(* files.                                                                    *)

CONSTANTS Clients,
          Offers   \* per client: the files it publishes

VARIABLES known,   \* the pairs of a file and a client that offers it
          acked    \* the clients with an acknowledgement of this directory

OffersOf(c) == Offers[c] \X {c}

RegistryInit == known = {} /\ acked = {}

Publish(c) == known' = known \cup OffersOf(c) /\ UNCHANGED acked

Acknowledge(c) == /\ OffersOf(c) \subseteq known
                  /\ acked' = acked \cup {c}
                  /\ UNCHANGED known

Restart == known' = {} /\ acked' = {}

RegistryNext == Restart \/ \E c \in Clients : Publish(c) \/ Acknowledge(c)

RegistrySpec == RegistryInit /\ [][RegistryNext]_<<known, acked>>
===============================================================================
