----------------------------- MODULE MCPeerServer -----------------------------
(* A small instance of PeerServer for TLC.                                 *)
EXTENDS PeerServer

CONSTANTS alice, bob, a, b

\* alice reads a piece of a file; bob asks for another, and past its end.
AllWants == [c \in Clients |->
   IF c = alice THEN <<FileReq(a), ChunkReq(0, 1)>>
                ELSE <<FileReq(b), ChunkReq(2, 1)>>]

Sizes == [f \in Files |-> IF f = a THEN 2 ELSE 1]
===============================================================================
