----------------------------- MODULE MCDirectory -----------------------------
(* Small instances of Directory for TLC.                                   *)
EXTENDS Directory

CONSTANTS alice, bob, a, b

\* alice and bob share a, bob also b.
AllShares == [c \in Clients |-> IF c = alice THEN <<a>> ELSE <<a, b>>]

\* Every user gives every command.
AllCommands == [c \in Clients |-> {"serve", "listremote", "download", "quit", "test"}]

\* alice looks at what the others publish.
Publishing == [c \in Clients |-> IF c = alice THEN {"serve", "listremote"} ELSE {"serve"}]
==============================================================================
