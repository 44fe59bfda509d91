------------------------------ MODULE MCChatHub ------------------------------
(* All connections of a side belong to one account.                        *)
EXTENDS ChatHub

CONSTANTS user, admin

MCIds     == {user, admin}
MCAccount == [c \in UserConns \cup AdminConns |-> IF c \in UserConns THEN user ELSE admin]

=============================================================================
