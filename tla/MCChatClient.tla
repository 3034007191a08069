------------------------------ MODULE MCChatClient -----------------------------
(* An instance of ChatClient for TLC.                                            *)
EXTENDS ChatClient, TLC

CONSTANTS s1, s2

\* The server sends to the second Client; of the first only the sign-in matters.
ToSecond == (s1 :> 0) @@ (s2 :> 3)

\* And the user sends one text over the second.
OneText == (s1 :> 0) @@ (s2 :> 1)

Symmetry == Permutations(Room)

================================================================================
