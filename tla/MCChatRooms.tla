------------------------------ MODULE MCChatRooms ------------------------------
(* Instances of ChatRooms for TLC.                                              *)
EXTENDS ChatRooms, TLC

CONSTANTS c1, c2

\* Two users, each on a connection of their own.
TwoUsers == (c1 :> 1) @@ (c2 :> 2)

\* One user on both connections.
OneUser == (c1 :> 1) @@ (c2 :> 1)

\* Bounds: what the two connections send.
OneEach == (c1 :> 1) @@ (c2 :> 1)
TwoAndOne == (c1 :> 2) @@ (c2 :> 1)
TwoAndNone == (c1 :> 2) @@ (c2 :> 0)
OneAndNone == (c1 :> 1) @@ (c2 :> 0)
NoneEach == (c1 :> 0) @@ (c2 :> 0)

\* One text in each room from an earlier run of the server.
OneSaved == [r \in Room |-> <<Text(NoConn, 1, r)>>]
NoneSaved == [r \in Room |-> <<>>]

\* No text has an apostrophe, or that of c1 has.
NoQuotes == (c1 :> {}) @@ (c2 :> {})
FirstQuoted == (c1 :> {1}) @@ (c2 :> {})

\* Threads are alike, and so are rooms where nothing is saved.
Symmetry == Permutations(Worker)
RoomSymmetry == Permutations(Worker) \cup Permutations(Room)

================================================================================
