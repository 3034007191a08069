--------------------------------- MODULE Inbox ---------------------------------
(* What a connection promises to the handlers of its client's requests: each is  *)
(* handed over in the order they were sent, once, whole, none skipped, as long   *)
(* as the client stays.  A client that leaves may cut its last request short:    *)
(* then one more is handed over that is damaged, or the one before it again, and *)
(* after that nothing.                                                           *)
EXTENDS Naturals, Sequences

CONSTANTS
  Conn,
  Requests,  \* what each client sends, in order, with the op of each
  Damage     \* what the body of a request may be that did not arrive

VARIABLES
  sent,      \* number of requests each client has begun to send
  left,      \* clients that have left
  handed,    \* what was handed over for each, in order
  over       \* connections that have handed over their last

vars == <<sent, left, handed, over>>

Init ==
  /\ sent = [c \in Conn |-> 0] /\ left = {}
  /\ handed = [c \in Conn |-> <<>>] /\ over = {}

Send(c) ==
  /\ c \notin left /\ sent[c] < Len(Requests[c])
  /\ sent' = [sent EXCEPT ![c] = @ + 1]
  /\ UNCHANGED <<left, handed, over>>

Leave(c) ==
  /\ c \notin left
  /\ left' = left \cup {c}
  /\ UNCHANGED <<sent, handed, over>>

Next_(c) == Len(handed[c]) + 1

Hand(c, body) ==
  /\ c \notin over /\ Next_(c) <= sent[c]
  /\ handed' = [handed EXCEPT
       ![c] = Append(@, [op |-> Requests[c][Next_(c)].op, body |-> body])]
  /\ UNCHANGED <<sent, left>>

Whole(c) == Hand(c, Next_(c)) /\ UNCHANGED over

Cut(c) ==
  /\ c \in left
  /\ \E body \in Damage \cup {Next_(c), Len(handed[c])} : Hand(c, body)
  /\ over' = over \cup {c}

Next == \E c \in Conn : Send(c) \/ Leave(c) \/ Whole(c) \/ Cut(c)

Spec == Init /\ [][Next]_vars

================================================================================
