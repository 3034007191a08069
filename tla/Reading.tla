--------------------------------- MODULE Reading -------------------------------
(***************************************************************************)
(* The reading half of the server's connections: from the bytes a client   *)
(* sends to the tasks process_msg posts, and what the handlers do with a   *)
(* request that did not arrive whole.                                      *)
(*                                                                         *)
(* The network thread runs the completions of header and body reads, each  *)
(* of which starts the next read.  A connection has one buffer for bodies, *)
(* resized and never cleared, and the completion of a body read ignores    *)
(* its error: whatever the buffer holds is parsed as the request.          *)
(***************************************************************************)
EXTENDS Integers, Sequences

CONSTANTS
  Conn, Worker,
  Requests,   \* what each client sends in its session, in order
  Damaged,    \* a body that parses in part, with values nobody sent
  Nothing,    \* a body without the request its header announces
  NoTask

Op == {"auth", "reg", "join", "text"}

ASSUME RequestsAssumption ==
  Requests \in [Conn -> Seq([op : Op, length : Nat \ {0}])]
ASSUME ReadingAssumption ==
  Damaged \notin Nat /\ Nothing \notin Nat /\ Damaged # Nothing

\* The body of the client's n-th request, or what is left of one.
Body == Nat \cup {Damaged, Nothing}
Task(c, op, body) == [conn |-> c, op |-> op, body |-> body]
Tasks == [conn : Conn, op : Op, body : Body]

ASSUME NoTaskAssumption == NoTask \notin Tasks

\* A header or a body on its way, or being read.
Piece(part, n) == [part |-> part, n |-> n]
Pieces == [part : {"header", "body"}, n : Nat]
HeaderRead == Piece("header", 0)

VARIABLES
  client,      \* the program at the other end of each connection
  sent,        \* number of requests it has begun to send
  wire,        \* what the server can still read of them
  open,        \* connections whose socket is open
  reads,       \* the reads under way on each
  buffer_msg,  \* the request whose body was last read into it
  handed,      \* what process_msg has posted for each, in order
  cut,         \* connections with a body read that failed
  tasks,       \* the pool's queue
  job          \* what each of its threads runs

clientVars == <<client, sent>>
poolVars   == <<tasks, job>>
vars == <<clientVars, wire, open, reads, buffer_msg, handed, cut, poolVars>>

Init ==
  /\ client = [c \in Conn |-> "off"]
  /\ sent = [c \in Conn |-> 0]
  /\ wire = [c \in Conn |-> <<>>]
  /\ open = {} /\ cut = {}
  /\ reads = [c \in Conn |-> <<>>]
  /\ buffer_msg = [c \in Conn |-> 0]
  /\ handed = [c \in Conn |-> <<>>]
  /\ tasks = <<>>
  /\ job = [w \in Worker |-> NoTask]

--------------------------------------------------------------------------------
(* The clients.                                                                  *)

\* Client::do_connect; scan_acception makes a Connection and starts it.
Connect(c) ==
  /\ client[c] = "off"
  /\ client' = [client EXCEPT ![c] = "on"]
  /\ open' = open \cup {c}
  /\ reads' = [reads EXCEPT ![c] = <<HeaderRead>>]
  /\ UNCHANGED <<sent, wire, buffer_msg, handed, cut, poolVars>>

\* serialize_request: header and body in one write.
Send(c) ==
  LET n == sent[c] + 1 IN
  /\ client[c] = "on" /\ n <= Len(Requests[c])
  /\ sent' = [sent EXCEPT ![c] = n]
  /\ wire' = [wire EXCEPT ![c] = @ \o <<Piece("header", n), Piece("body", n)>>]
  /\ UNCHANGED <<client, open, reads, buffer_msg, handed, cut, poolVars>>

\* The client closes its socket or dies: of what it sent, only a part arrives,
\* which may end within a header or a body.
Leave(c) ==
  /\ client[c] = "on"
  /\ client' = [client EXCEPT ![c] = "gone"]
  /\ \E k \in 0 .. Len(wire[c]) : wire' = [wire EXCEPT ![c] = SubSeq(@, 1, k)]
  /\ UNCHANGED <<sent, open, reads, buffer_msg, handed, cut, poolVars>>

--------------------------------------------------------------------------------
(* The network thread.                                                           *)

Reads(c, part) == reads[c] # <<>> /\ Head(reads[c]).part = part
Arrived(c, part) == c \in open /\ wire[c] # <<>> /\ Head(wire[c]).part = part

\* A read fails on a closed socket, or at the end of what a client that left sent.
Fails(c) == c \notin open \/ (client[c] = "gone" /\ wire[c] = <<>>)

\* The read in front is over, and this one is started.
StartRead(c, piece) == reads' = [reads EXCEPT ![c] = Append(Tail(@), piece)]

\* do_parse_pb_header resizes the buffer and reads as many bytes as announced.
HeaderDone(c) ==
  /\ Reads(c, "header") /\ Arrived(c, "header")
  /\ StartRead(c, Piece("body", Head(wire[c]).n))
  /\ wire' = [wire EXCEPT ![c] = Tail(@)]
  /\ UNCHANGED <<clientVars, open, buffer_msg, handed, cut, poolVars>>

\* free_connection, of which the socket matters here.
Free(c) == open' = open \ {c}

\* Mutant: the error of a header read is only logged.
HeaderFailsQuietly(c) ==
  /\ Reads(c, "header") /\ Fails(c)
  /\ reads' = [reads EXCEPT ![c] = Tail(@)]
  /\ UNCHANGED <<clientVars, wire, open, buffer_msg, handed, cut, poolVars>>

HeaderFails(c) ==
  /\ Reads(c, "header") /\ Fails(c)
  /\ reads' = [reads EXCEPT ![c] = Tail(@)]
  /\ Free(c)
  /\ UNCHANGED <<clientVars, wire, buffer_msg, handed, cut, poolVars>>

\* Mutant: no further header is read.
process_msg_once(c, op, body) ==
  /\ tasks' = Append(tasks, Task(c, op, body))
  /\ handed' = [handed EXCEPT ![c] = Append(@, [op |-> op, body |-> body])]
  /\ reads' = [reads EXCEPT ![c] = Tail(@)]

\* Mutant: the next header is read twice.
process_msg_twice(c, op, body) ==
  /\ tasks' = Append(tasks, Task(c, op, body))
  /\ handed' = [handed EXCEPT ![c] = Append(@, [op |-> op, body |-> body])]
  /\ reads' = [reads EXCEPT ![c] = Tail(@) \o <<HeaderRead, HeaderRead>>]

\* process_msg: parse the body, post the handler of the header's command and read
\* the next header.
process_msg(c, op, body) ==
  /\ tasks' = Append(tasks, Task(c, op, body))
  /\ handed' = [handed EXCEPT ![c] = Append(@, [op |-> op, body |-> body])]
  /\ StartRead(c, HeaderRead)

BodyDone(c) ==
  LET n == Head(reads[c]).n IN
  /\ Reads(c, "body") /\ Arrived(c, "body")
  /\ process_msg(c, Requests[c][n].op, n)
  /\ buffer_msg' = [buffer_msg EXCEPT ![c] = n]
  /\ wire' = [wire EXCEPT ![c] = Tail(@)]
  /\ UNCHANGED <<clientVars, open, cut, job>>

\* Mutant: the buffer keeps every body that was read, not only the last.
AnyLeftover(c, n) == {Damaged, Nothing} \cup 1 .. n

\* What may be parsed when the n-th body arrives in part or not at all: the body
\* before it, which the buffer still holds if it was not made shorter; the n-th
\* itself, if the bytes that are missing happen to be those left over; or neither.
\* A parse that fails keeps the fields it has found.
Leftover(c, n) ==
  LET p == buffer_msg[c] IN
  {Damaged, Nothing}
    \cup {m \in {p, n} :
            /\ p # 0
            /\ m = p => Requests[c][p].length <= Requests[c][n].length
            /\ m = n => Requests[c][p].length >= Requests[c][n].length}

BodyFails(c) ==
  LET n == Head(reads[c]).n IN
  /\ Reads(c, "body") /\ Fails(c)
  /\ \E body \in Leftover(c, n) : process_msg(c, Requests[c][n].op, body)
  /\ cut' = cut \cup {c}
  /\ UNCHANGED <<clientVars, wire, open, buffer_msg, job>>

\* An answer or a message cannot be written to a client that left.
WriteFails(c) ==
  /\ client[c] = "gone" /\ c \in open
  /\ Free(c)
  /\ UNCHANGED <<clientVars, wire, reads, buffer_msg, handed, cut, poolVars>>

Io(c) == HeaderDone(c) \/ HeaderFails(c) \/ BodyDone(c) \/ BodyFails(c)

--------------------------------------------------------------------------------
(* The pool threads.                                                             *)

Take(w) ==
  /\ job[w] = NoTask /\ tasks # <<>>
  /\ job' = [job EXCEPT ![w] = Head(tasks)]
  /\ tasks' = Tail(tasks)
  /\ UNCHANGED <<clientVars, wire, open, reads, buffer_msg, handed, cut>>

\* has_input_request, has_register_request and so on.
Has(task) ==
  IF task.body \in Nat THEN {Requests[task.conn][task.body].op = task.op}
  ELSE IF task.body = Damaged THEN BOOLEAN ELSE {FALSE}

\* Mutant: a sign-in that is refused frees the connection, as the lines commented
\* out in do_autorisation and do_registration did.
FreesRefused(w) ==
  /\ job[w] # NoTask
  /\ \/ job[w].op \in {"auth", "reg"} /\ Free(job[w].conn)
     \/ UNCHANGED open
  /\ job' = [job EXCEPT ![w] = NoTask]
  /\ UNCHANGED <<clientVars, wire, reads, buffer_msg, handed, cut, tasks>>

\* The handler.  What it does with a request is in ChatRooms and Accounts; one that
\* finds none is logged, and a sign-in frees the connection.
Handle(w) ==
  /\ job[w] # NoTask
  /\ \E has \in Has(job[w]) :
       IF ~has /\ job[w].op \in {"auth", "reg"} THEN Free(job[w].conn)
                                                ELSE UNCHANGED open
  /\ job' = [job EXCEPT ![w] = NoTask]
  /\ UNCHANGED <<clientVars, wire, reads, buffer_msg, handed, cut, tasks>>

Next ==
  \/ \E c \in Conn : Connect(c) \/ Send(c) \/ Leave(c) \/ Io(c) \/ WriteFails(c)
  \/ \E w \in Worker : Take(w) \/ Handle(w)

\* A read completes in the end, when its bytes have come or cannot come any more.
Fairness == \A c \in Conn : WF_vars(Io(c))

Spec == Init /\ [][Next]_vars
FairSpec == Spec /\ Fairness

--------------------------------------------------------------------------------
(* Properties.                                                                   *)

\* Every variable has its type, and at most one read of a connection is under way:
\* a second would take a part of the bytes of the first.
TypeOK ==
  /\ client \in [Conn -> {"off", "on", "gone"}]
  /\ sent \in [Conn -> Nat]
  /\ wire \in [Conn -> Seq(Pieces)]
  /\ open \subseteq Conn /\ cut \subseteq Conn
  /\ reads \in [Conn -> Seq(Pieces)] /\ \A c \in Conn : Len(reads[c]) <= 1
  /\ buffer_msg \in [Conn -> Nat]
  /\ handed \in [Conn -> Seq([op : Op, body : Body])]
  /\ tasks \in Seq(Tasks)
  /\ job \in [Worker -> Tasks \cup {NoTask}]

\* The server listens to a client as long as it is there, whatever that sends and
\* whatever becomes of other connections: its socket is open and a read under way,
\* of a header or of the body of the request that is next to be posted.
Listening ==
  \A c \in Conn : client[c] = "on" =>
    /\ c \in open /\ Len(reads[c]) = 1
    /\ reads[c][1] \in {HeaderRead, Piece("body", Len(handed[c]) + 1)}

\* The connection is an inbox: requests are posted in order, each once, none
\* skipped, and only a client that left can have one posted that it did not send
\* so, which is then the last: the cut one, whole or damaged, or the one before it.
Left == {c \in Conn : client[c] = "gone"}
In == INSTANCE Inbox WITH Damage <- {Damaged, Nothing}, left <- Left, over <- cut
ImplementsInbox == In!Spec

\* process_msg's "add ... in queue": every request of a client that stays is posted.
AllPosted ==
  \A c \in Conn : \A n \in 1 .. Len(Requests[c]) :
    sent[c] >= n ~> (Len(handed[c]) >= n \/ client[c] = "gone")

\* "Close socket. Connection saved.": whatever a client cut short when it left, its
\* socket is closed and nothing is read from it any more.
GoneIsClosed ==
  \A c \in Conn : client[c] = "gone" ~> (c \notin open /\ reads[c] = <<>>)

================================================================================
