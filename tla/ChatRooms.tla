------------------------------- MODULE ChatRooms -------------------------------
(***************************************************************************)
(* The server side of a chat: connections, the pool threads that run their *)
(* requests, the ChannelsManager and its Channels, and the history table.  *)
(*                                                                         *)
(* The network thread IO (the one that runs server's io_service) reads     *)
(* requests, posts one task per request to the pool, and runs              *)
(* Connection::free_connection when a read or a write fails.  The pool     *)
(* threads take the tasks in order and run them in parallel.  Every step   *)
(* below is one access to a container the threads share: an operation on   *)
(* one container is atomic here, an iteration over one is a step for each  *)
(* element, and everything else interleaves.                               *)
(*                                                                         *)
(* Left to other modules: registration (Accounts) and the send queue's own *)
(* steps (SendQueue).  A request arrives whole or not at all.              *)
(*                                                                         *)
(* The containers are not locked, and an insertion may reorder one under a *)
(* loop or an operation of another thread.  Left out is what that does to  *)
(* memory: entries keep their place in a loop, and an erased one stays     *)
(* readable.                                                               *)
(***************************************************************************)
EXTENDS Integers, Sequences, FiniteSets

CONSTANTS
  Conn,        \* Connection objects, one per accepted socket
  Room,        \* room identifiers a client may ask for
  Worker,      \* threads of server's thread_pool
  Account,     \* client ids stored in the logins table
  AccountOf,   \* what check_client answers for the login sent on a connection
  Garbage,     \* what the uninitialised client_id may hold
  Saved,       \* the history table as earlier runs of the server left it
  Quoted,      \* which texts of a connection have an apostrophe in them or their login
  IO,          \* the network thread
  NoConn, NoRoom, NoTask, NoId,
  MaxJoins,    \* bound: joins asked for on each connection
  MaxTexts,    \* bound: texts sent on each connection
  MayFail,     \* bound: connections on which a failed write may be reported
  MayLeave     \* bound: connections whose client may close of itself

Id == Account \cup {-1} \cup Garbage
Thread == Worker \cup {IO}

ASSUME IdAssumption ==
  /\ Account \subseteq Nat \ {0} /\ IsFiniteSet(Account)
  /\ Garbage \subseteq Int /\ IsFiniteSet(Garbage)
  /\ AccountOf \in [Conn -> Account \cup {-1}]
ASSUME NoneAssumption ==
  NoConn \notin Conn /\ NoRoom \notin Room /\ NoId \notin Id /\ IO \notin Worker
ASSUME BoundAssumption ==
  /\ MaxJoins \in [Conn -> Nat] /\ MaxTexts \in [Conn -> Nat]
  /\ MayFail \subseteq Conn /\ MayLeave \subseteq Conn

\* A text is its sender's n-th.  The lines "... joined to room_id=..." and
\* "... leave from room_id=..." are one message, the name in them left out.
Text(c, n, r) == [from |-> c, n |-> n, room |-> r]
Announcement(r) == [from |-> NoConn, n |-> 0, room |-> r]
Msg == [from : Conn \cup {NoConn}, n : Nat, room : Room]

\* A row names its room; rows are told apart by their place among the room's.
ASSUME SavedAssumption ==
  /\ Saved \in [Room -> Seq(Msg)]
  /\ \A r \in Room : \A k \in 1 .. Len(Saved[r]) : Saved[r][k] = Text(NoConn, k, r)
ASSUME QuotedAssumption == Quoted \in [Conn -> SUBSET Nat]

\* A task in the pool's queue.  room is the room asked for, or in an answer the
\* room it names; ok is the answer's status.
Task(op, c, r, n, ok) ==
  [op |-> op, conn |-> c, room |-> r, n |-> n, ok |-> ok]
Tasks == [op : {"join", "text"}, conn : Conn, room : Room, n : Nat, ok : BOOLEAN]
         \cup [op : {"auth", "authReply", "joinReply"}, conn : Conn,
               room : Room \cup {NoRoom}, n : Nat, ok : BOOLEAN]

VARIABLES
  client,      \* the program at the other end of each connection
  told,        \* rooms named by the join answers that told it of success
  asked,       \* rooms it asked to join, in order
  texts,       \* number of texts it sent
  answered,    \* number of join answers it received
  hasty,       \* clients that asked to join before their last join was answered
  early,       \* texts for a room their user had not been told it is in
  open,        \* connections whose socket is open
  reading,     \* connections with a header read outstanding
  werr,        \* connections with a failed answer write to be reported
  client_id, room_id, busy,    \* members of Connection
  broken,      \* connections whose send queue stopped at a failed write
  outbox,      \* everything handed to Connection::send_msg_to_client
  tasks,       \* the pool's queue
  pc, job,     \* what each worker does next, and the task it runs
  it,          \* the entry of client_in_rooms a worker's iterator points to
  history,     \* the messages a worker has loaded, or has still to replay
  todo,        \* the subscribers a thread in notification has still to visit
  audience,    \* who had been told it is in the room when notification began
  iopc, freeing, free_id, rest, leaving,  \* the network thread in free_connection
  entries, client_in_rooms,    \* ChannelsManager: the ids with an entry, its rooms
  clientid_to_login, channels,
  subscribers, history_room,   \* Channel
  db_ptr, db   \* whether the database is open; the history table, per room

clientVars  == <<client, told, asked, texts, answered, hasty, early>>
connVars    == <<open, reading, werr, client_id, room_id, busy>>
sendVars    == <<broken, outbox>>
workerVars  == <<pc, job, it, history, audience>>
freeVars    == <<iopc, freeing, free_id, rest, leaving>>
managerVars == <<entries, client_in_rooms, clientid_to_login, channels>>
channelVars == <<subscribers, history_room>>
dbVars      == <<db_ptr, db>>
vars == <<clientVars, connVars, sendVars, tasks, workerVars, todo, freeVars,
          managerVars, channelVars, dbVars>>

NoSubscribers == [i \in Id |-> NoConn]

Init ==
  /\ client = [c \in Conn |-> "off"]
  /\ told = [c \in Conn |-> {}]
  /\ asked = [c \in Conn |-> <<>>]
  /\ texts = [c \in Conn |-> 0]
  /\ answered = [c \in Conn |-> 0]
  /\ hasty = {} /\ early = {}
  /\ open = {} /\ reading = {} /\ werr = {} /\ busy = {}
  /\ client_id \in [Conn -> Garbage]
  /\ room_id = [c \in Conn |-> NoRoom]
  /\ broken = {}
  /\ outbox = [c \in Conn |-> <<>>]
  /\ tasks = <<>>
  /\ pc = [w \in Worker |-> "idle"]
  /\ job = [w \in Worker |-> NoTask]
  /\ it = [w \in Worker |-> NoId]
  /\ history = [w \in Worker |-> <<>>]
  /\ todo = [t \in Thread |-> {}]
  /\ audience = [w \in Worker |-> {}]
  /\ iopc = "idle" /\ freeing = NoConn /\ free_id = -1 /\ rest = {}
  /\ leaving = NoRoom
  /\ entries = {}
  /\ client_in_rooms = [i \in Id |-> {}]
  /\ clientid_to_login = {}
  /\ channels = {}
  /\ subscribers = [r \in Room |-> NoSubscribers]
  /\ history_room = [r \in Room |-> <<>>]
  /\ db_ptr = "open" /\ db = Saved

--------------------------------------------------------------------------------
(* The network thread: accepting and reading.  A request is sent and read in   *)
(* one step, since one still in the socket's buffer has no effect yet.          *)

\* ConnectionManager::get_connection makes a new Connection and start() arms
\* the first header read.
Accept(c) ==
  /\ iopc = "idle" /\ client[c] = "off"
  /\ client' = [client EXCEPT ![c] = "new"]
  /\ open' = open \cup {c}
  /\ reading' = reading \cup {c}
  /\ busy' = busy \cup {c}
  /\ UNCHANGED <<told, asked, texts, answered, hasty, early, werr, client_id,
                 room_id, sendVars, tasks, workerVars, todo, freeVars,
                 managerVars, channelVars, dbVars>>

\* process_msg posts the request's handler and arms the next header read.
Post(c, task) ==
  /\ iopc = "idle" /\ c \in reading /\ c \in open
  /\ tasks' = Append(tasks, task)
  /\ UNCHANGED <<told, answered, connVars, sendVars, workerVars, todo,
                 freeVars, managerVars, channelVars, dbVars>>

ReadAuth(c) ==
  /\ client[c] = "new"
  /\ client' = [client EXCEPT ![c] = "login"]
  /\ Post(c, Task("auth", c, NoRoom, 0, TRUE))
  /\ UNCHANGED <<asked, texts, hasty, early>>

Waiting(c) == answered[c] < Len(asked[c])

\* The user may type any channel number, again and again, without waiting.
ReadJoin(c, r) ==
  /\ client[c] = "in" /\ Len(asked[c]) < MaxJoins[c]
  /\ asked' = [asked EXCEPT ![c] = Append(@, r)]
  /\ hasty' = IF Waiting(c) THEN hasty \cup {c} ELSE hasty
  /\ Post(c, Task("join", c, r, 0, TRUE))
  /\ UNCHANGED <<client, texts, early>>

\* do_text_msg takes a text for any room, joined or not.
ReadText(c, r) ==
  LET n == texts[c] + 1 IN
  /\ client[c] = "in" /\ texts[c] < MaxTexts[c]
  /\ texts' = [texts EXCEPT ![c] = n]
  /\ early' = IF r \in told[c] THEN early ELSE early \cup {Text(c, n, r)}
  /\ Post(c, Task("text", c, r, n, TRUE))
  /\ UNCHANGED <<client, asked, hasty>>

\* The client closes its end.
ClientLeaves(c) ==
  /\ c \in MayLeave /\ client[c] \in {"new", "login", "in"}
  /\ client' = [client EXCEPT ![c] = "gone"]
  /\ UNCHANGED <<told, asked, texts, answered, hasty, early, connVars, sendVars,
                 tasks, workerVars, todo, freeVars, managerVars, channelVars, dbVars>>

--------------------------------------------------------------------------------
(* Channel::notification, which pool threads and the network thread run.  It   *)
(* walks subscribers without the lock, while others subscribe and leave.        *)

\* The loop begins: it has the subscribers of now before it.
BeginLoop(t, r) == todo' = [todo EXCEPT ![t] = {i \in Id : subscribers[r][i] # NoConn}]

\* Mutant: the filter commented out in notification is put back.
HandOthers(c, m) ==
  outbox' = IF c = m.from THEN outbox ELSE [outbox EXCEPT ![c] = Append(@, m)]

\* Connection::send_msg_to_client queues a message.
Hand(c, m) == outbox' = [outbox EXCEPT ![c] = Append(@, m)]

\* One round of the loop: the entry of i is next in the map's order.
Deliver(t, i, m) ==
  /\ i \in todo[t]
  /\ Hand(subscribers[m.room][i], m)
  /\ todo' = [todo EXCEPT ![t] = @ \ {i}]

\* ... and its last line.
Log(m) == history_room' = [history_room EXCEPT ![m.room] = Append(@, m)]

Looping(t, r) == \/ t \in Worker /\ pc[t] = "send" /\ job[t].room = r
                 \/ t = IO /\ iopc = "send" /\ leaving = r

\* A new entry is before or behind the place a loop has got to.
MeetNew(i, r) ==
  \E behind \in SUBSET {t \in Thread : Looping(t, r)} :
    todo' = [t \in Thread |-> IF t \in behind THEN todo[t] \cup {i} ELSE todo[t]]

MissErased(i, r) ==
  todo' = [t \in Thread |-> IF Looping(t, r) THEN todo[t] \ {i} ELSE todo[t]]

\* Writing fails once the peer is gone or the socket is closed.
Unwritable(c) == client[c] = "gone" \/ c \notin open

--------------------------------------------------------------------------------
(* A pool thread.  pc[w] names the next shared access of the task it runs.      *)

Goto(w, l) == pc' = [pc EXCEPT ![w] = l]

\* The task is finished, after posting the tasks of a sequence.
Finish(w, posted) ==
  /\ Goto(w, "idle")
  /\ job' = [job EXCEPT ![w] = NoTask]
  /\ tasks' = tasks \o posted
  /\ UNCHANGED <<it, history, audience>>

FirstStep(op) == CASE op = "join" -> "enter"
                   [] op = "text" -> "find"
                   [] OTHER -> op

Take(w) ==
  /\ pc[w] = "idle" /\ tasks # <<>>
  /\ job' = [job EXCEPT ![w] = Head(tasks)]
  /\ Goto(w, FirstStep(Head(tasks).op))
  /\ tasks' = Tail(tasks)
  /\ UNCHANGED <<clientVars, connVars, sendVars, it, history, audience, todo,
                 freeVars, managerVars, channelVars, dbVars>>

\* What signing in may come to: on a closed database check_client finds nobody,
\* while a registration is granted.
Outcomes(c) == IF db_ptr = "open" THEN {AccountOf[c]} ELSE {AccountOf[c], -1}

\* do_autorisation: check_client's answer becomes the connection's id.
DoAutorisation(w) ==
  LET c == job[w].conn IN
  /\ pc[w] = "auth"
  /\ \E i \in Outcomes(c) :
       /\ client_id' = [client_id EXCEPT ![c] = i]
       /\ Finish(w, <<Task("authReply", c, NoRoom, 0, i # -1)>>)
  /\ UNCHANGED <<clientVars, open, reading, werr, room_id, busy, sendVars, todo,
                 freeVars, managerVars, channelVars, dbVars>>

\* send_auto_response and send_join_room_response write straight to the socket.
\* A write that cannot reach the client is lost, and may be reported as failed.
AnswerLost(c) ==
  /\ Unwritable(c)
  /\ werr' \in {werr, werr \cup ({c} \cap MayFail)}
  /\ UNCHANGED clientVars

\* The client closes when the status is not OK.
AuthAnswered(c, ok) ==
  \/ /\ ~Unwritable(c)
     /\ client' = [client EXCEPT ![c] = IF ok THEN "in" ELSE "gone"]
     /\ UNCHANGED <<told, asked, texts, answered, hasty, early, werr>>
  \/ AnswerLost(c)

JoinAnswered(c, r, ok) ==
  \/ /\ ~Unwritable(c)
     /\ answered' = [answered EXCEPT ![c] = @ + 1]
     /\ told' = [told EXCEPT ![c] = IF ok THEN @ \cup {r} ELSE @]
     /\ client' = [client EXCEPT ![c] = IF ok THEN @ ELSE "gone"]
     /\ UNCHANGED <<asked, texts, hasty, early, werr>>
  \/ AnswerLost(c)

SendAnswer(w) ==
  LET t == job[w] IN
  /\ \/ pc[w] = "authReply" /\ AuthAnswered(t.conn, t.ok)
     \/ pc[w] = "joinReply" /\ JoinAnswered(t.conn, t.room, t.ok)
  /\ Finish(w, <<>>)
  /\ UNCHANGED <<open, reading, client_id, room_id, busy, sendVars, todo,
                 freeVars, managerVars, channelVars, dbVars>>

--------------------------------------------------------------------------------
(* do_join_room: ChannelsManager::join, then the answer.                        *)

\* client_in_rooms.find(client_id), ...
Enter(w) ==
  LET i == client_id[job[w].conn] IN
  /\ pc[w] = "enter"
  /\ IF i \in entries THEN it' = [it EXCEPT ![w] = i] /\ Goto(w, "push")
                      ELSE Goto(w, "emplace") /\ UNCHANGED it
  /\ UNCHANGED <<clientVars, connVars, sendVars, tasks, job, history, audience,
                 todo, freeVars, managerVars, channelVars, dbVars>>

\* ... emplace where it found none: when another thread has made the entry since,
\* the room is not recorded at all; ...
EmplaceEntry(w) ==
  LET i == client_id[job[w].conn] IN
  /\ pc[w] = "emplace"
  /\ IF i \notin entries
     THEN /\ entries' = entries \cup {i}
          /\ it' = [it EXCEPT ![w] = i]
          /\ Goto(w, "push")
     ELSE Goto(w, "find") /\ UNCHANGED <<entries, it>>
  /\ UNCHANGED <<clientVars, connVars, sendVars, tasks, job, history, audience, todo,
                 freeVars, client_in_rooms, clientid_to_login, channels, channelVars,
                 dbVars>>

\* Mutant: only the entry is made, the room is not put on it.
PushNothing(w) ==
  /\ pc[w] = "push"
  /\ it' = [it EXCEPT ![w] = NoId]
  /\ Goto(w, "find")
  /\ UNCHANGED <<clientVars, connVars, sendVars, tasks, job, history, audience,
                 todo, freeVars, managerVars, channelVars, dbVars>>

\* ... and push_back through the iterator.  If the entry was erased meanwhile, the
\* room goes to freed memory.
Push(w) ==
  /\ pc[w] = "push"
  /\ client_in_rooms' = IF it[w] = NoId THEN client_in_rooms
                        ELSE [client_in_rooms EXCEPT ![it[w]] = @ \cup {job[w].room}]
  /\ it' = [it EXCEPT ![w] = NoId]
  /\ Goto(w, "find")
  /\ UNCHANGED <<clientVars, connVars, sendVars, tasks, job, history, audience,
                 todo, freeVars, entries, clientid_to_login, channels, channelVars,
                 dbVars>>

\* Mutant: Channel::join subscribes before it replays.
JoinNextSwapped(l) == CASE l = "find" -> "subscribe"
                       [] l = "subscribe" -> "replay"
                       [] l = "replay" -> "notify"

\* The order of Channel::join.
JoinNext(l) == CASE l = "find" -> "replay"
                [] l = "replay" -> "subscribe"
                [] l = "subscribe" -> "notify"

\* channels.find, for a join and for send_to_channel.
Find(w) ==
  LET found == job[w].room \in channels IN
  /\ pc[w] = "find"
  /\ Goto(w, CASE job[w].op = "join" -> IF found THEN JoinNext("find") ELSE "load"
               [] OTHER -> IF found THEN "notify" ELSE "save")
  /\ UNCHANGED <<clientVars, connVars, sendVars, tasks, job, it, history, audience,
                 todo, freeVars, managerVars, channelVars, dbVars>>

\* Database::get_history returns a room's texts as they were saved, and nothing
\* when the database is closed.
get_history(r) == IF db_ptr = "open" THEN db[r] ELSE <<>>

\* Mutant: the Channel starts with an empty history.
LoadNothing(w) ==
  /\ pc[w] = "load" /\ Goto(w, "create")
  /\ UNCHANGED <<clientVars, connVars, sendVars, tasks, job, it, history, audience,
                 todo, freeVars, managerVars, channelVars, dbVars>>

\* The constructor of Channel loads the history, ...
Load(w) ==
  /\ pc[w] = "load" /\ Goto(w, "create")
  /\ history' = [history EXCEPT ![w] = get_history(job[w].room)]
  /\ UNCHANGED <<clientVars, connVars, sendVars, tasks, job, it, audience, todo,
                 freeVars, managerVars, channelVars, dbVars>>

\* Mutant: the refused join is still answered OK.
CreateAnsweringOK(w) ==
  LET r == job[w].room IN
  /\ pc[w] = "create"
  /\ history' = [history EXCEPT ![w] = <<>>]
  /\ \/ /\ r \notin channels
        /\ channels' = channels \cup {r}
        /\ history_room' = [history_room EXCEPT ![r] = history[w]]
        /\ Goto(w, JoinNext("find"))
     \/ /\ r \in channels
        /\ Goto(w, "reply")
        /\ UNCHANGED <<channels, history_room>>
  /\ UNCHANGED <<clientVars, connVars, sendVars, tasks, job, it, audience, todo,
                 freeVars, entries, client_in_rooms, clientid_to_login, subscribers,
                 dbVars>>

\* ... and channels.emplace.  Another thread may have created the channel since the
\* find: emplace then does nothing and the join fails ("Non create").
Create(w) ==
  LET r == job[w].room IN
  /\ pc[w] = "create"
  /\ history' = [history EXCEPT ![w] = <<>>]
  /\ \/ /\ r \notin channels
        /\ channels' = channels \cup {r}
        /\ history_room' = [history_room EXCEPT ![r] = history[w]]
        /\ Goto(w, JoinNext("find"))
        /\ UNCHANGED job
     \/ /\ r \in channels
        /\ job' = [job EXCEPT ![w].ok = FALSE]
        /\ Goto(w, "reply")
        /\ UNCHANGED <<channels, history_room>>
  /\ UNCHANGED <<clientVars, connVars, sendVars, tasks, it, audience, todo, freeVars,
                 entries, client_in_rooms, clientid_to_login, subscribers, dbVars>>

\* Where the replay goes on: what is appended to the history after it began is not
\* for this loop.
Resume(w) == Goto(w, IF history'[w] = <<>> THEN JoinNext("replay") ELSE "resend")

\* Channel::join: set_busy, and the loop over the history ...
Replay(w) ==
  /\ pc[w] = "replay"
  /\ busy' = busy \cup {job[w].conn}
  /\ history' = [history EXCEPT ![w] = history_room[job[w].room]]
  /\ Resume(w)
  /\ UNCHANGED <<clientVars, open, reading, werr, client_id, room_id, sendVars, tasks,
                 job, it, audience, todo, freeVars, managerVars, channelVars, dbVars>>

\* ... sends one message after the other, ...
Resend(w) ==
  /\ pc[w] = "resend"
  /\ Hand(job[w].conn, Head(history[w]))
  /\ history' = [history EXCEPT ![w] = Tail(@)]
  /\ Resume(w)
  /\ UNCHANGED <<clientVars, connVars, broken, tasks, job, it, audience, todo, freeVars,
                 managerVars, channelVars, dbVars>>

\* ... try_emplace under mutex_subs, ...
Subscribe(w) ==
  LET c == job[w].conn
      r == job[w].room
      i == client_id[c] IN
  /\ pc[w] = "subscribe"
  /\ IF subscribers[r][i] = NoConn
     THEN subscribers' = [subscribers EXCEPT ![r][i] = c] /\ MeetNew(i, r)
     ELSE UNCHANGED <<subscribers, todo>>
  /\ Goto(w, JoinNext("subscribe"))
  /\ UNCHANGED <<clientVars, connVars, sendVars, tasks, job, it, history, audience,
                 freeVars, managerVars, history_room, dbVars>>

\* ... and notification, which a text runs too.
Message(t) == IF t.op = "join" THEN Announcement(t.room)
                               ELSE Text(t.conn, t.n, t.room)

Notify(w) ==
  /\ pc[w] = "notify" /\ Goto(w, "send")
  /\ BeginLoop(w, job[w].room)
  /\ audience' = [audience EXCEPT ![w] = {c \in Conn : job[w].room \in told[c]}]
  /\ UNCHANGED <<clientVars, connVars, sendVars, tasks, job, it, history, freeVars,
                 managerVars, channelVars, dbVars>>

NotifyNext(w, i) ==
  /\ pc[w] = "send"
  /\ Deliver(w, i, Message(job[w]))
  /\ UNCHANGED <<clientVars, connVars, broken, tasks, workerVars, freeVars,
                 managerVars, channelVars, dbVars>>

LogMessage(w) ==
  /\ pc[w] = "send" /\ todo[w] = {}
  /\ Log(Message(job[w]))
  /\ audience' = [audience EXCEPT ![w] = {}]
  /\ Goto(w, IF job[w].op = "join" THEN "record" ELSE "save")
  /\ UNCHANGED <<clientVars, connVars, sendVars, tasks, job, it, history, todo,
                 freeVars, managerVars, subscribers, dbVars>>

\* The end of ChannelsManager::join: clientid_to_login.try_emplace, set_channel.
Record(w) ==
  LET c == job[w].conn IN
  /\ pc[w] = "record"
  /\ clientid_to_login' = clientid_to_login \cup {client_id[c]}
  /\ room_id' = [room_id EXCEPT ![c] = job[w].room]
  /\ Goto(w, "reply")
  /\ UNCHANGED <<clientVars, open, reading, werr, client_id, busy, sendVars, tasks,
                 job, it, history, audience, todo, freeVars, entries, client_in_rooms,
                 channels, channelVars, dbVars>>

\* Mutant: a refused join returns before the answer is posted.
ReplyGranted(w) ==
  LET c == job[w].conn IN
  /\ pc[w] = "reply"
  /\ Finish(w, IF job[w].ok THEN <<Task("joinReply", c, room_id[c], 0, TRUE)>> ELSE <<>>)
  /\ UNCHANGED <<clientVars, connVars, sendVars, todo, freeVars, managerVars,
                 channelVars, dbVars>>

\* do_join_room posts the answer: it names the connection's room_id member.
ReplyJoin(w) ==
  LET c == job[w].conn IN
  /\ pc[w] = "reply"
  /\ Finish(w, <<Task("joinReply", c, room_id[c], 0, job[w].ok)>>)
  /\ UNCHANGED <<clientVars, connVars, sendVars, todo, freeVars, managerVars,
                 channelVars, dbVars>>

HasQuote(m) == m.from \in Conn /\ m.n \in Quoted[m.from]

\* Database::save_text_msg: a statement that fails closes the database, and on a
\* closed one each fails.  An apostrophe in the text or the login makes the insert
\* another statement, which fails or does not store the text; what else it might
\* do to the table is left out.
save_text_msg(m) ==
  \/ db_ptr = "null" /\ UNCHANGED dbVars
  \/ db_ptr = "open" /\ HasQuote(m) /\ db_ptr' \in {"open", "null"} /\ UNCHANGED db
  \/ /\ db_ptr = "open" /\ ~HasQuote(m)
     /\ db' = [db EXCEPT ![m.room] = Append(@, m)] /\ UNCHANGED db_ptr

\* do_text_msg, after send_to_channel: Database::save_text_msg.
Save(w) ==
  /\ pc[w] = "save"
  /\ save_text_msg(Message(job[w]))
  /\ Finish(w, <<>>)
  /\ UNCHANGED <<clientVars, connVars, sendVars, todo, freeVars, managerVars,
                 channelVars>>

--------------------------------------------------------------------------------
(* Connection::free_connection, on the network thread.                          *)

\* Mutant: the room_id member is left too, even when it is still 0.
FreeWithRoomId(c) ==
  /\ freeing' = c /\ free_id' = client_id[c] /\ iopc' = "leave"
  /\ rest' = client_in_rooms[client_id[c]] \cup {room_id[c]}
  /\ UNCHANGED leaving

\* leave_from_all_channels(client_id): the id is read once, and its entry looked
\* up.  The loop ends where the entry's deque ended when it began.
FreeConnection(c) ==
  /\ freeing' = c /\ free_id' = client_id[c]
  /\ IF client_id[c] \in entries
     THEN iopc' = "leave" /\ rest' = client_in_rooms[client_id[c]]
     ELSE iopc' = "forget" /\ rest' = {}
  /\ UNCHANGED leaving

\* Mutant: a header read error ends the reading only.
HeaderReadIgnored(c) ==
  /\ iopc = "idle" /\ c \in reading /\ Unwritable(c)
  /\ reading' = reading \ {c}
  /\ UNCHANGED <<clientVars, open, werr, client_id, room_id, busy, sendVars, tasks,
                 workerVars, todo, freeVars, managerVars, channelVars, dbVars>>

\* do_parse_pb_header with an error: the peer closed, or the socket is closed.
HeaderReadFails(c) ==
  /\ iopc = "idle" /\ c \in reading /\ Unwritable(c)
  /\ reading' = reading \ {c}
  /\ FreeConnection(c)
  /\ UNCHANGED <<clientVars, open, werr, client_id, room_id, busy, sendVars, tasks,
                 workerVars, todo, managerVars, channelVars, dbVars>>

AnswerWriteFails(c) ==
  /\ iopc = "idle" /\ c \in werr
  /\ werr' = werr \ {c}
  /\ FreeConnection(c)
  /\ UNCHANGED <<clientVars, open, reading, client_id, room_id, busy, sendVars, tasks,
                 workerVars, todo, managerVars, channelVars, dbVars>>

\* The message is not popped, so nothing will be written again.  Completed
\* writes are not followed: any message handed over may be the one that fails.
QueueWriteFails(c) ==
  /\ iopc = "idle" /\ outbox[c] # <<>> /\ c \notin broken
  /\ c \in MayFail /\ Unwritable(c)
  /\ broken' = broken \cup {c}
  /\ FreeConnection(c)
  /\ UNCHANGED <<clientVars, connVars, outbox, tasks, workerVars, todo, managerVars,
                 channelVars, dbVars>>

IoGoto(l) == iopc' = l /\ UNCHANGED <<freeing, free_id>>

\* Channel::leave(client_id) on the next of the rooms: whoever is subscribed
\* under that id is announced as leaving.
LeaveRoom(r) ==
  /\ iopc = "leave" /\ r \in rest
  /\ IF r \in channels /\ subscribers[r][free_id] # NoConn
     THEN leaving' = r /\ IoGoto("notify") /\ UNCHANGED rest
     ELSE rest' = rest \ {r} /\ IoGoto("leave") /\ UNCHANGED leaving
  /\ UNCHANGED <<clientVars, connVars, sendVars, tasks, workerVars, todo,
                 managerVars, channelVars, dbVars>>

NotifyLeave ==
  /\ iopc = "notify" /\ IoGoto("send")
  /\ BeginLoop(IO, leaving)
  /\ UNCHANGED <<clientVars, connVars, sendVars, tasks, workerVars, rest, leaving,
                 managerVars, channelVars, dbVars>>

NotifyLeaveNext(i) ==
  /\ iopc = "send"
  /\ Deliver(IO, i, Announcement(leaving))
  /\ UNCHANGED <<clientVars, connVars, broken, tasks, workerVars, freeVars,
                 managerVars, channelVars, dbVars>>

LogLeave ==
  /\ iopc = "send" /\ todo[IO] = {}
  /\ Log(Announcement(leaving))
  /\ IoGoto("erase")
  /\ UNCHANGED <<clientVars, connVars, sendVars, tasks, workerVars, todo, rest,
                 leaving, managerVars, subscribers, dbVars>>

\* Mutant: the subscription stays.
EraseNothing ==
  /\ iopc = "erase"
  /\ rest' = rest \ {leaving}
  /\ leaving' = NoRoom
  /\ IoGoto("leave")
  /\ UNCHANGED <<clientVars, connVars, sendVars, tasks, workerVars, todo,
                 managerVars, channelVars, dbVars>>

\* subscribers.erase under mutex_subs.
Erase ==
  /\ iopc = "erase"
  /\ subscribers' = [subscribers EXCEPT ![leaving][free_id] = NoConn]
  /\ MissErased(free_id, leaving)
  /\ rest' = rest \ {leaving}
  /\ leaving' = NoRoom
  /\ IoGoto("leave")
  /\ UNCHANGED <<clientVars, connVars, sendVars, tasks, workerVars,
                 managerVars, history_room, dbVars>>

\* After the loop client_in_rooms.erase, of the entry that was found before it:
\* iterators of others to it now point nowhere.
EraseEntry ==
  /\ iopc = "leave" /\ rest = {}
  /\ entries' = entries \ {free_id}
  /\ client_in_rooms' = [client_in_rooms EXCEPT ![free_id] = {}]
  /\ it' = [w \in Worker |-> IF it[w] = free_id THEN NoId ELSE it[w]]
  /\ IoGoto("forget")
  /\ UNCHANGED <<clientVars, connVars, sendVars, tasks, pc, job, history, audience,
                 todo, rest, leaving, clientid_to_login, channels, channelVars, dbVars>>

\* The end of leave_from_all_channels.
Forget ==
  /\ iopc = "forget" /\ IoGoto("close")
  /\ clientid_to_login' = clientid_to_login \ {free_id}
  /\ UNCHANGED <<clientVars, connVars, sendVars, tasks, workerVars, todo, rest,
                 leaving, entries, client_in_rooms, channels, channelVars, dbVars>>

\* Close the socket under mtx_sock, then reset the members.
Close ==
  /\ iopc = "close"
  /\ open' = open \ {freeing}
  /\ client_id' = [client_id EXCEPT ![freeing] = -1]
  /\ busy' = busy \ {freeing}
  /\ room_id' = [room_id EXCEPT ![freeing] = NoRoom]
  /\ iopc' = "idle" /\ freeing' = NoConn /\ free_id' = -1
  /\ UNCHANGED <<clientVars, reading, werr, sendVars, tasks, workerVars, todo, rest,
                 leaving, managerVars, channelVars, dbVars>>

--------------------------------------------------------------------------------
Join(w) ==
  \/ Enter(w) \/ EmplaceEntry(w) \/ Push(w) \/ Load(w) \/ Create(w)
  \/ Replay(w) \/ Resend(w) \/ Subscribe(w) \/ Record(w) \/ ReplyJoin(w)

Run(w) ==
  \/ DoAutorisation(w) \/ SendAnswer(w) \/ Find(w) \/ Join(w)
  \/ Notify(w) \/ LogMessage(w) \/ Save(w)
  \/ \E i \in Id : NotifyNext(w, i)

Free ==
  \/ \E r \in Room : LeaveRoom(r)
  \/ \E i \in Id : NotifyLeaveNext(i)
  \/ NotifyLeave \/ LogLeave \/ Erase \/ EraseEntry \/ Forget \/ Close

Next ==
  \/ \E c \in Conn :
       \/ Accept(c) \/ ReadAuth(c) \/ ClientLeaves(c)
       \/ \E r \in Room : ReadJoin(c, r) \/ ReadText(c, r)
       \/ HeaderReadFails(c) \/ AnswerWriteFails(c) \/ QueueWriteFails(c)
  \/ \E w \in Worker : Take(w) \/ Run(w)
  \/ Free

\* The threads never stop; io_service runs handlers in the order they become
\* ready, so one that stays ready between other handlers gets its turn.  A peer
\* that closed its end is noticed by the read that waits for it.
Fairness ==
  /\ \A w \in Worker : WF_vars(Take(w) \/ Run(w))
  /\ WF_vars(Free)
  /\ \A c \in Conn : SF_vars(HeaderReadFails(c))

Spec == Init /\ [][Next]_vars
FairSpec == Spec /\ Fairness

--------------------------------------------------------------------------------
(* Properties.                                                                  *)

Lines == {"idle", "auth", "authReply", "joinReply", "enter", "emplace", "push",
          "find", "load", "create", "replay", "resend", "subscribe", "notify",
          "send", "record", "reply", "save"}

\* The lines at which a thread running each kind of task may be.
LinesOf(op) ==
  CASE op = "join" -> {"enter", "emplace", "push", "find", "load", "create", "replay",
                       "resend", "subscribe", "notify", "send", "record", "reply"}
    [] op = "text" -> {"find", "notify", "send", "save"}
    [] OTHER -> {op}

WorkerOK(w) ==
  \/ pc[w] = "idle"
  \/ job[w] \in Tasks /\ pc[w] \in LinesOf(job[w].op)

ClientOK ==
  /\ client \in [Conn -> {"off", "new", "login", "in", "gone"}]
  /\ told \in [Conn -> SUBSET (Room \cup {NoRoom})]
  /\ asked \in [Conn -> Seq(Room)]
  /\ texts \in [Conn -> Nat] /\ answered \in [Conn -> Nat]
  /\ hasty \subseteq Conn /\ early \subseteq Msg
ConnOK ==
  /\ open \subseteq Conn /\ reading \subseteq Conn
  /\ werr \subseteq Conn /\ busy \subseteq Conn
  /\ client_id \in [Conn -> Id]
  /\ room_id \in [Conn -> Room \cup {NoRoom}]
SendOK == broken \subseteq Conn /\ outbox \in [Conn -> Seq(Msg)]
TasksOK == tasks \in Seq(Tasks)
WorkersOK ==
  /\ pc \in [Worker -> Lines] /\ job \in [Worker -> Tasks \cup {NoTask}]
  /\ \A w \in Worker : WorkerOK(w)
HeldOK ==
  /\ it \in [Worker -> Id \cup {NoId}]
  /\ history \in [Worker -> Seq(Msg)]
  /\ \A w \in Worker : pc[w] = "resend" => history[w] # <<>>
  /\ audience \in [Worker -> SUBSET Conn]
LoopOK ==
  /\ todo \in [Thread -> SUBSET Id]
  /\ \A w \in Worker : pc[w] = "send" =>
       \A i \in todo[w] : subscribers[job[w].room][i] \in Conn
  /\ iopc = "send" => \A i \in todo[IO] : subscribers[leaving][i] \in Conn
FreeOK ==
  /\ \/ iopc = "idle" /\ freeing = NoConn
     \/ iopc \in {"leave", "forget", "close"} /\ freeing \in Conn
     \/ iopc \in {"notify", "send", "erase"} /\ freeing \in Conn /\ leaving \in Room
  /\ free_id \in Id /\ rest \subseteq Room /\ leaving \in Room \cup {NoRoom}
ManagerOK ==
  /\ entries \subseteq Id /\ client_in_rooms \in [Id -> SUBSET Room]
  /\ clientid_to_login \subseteq Id /\ channels \subseteq Room
ChannelOK ==
  /\ subscribers \in [Room -> [Id -> Conn \cup {NoConn}]]
  /\ history_room \in [Room -> Seq(Msg)]
DbOK == db_ptr \in {"open", "null"} /\ db \in [Room -> Seq(Msg)]

\* Every variable has its type, each thread is at a line of its task, and a loop
\* of notification has only entries of subscribers before it.
TypeOK ==
  /\ ClientOK /\ ConnOK /\ SendOK /\ TasksOK /\ WorkersOK /\ HeldOK /\ LoopOK
  /\ FreeOK /\ ManagerOK /\ ChannelOK /\ DbOK

\* A connection in service: its socket is open and it is not being freed.
Serving(c) == c \in open /\ freeing # c

\* Every room a client was told it joined exists and has the client subscribed
\* under its id.  The join spreads this over containers it changes in steps that
\* other threads see.
InRoom ==
  \A c \in Conn : Serving(c) =>
    \A r \in told[c] : r \in channels /\ subscribers[r][client_id[c]] = c

Times(m, s) == Cardinality({k \in 1 .. Len(s) : s[k] = m})

TextsIn(s) == {s[k] : k \in {j \in 1 .. Len(s) : s[j].n > 0}}

\* A text reaches a client that asked for its room once at most once, though it
\* may come live, from the replayed history, or from the history table:
\* Channel::join replays before it subscribes, and notification sends before it
\* appends.
AtMostOnce ==
  \A c \in Conn : \A m \in TextsIn(outbox[c]) :
    Times(m.room, asked[c]) <= 1 => Times(m, outbox[c]) = 1

SavingSoon(m) ==
  \E w \in Worker : pc[w] = "save" /\ job[w].op = "text" /\ Message(job[w]) = m

\* While the database is open, the history a channel replays and the table a
\* restarted server would load hold the same texts, but for three kinds: those
\* do_text_msg is still to save, those with an apostrophe, and in the history
\* those that were sent by users who did not know that the room was there.
HistoryAgrees ==
  db_ptr = "open" => \A r \in channels :
    /\ TextsIn(db[r]) \ TextsIn(history_room[r]) \subseteq early
    /\ \A m \in TextsIn(history_room[r]) \ TextsIn(db[r]) :
         SavingSoon(m) \/ HasQuote(m)

\* free_connection leaves nothing behind: once the client is gone and freed, no
\* channel holds its connection and no table its id, if its login was accepted.
Cleared(c) ==
  /\ \A r \in Room, i \in Id : subscribers[r][i] # c
  /\ AccountOf[c] # -1 => AccountOf[c] \notin entries \cup clientid_to_login

Freed(c) == client[c] = "gone" /\ c \notin reading /\ freeing # c

\* It holds of a client that asked for one room after the other and left after
\* all its joins were answered.
CleanExit == \A c \in Conn : Freed(c) /\ ~Waiting(c) /\ c \notin hasty => Cleared(c)

\* "User exit. Leave from channels.": the same of every client whose joins were
\* answered, also of one that asked for two rooms at a time.
AnsweredExit == \A c \in Conn : Freed(c) /\ ~Waiting(c) => Cleared(c)

\* "User exit. Leave from channels.  Close socket.": the same of every client
\* none of whose requests is still queued or running.
Quiet(c) ==
  /\ \A k \in 1 .. Len(tasks) : tasks[k].conn # c
  /\ \A w \in Worker : pc[w] # "idle" => job[w].conn # c
UserExit == \A c \in Conn : Freed(c) /\ Quiet(c) => Cleared(c)

\* Every join is answered, also one that is refused, unless the client leaves.
JoinsAnswered ==
  \A c \in Conn : Waiting(c) ~> (~Waiting(c) \/ client[c] = "gone")

\* Whoever had been told it is in the room when the loop of notification began,
\* and is still served, gets a text from it exactly once, its sender included,
\* whoever joins and leaves while the loop runs.
TextReachesMembers ==
  \A w \in Worker : pc[w] = "send" /\ job[w].op = "text" /\ todo[w] = {} =>
    \A c \in audience[w] : Serving(c) => Times(Message(job[w]), outbox[c]) = 1

\* A connection whose client left is closed, and cleared if its joins had been
\* answered one by one.
GoneIsFreed ==
  \A c \in Conn :
    client[c] = "gone" ~> (c \notin open /\ (Waiting(c) \/ c \in hasty \/ Cleared(c)))

================================================================================
