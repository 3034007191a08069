# A verification development of AppChat

TLA+ models of the AppChat server and client, TLC configurations that check
them on small instances, and theorems about them proved with TLAPS. Paths
below are relative to the repository (`src/server/...` is the server's code).

## 1. The system

AppChat is a chat over TCP. One process, `Server`, accepts connections; users
register or sign in, join numbered rooms and send texts to them. A Qt client
connects, lists the rooms it is in, and shows their texts. Logins and texts are
kept in a SQLite file.

| Component | State | Operations | Talks to |
|---|---|---|---|
| `Server` (`server/server.h`) | `io_service`, run by one thread; `thread_pool(4)` | accept, run, SIGINT | makes a `Connection` per socket |
| `Connection`, requests (`server/connection/connection.cpp`) | socket, `client_id`, `login`, `password`, `room_id`, `busy`, read buffers | header read, body read, `process_msg`, four handlers, three answers, `free_connection` | posts handlers to the pool; calls `ChannelsManager` and `Database`; writes answers to the socket |
| `Connection`, sending | `send_msgs_queue` | `send_msg_to_client`, write completions | called by `Channel` from any pool thread or the network thread |
| `ConnectionManager` | `pool_connections` | `get_connection`, `close_all` | keeps every connection alive to the end |
| `ChannelsManager` (singleton) | `channels`, `client_in_rooms`, `clientid_to_login` | `join`, `send_to_channel`, `leave_from_all_channels` | owns the `Channel`s |
| `Channel` | `subscribers` by client id, `history_room` | `join`, `leave`, `notification` | hands messages to connections |
| `Database` | the tables `history` and `logins` | `save_text_msg`, `get_history`, `add_logins`, `get_loginid`, `check_client` | outlives the server |
| `Client` (`client/client`) | socket, `channels_history`, `current_room`, send queue | answers' handlers, requests | io thread; signals to the GUI thread |
| `Control` and windows | `client`, visible windows, listed rooms, shown texts | sign in, add and open channels, show texts | GUI thread; one thread per sign-in |
| `Protocol`, `DateTime` | none | build and serialise messages | |

What makes it hard:

* **Threads.** `process_msg` runs on the network thread and posts handlers to
  four pool threads, so two requests of one connection run at the same time and
  out of order. `ChannelsManager` and the histories have no lock; `Channel`
  locks only its changes of `subscribers`, and walks them without it.
* **Tear-down.** `free_connection` runs on the network thread, when a read or
  a write fails, beside the requests of the same connection still in the pool:
  it takes a client out of its rooms while a join puts it into one, and resets
  the members a running registration makes its row from. It may run several
  times.
* **Reading.** Every completion must start the next read. A connection has one
  buffer for bodies, resized and never cleared, and the completion of a body
  read ignores its error, so that whatever the buffer holds is parsed.
* **Identity.** Channels know a subscriber by `client_id`, a member that is not
  initialised, is set by sign-in, and becomes -1 in `free_connection`.
* **Queries.** Logins, passwords and texts are pasted into SQL statements: one
  with an apostrophe may make a statement that does not compile, or another one.
* **Persistence.** Texts are sent round before they are saved. The counter that
  gives out ids starts at 0 with every run of the server while the logins stay.
* **Partial failure.** Failed inserts, body reads and writes are mostly logged
  and otherwise ignored. The first text that cannot be saved closes the
  database for the rest of the run.

`PROJECT.json` lists these one by one under `hazards`, each at its line with
the properties that address it.

## 2. The modules

| Module | What it is |
|---|---|
| `ChatRooms` | connections, pool threads, `ChannelsManager`, `Channel`, the history table: the core |
| `ChatRoomsProofs` | lemmas and the type-correctness theorem of `ChatRooms` |
| `ChatRoomsInRoom` | the inductive invariant of membership and the theorem that rests on it |
| `ChatRoomsHistory` | the histories, and who hears a text how often: invariants and three theorems |
| `ChatRoomsExit` | what `free_connection` leaves behind: invariant and theorem |
| `SendQueue` | the sending half of a connection |
| `SendQueueProofs` | what can be left in the queue, whichever threads send |
| `Reading`, `Inbox` | the reading half of a connection, and the abstract inbox it is to the handlers |
| `ReadingProofs` | types, a server that goes on listening, `Reading` implements `Inbox` |
| `Accounts` | registration, authorisation, the id counter, the logins table, tear-downs, a database that closes, restarts |
| `AccountsProofs` | the inductive invariant of `Accounts` and its six properties |
| `ChatClient` | the client program: io thread, event queue, windows |
| `ChatClientProofs` | the inductive invariant of `ChatClient` and its five properties |
| `MCChatRooms`, `MCSendQueue`, `MCReading`, `MCAccounts`, `MCChatClient` | instances for TLC |

The modules share `Connection` and look at different halves of it: `Reading`
ends where a request is in the pool's queue, `ChatRooms` and `Accounts` begin
there, and `ChatRooms` ends where a message is handed to a connection, which is
where `SendQueue` begins. `Inbox` is the abstract specification of the reading
half: what the handlers may expect of it.

### ChatRooms

Every variable named like a member of the code is that member. `client`, `told`,
`asked`, `texts`, `answered` describe the program at the other end; `outbox[c]`
is everything ever handed to `send_msg_to_client` of `c` (what becomes of it is
`SendQueue`'s subject); `tasks` is the pool's queue; `pc[w]` and `job[w]` are the
line and the task of a pool thread, `it[w]` its iterator into `client_in_rooms`,
`history[w]` the messages it has loaded or still has to replay; `todo[t]` are the
subscribers a thread in `notification` has not visited yet; `entries` are the
ids with an entry in `client_in_rooms`; `iopc`, `freeing`, `free_id`, `rest` and
`leaving` are the network thread inside `free_connection`; `db_ptr` is whether
the database is open. Three variables only record: `hasty` the clients that asked
for a room before their last answer came, `early` the texts for a room their user
had not been told it is in, `audience[w]` who had been told it is in the room
when a loop began.

A pool task is a sequence of steps, each one operation on a shared container or
one round of a loop over one:

| Steps of a task | Code |
|---|---|
| `DoAutorisation` | `do_autorisation`: `check_client`, set `client_id`, post the answer |
| `Enter` - `EmplaceEntry` - `Push` | `client_in_rooms`, `channels_manager.cpp:12-22`: find; emplace, after which the room is not recorded if the entry appeared meanwhile; push_back through the iterator, which a tear-down may have erased |
| `Find` - `Load` - `Create` | `channels`, `channels_manager.cpp:26-40`: find; the constructor of `Channel` with `get_history`; emplace, with the "Non create" refusal |
| `Replay` - `Resend` - `Subscribe` | `Channel::join`: the loop over the history, one message a step, then `try_emplace` |
| `Notify` - `NotifyNext` - `LogMessage` | `notification`: the loop begins, one subscriber a step, the message appended |
| `Record` - `ReplyJoin` | the end of `ChannelsManager::join`, and `do_join_room` posting the answer |
| `Find` (- `Notify` - `NotifyNext` - `LogMessage`) - `Save` | `do_text_msg`, for any room, with a channel or without |
| `SendAnswer` | `send_auto_response`, `send_join_room_response`, and the client's handler of the answer |

On the network thread, `HeaderReadFails`, `AnswerWriteFails` and
`QueueWriteFails` are the three ways into `free_connection` (`FreeConnection`: the
id is read once and its entry looked up). For each room of the entry come
`LeaveRoom`, `NotifyLeave`, `NotifyLeaveNext`, `LogLeave` and `Erase`; then
`EraseEntry`, of the entry that was found and of no later one, `Forget` and
`Close`.

Abstractions:

* One operation on one container is atomic. The code has data races where this
  is not so; a property that fails here fails even in a build where they come
  out well. What an insertion that rehashes does to a loop of another thread, or
  to an iterator, is left out: entries keep their place, a new one is before or
  behind it (`MeetNew`), and an erased one stays readable.
* A request is sent, read and posted in one step; how it gets there, and what
  may get there when it does not arrive whole, is in `Reading`.
* Registration ends in the same state as signing in, so `AccountOf` stands for
  the outcome of either, and on a closed database a sign-in may also be refused;
  how it comes about is in `Accounts`.
* A room that a client joined twice is once in `client_in_rooms`: the code's
  loop visits it again and finds nothing to leave. The rooms are left in any
  order. What a join pushes into the deque while `free_connection` iterates over
  it is not visited (in C++ it is undefined).
* "joined" and "leave" announcements are one message per room.
* `Quoted` are the texts with an apostrophe, in them or in their login: their
  insert fails and may close the database, or stores something else. What else
  such an insert may do to the table is left out.
* `check_client`'s "last row" and the texts' contents are data no property needs.

### SendQueue

A message is handed over in the steps `CheckEmpty`, `Push` and (if the queue was
empty) `Start`; `WriteDone`, `NextMessage` and again `Start` are a completion,
and `WriteFails` and `CloseSocket` the one with an error. `Sender` is any set of
threads. `writes` holds the asynchronous writes under way: nothing in the code
keeps it to one. A message `relies` when its sender found the queue in use and
left the writing to the chain of another. A run ends (`undefined`) with the first
`front()` or `pop()` of an empty queue. The client's `msg_to_server`,
`add_msg_to_send` and `start_send_msgs` are the same code, pushed by the GUI
thread and popped by the io thread.

### Reading and Inbox

`wire[c]` is what the server can still read of a client's requests, each in two
pieces, header and body; `reads[c]` are the reads under way, which nothing in
the code keeps to one; `buffer_msg[c]` is the request whose body the buffer last
took in whole.

| Action | Code |
|---|---|
| `Connect` | `scan_acception`, `connection.cpp:43`: the first header read |
| `Send`, `Leave` | the client's `serialize_request`; it leaves, and what still arrives ends anywhere |
| `HeaderDone`, `HeaderFails` | `do_parse_pb_header`: the buffer resized and the body read started, or `free_connection` |
| `BodyDone`, `BodyFails` | the completion of the body read, which calls `process_msg` in both cases |
| `WriteFails` | the writes whose failure frees the connection |
| `Take`, `Handle` | a pool thread, and what a handler does that finds no request of its kind |

`Leftover` is what may be parsed when a body did not arrive whole: the body read
before it, if it fits; the awaited one, if the bytes that are missing happen to
be those left over; a damaged one; or nothing. The handler of the announced kind
then runs. One that finds no request logs it, and a sign-in also frees the
connection (`Free`), from a pool thread. That `free_connection` is one step here
and a handler does nothing else: the rest is in `ChatRooms` and `Accounts`.

`Inbox` is what the handlers may expect: requests in order, each once, whole,
none skipped, as long as the client stays; after it left, at most one more that
is not as it was sent. `ImplementsInbox` is its specification with `left` mapped
to the clients that are gone and `over` to the connections with a failed body
read. A header that does not parse, or that announces an unknown command, is left
out: no client of the repository sends one.

### Accounts

A registration is a sequence of steps between which other threads may come:

| Steps | Code |
|---|---|
| `DoRegistration` | login and password into members of the connection |
| `LookUp` | `client_id` set to `get_loginid`'s answer |
| `Refuse`, or `CountFrom` - `Count` | `client_id` read again; the two halves of `++id` |
| `CopyLogin` - `Add` | the members copied one after the other, and `add_logins` |
| `Answer` | the answer, whose id was taken when it was posted |

A sign-in is one step with its `check_client`: a tear-down in between changes
only an answer nobody is there to get. `FreeConnection`, `ResetLogin` and
`ResetPassword` are the network thread freeing the connection of a client that
left (`Leave`), whose rooms and socket are `ChatRooms`' subject. A row made from
members that were reset may hold "unused" or the id -1 (`Torn`), and a row with
-1 reads as no row.

A statement on the table is atomic. The strings of a request are pasted into it.
`Breaking` is the set of logins and passwords with which a statement does not
compile: `get_loginid` and `check_client` then find nothing and `add_logins`
inserts nothing, be it for the login or for the password. `Splicing` is the set of
logins that make another query of the select, whose answer may be that of any row
or of none (`Forged`). A registration with such a login is left out: what it makes
of the insert may be any statement. `SendText` and `DoText` are
a text with an apostrophe, whose failed save closes the database: from then on
nothing is found and nothing stored. Two places are then undefined behaviour, a
log line that prints a null pointer and the message of a failed insert freed
twice; either the server goes on, or it dies, which is a `Restart`. That keeps the
table, opens the database and loses the rest. `before` records the table as it
was when a client asked, so that properties can compare an answer with it.

### ChatClient

`Attempt` is the set of presses of a sign-in button: each makes a `Client` and a
thread in `Control::connect_to_server`, and nothing stops a second press before
the first is answered. That thread gives its Client to `Control`
(`MakeClient`), to the channels window (`SetChannelsClient`) and to the chat window
(`Connect`) in three steps, `control.cpp:55-59`, with the GUI thread at work in between on
whichever Client each of the three has. Handlers of a `Client` first store
(`JoinAccepted`, `TextRead`) and then signal (`Emit`); the GUI thread takes signals
from its queue (`ChangeWindow`, `UpdateChannels`, `PrintText`) and reads
`channels_history` directly (`UploadHistory`). `OpenChannel` sets the current room
of the channels window's Client and of Control's; `SendText` is a text typed into
the chat window, for the current room of that window's Client, sent over
Control's. `EndSession` closes whatever `Control::client` is by then.

Connecting and sending the first request are one step; a click on a client whose
connection is over loses the request (in C++ it uses a destroyed `io_service`).
Left out is a second sign-in between `control.cpp:55` and `:63` while a first one is
there: it replaces, and so destroys, the Client that the first is about to connect.

Met while reading, and in no module: `MainWindow::handler_input_code` has a case
for `RegistrOK`, "You successfully registered.", that `Control::change_window`
never reaches; `do_read_reg_response` takes the client id from the wrong part of
the answer (`input_response` instead of `reg_response`), so it is always 0.

## 3. What the runs check

| Run | Instance | Properties |
|---|---|---|
| `membership` | 2 users, 2 rooms, 2 threads; one user joins twice and may leave, the other joins once | `InRoom`, `CleanExit` |
| `traffic` | 2 users, 1 room with a saved text, 2 threads; each joins and sends a text, one of them quoted | `TypeOK`, `AtMostOnce`, `TextReachesMembers`, `HistoryAgrees` |
| `progress` | 2 users, 1 room, 2 threads, fair; one join each, one user may leave and its writes may fail | `JoinsAnswered`, `GoneIsFreed` |
| `two_joins` | one user joins two rooms and may leave | `AnsweredExit` is violated |
| `user_exit` | one user joins a room and may leave | `UserExit` is violated |
| `same_account` | both connections of one user, one join each, nobody leaves | `InRoom` is violated |
| `senders_race` | the network thread and a pool thread send 3 messages each | `OnlyReliersLeft` |
| `shared_queue` | the same with 2 messages each, fair | `AllSent` is violated |
| `reading` | sessions of 4 and 1 requests, either client may leave, 1 pool thread, fair | `TypeOK`, `Listening`, `ImplementsInbox`, `AllPosted`, `GoneIsClosed` |
| `sign_in` | 3 requests; a plain login, a breaking and a splicing one; 3 passwords of which one breaks; 2 threads, one client may leave, one may close the database, 1 restart | `TypeOK`, `SignedIn`, `GrantedIsStored`, `NotGivenAway`, `NotTurnedAway`, `StoredAsAsked` |
| `duplicate_login` | as `sign_in`, nobody leaves and no text closes the database | `OneRowPerLogin` is violated |
| `screen` | 2 sign-ins, 2 rooms, 3 things received, 1 text sent | `TypeOK`, `ScreenAgrees`, `ListAgrees`, `SentWhereAsked`, `AtMostTwice` |

What holds:

* `InRoom`. A join changes `client_in_rooms`, `channels`, `subscribers` and
  `room_id` in steps that others interleave with, and may lose the race to make
  the entry or to create the channel. Still, whoever was told OK is in the room,
  as long as no two connections have one id. That its exit will find the room is
  another matter: that is the next one.
* `CleanExit`. After a client leaves with its joins answered, nothing of it
  stays, whichever of its read and writes failed and however often
  `free_connection` ran, if it asked for its rooms one after the other. A client
  that did not wait (`hasty`) may have lost the race of two of its own joins for its
  entry in `client_in_rooms` (`two_joins`). A client whose login was refused has no
  account, only the id -1, which every connection that was freed has too: of such a
  client `Cleared` speaks of its subscriptions alone, as the tables have none of
  its own.
* `TextReachesMembers`. The loop of `notification` has no lock, and joins and leaves
  come between its rounds. Whoever had been told it is in the room when the loop
  began, and is still served when it ends, was handed the text exactly once, the
  sender included.
* `AtMostOnce`. Nobody who asked for a room once gets a text both live and from a
  history; this rests on `Channel::join` replaying before it subscribes and on
  `notification` appending after it sends. The price is in the same order: a
  text sent between the two reaches a new member in neither way, before it is
  told it joined.
* `HistoryAgrees`. While the database is open a channel's history and the table
  differ only by texts that are about to be saved, by texts with an apostrophe, and,
  in the history, by texts sent before their user had been told it is in the room.
  The last do get lost to the history: such a text finds no channel and is saved
  after the creator of the channel has read the table.
* `JoinsAnswered`, `GoneIsFreed`. Every join is answered, the refused one of two
  that create one channel included, and every connection whose client closed its
  end is closed, and cleared under the conditions of `CleanExit`.
* `OnlyReliersLeft`. With several threads on the queue a message may be left in it
  (`shared_queue`). It is always one whose sender relied on somebody else's chain: the
  one that found the queue empty has its write under way or about to be.
* `Listening`, `AllPosted`, `GoneIsClosed`. The server has one read under way for
  a client that is there, for exactly what it sends next, and posts all it sends;
  a client that left in the middle of a request has its socket closed in the end
  and no read left.
* `ImplementsInbox`. What the ignored error of the body read and the buffer that
  is not cleared do to the handlers is bounded: a client that leaves may have one
  request handled that it did not send so, damaged, or its previous body under the
  new header's command, and nothing after it.
* `SignedIn`. Whoever is let in has a row with its login, password and id, except
  one whose login makes another query of its own select; nobody else is touched by
  such a login.
* `NotGivenAway`, `NotTurnedAway`. A login in the table when somebody asks is not
  given away, across restarts too, and whoever had a row is let in even when there
  are several rows of that login; while the database is open, and except for a login
  whose row is torn.
* `GrantedIsStored`. Who was granted a registration has its row, unless its login or
  its password breaks the insert or the database was closed: then it is granted
  all the same and nothing is stored.
* `StoredAsAsked`. A row is what one client asked for; only the row of a client
  that left while it was registered may hold what `free_connection` wrote over
  its members. No tear-down damages the row of another.
* `ScreenAgrees`, `ListAgrees`, `AtMostTwice`. What the windows show is the
  stored history up to signals still in the queue. A text may be shown a second
  time: when its signal is in the queue while its room is opened.
* `SentWhereAsked`. A text goes to a room its user asked for over the same
  `Client`. The exception is a sign-in pressed twice: while the windows and
  `Control` have different Clients, it may go to a room asked for over the other, or
  to room 0.

What does not hold, each a finding in `PROJECT.json` with the words it
contradicts:

* `two_joins`: of two first joins of one connection on two threads one may never be
  put on the list for its exit, and stays subscribed after it.
* `user_exit`: a join that runs beside or after its connection's tear-down
  subscribes the closed connection, and nothing of its own removes it again.
* `same_account`: the second connection of an account is told it joined and is
  not subscribed.
* `shared_queue`: a message stays in the queue with nobody to write it.
* `duplicate_login`: one login registered twice.

One more way to break `InRoom`, which has no run of its own: with `Garbage = {1}`
TLC finds a connection that never signed in taking the user with the id 1 out of
its room, when it is freed under the id its uninitialised member holds.

### Bounds

Two connections are a joiner and a sender, two joiners of a channel that does
not exist yet, or a leaver and a member: every property of `ChatRooms` speaks of
one connection and what another does to it. Two threads make every pair of tasks
run side by side, and a third actor, the network thread, is always there.
`MaxJoins` and `MaxTexts` bound what each connection sends, `MayLeave` and `MayFail`
say which client may close of itself and on which connection a failed write may
be reported. In `membership` one connection asks for two rooms, one after the other or
at once, and leaves, while the other joins: 3.9 million states. In `traffic` the
channel does not exist at first and is created from a table with one text, so that
replay has something to do, while texts for it are under way; one has an
apostrophe and the other not. Nobody leaves there unless refused. With one plain text, and one of
the users leaving in the middle of the loop with failing writes, all of `TypeOK`,
`CleanExit`, `AtMostOnce`, `TextReachesMembers` and `HistoryAgrees` were checked too
and hold, 2.3 million states; and `CleanExit` with failing writes, one room and both
users leaving, 1.2 million. `progress` has the failing writes among the regular runs:
the read and up to two writes of a connection fail in turn.
`CHECK_DEADLOCK FALSE` is in every configuration because clients that have sent all
they may, and users who do nothing, are legitimate ends.

`senders_race` and `shared_queue` have the two threads that push at the same time, on
a queue that empties and refills, and as many messages as it takes to lose one.
`reading`'s longer session has a body after a longer, after a shorter and after
an equally long one, which are the cases of `Leftover`; the shorter one is a
sign-in, whose handler is the one that frees. `sign_in`'s three requests are a
registration whose client may leave, one that competes with it, or has a breaking
login or password, and whose user may close the database, and a sign-in to the
login of both, or with a splicing one, before, between or after them. In `screen`
the server sends three things over one of the two clients: a join and two texts are
what order and repetition need, and one text sent over that client is as good as any
number: `SentWhereAsked` speaks of each alone. It has 4.2 million states.

Symmetry is used over threads (`ChatRooms`, `Accounts`), passwords (`Accounts`) and
rooms (`ChatRooms` with two, `ChatClient`), model values no property tells apart,
never in a run with a liveness property.

### Fairness

Pool threads run as long as they have work, so `Take` and `Run` are weakly fair
for each thread, and so are the network thread's steps in `free_connection`. A
header read that has failed is a completion handler `io_service` queues behind
those already there; other handlers may run before it, so it is strongly fair
per connection. It fails because the client closed its end or the server the
socket. Of a host that vanishes nothing is claimed: the code has no keepalive and no
timeout, and such a read may never complete. Clients are not fair: nothing
obliges a user to do anything. In `SendQueue` threads inside a method go on, and an
asynchronous write completes in the end, with success or an error. In `Reading` a
read completes in the end, once its bytes have come or can no longer come (`WF` of
`Io(c)`); pool threads, clients and failing writes need not move.

## 4. What is proved

For all values of the constants that satisfy the modules' assumptions:

* `TypeCorrect` (`ChatRoomsProofs`): `Spec => []TypeOK`. Inductive by itself;
  one lemma per action, frame lemmas for what an action leaves alone.
* `MembersInRoom` (`ChatRoomsInRoom`), `TextReachesAll` (`ChatRoomsHistory`) and
  `ExitsClean` (`ChatRoomsExit`): `Spec => []InRoom`, `Spec => []TextReachesMembers`
  and `Spec => []CleanExit`, assuming `OneConnectionEach`: no two connections sign in
  to one account, and no account has the number that an uninitialised `client_id`
  holds. The server guarantees neither. What the assumption excludes is a second
  connection of an account; an id given twice, after a restart or by two registrations at
  once, which is one account to the channels; and a stranger freed under a user's id.
  `same_account` shows what happens then.
* `HistoriesAgree` and `TextsHeardOnce` (`ChatRoomsHistory`):
  `Spec => []HistoryAgrees` and `Spec => []AtMostOnce`, without it: connections
  may share accounts, and both hold all the same.
* `ServerListens`, `ConnectionIsInbox` and the `TypeCorrect` of `ReadingProofs`:
  `Spec => []Listening`, `Spec => ImplementsInbox` and `Spec => []TypeOK`, for any
  sessions, with no further assumption.
* `SignInHasRow`, `GrantHasRow`, `NoLoginGivenAway`, `NobodyTurnedAway`,
  `RowsAsAsked` and the `TypeCorrect` of `AccountsProofs`: all six properties of
  `sign_in`, for any number of connections, threads and restarts, whoever leaves
  and whoever closes the database.
* `ScreenShows`, `ListUpToDate`, `TextsShownTwice`, `TextsSentWhereAsked` and the
  `TypeCorrect` of `ChatClientProofs`: all five properties of `screen`, for any
  number of sign-ins, rooms and texts, with no further assumption.
* `ReliersLeft` (`SendQueueProofs`): `Spec => []OnlyReliersLeft`, for any set of
  threads that send, with or without the network thread.

With these, every invariant and every safety property of the passing runs is a
theorem. The modules' assumptions are facts about the constants: that the model
values for "none" are none of the others (`NoneAssumption`, `ClientAssumption`,
`EventAssumption`), that accounts' ids are positive and the bounds are numbers, and, in
`SavedAssumption`, that a row `get_history` finds for a room is of that room
(`database.cpp:108` selects by `room_id`) and that two rows are two rows.

`InRoom` is not inductive: it says nothing of a join under way, whose thread
relies on what it did several steps before while others create channels, leave
rooms and free connections. The invariant `Inv` adds:

* `OffInv`, `SigningOnce`, `SigningInv`, `OwnInv`: a connection nobody uses yet has no
  trace anywhere, one signs in once and before it asks for anything, and an open one
  that was let in has the id `AccountOf` gives it;
* `IdInv`, `FreeIdInv`, `KeyInv`, `StrayInv`: ids do not stray. A connection, and
  the tear-down of one, has its own account's id, -1 or the uninitialised value,
  and an entry of `subscribers` under an account's id is that account's one
  connection, so that no other connection's exit erases it;
* `JoinInv`: what each line of a join may rely on: its room is in `channels` from
  `replay` on, and its connection subscribed from `notify` on. It relies on nothing in
  `client_in_rooms`;
* `RoomIdInv`, `ReplyInv`: the room an answer names, which is `room_id` and not
  the room asked for, is one the connection is in; a refused answer excepted;
* `ToldInv`: `InRoom` itself, for every room that was told.

The proof first establishes (`Writers`) which actions can change which part, and
then has one lemma per conjunct, so that each considers only the actions that
disturb it. `RoomIdInv` and `ReplyInv` are why two joins at the same time do not
break `InRoom`: the answer to one may name the room of the other, and still names
one the client is in.

For the histories (`HistoryInv`) the work under way is looked at as a set of places,
the queue's and the threads' (`Works`), each with its task and the line it is at.
`UniqueInv` says that no text, and no join of a room asked for once, is in two
places. `WorkInv` says what has not happened yet while it is at a line: a text not
yet sent round is in no outbox, one not yet logged is in no history, and one about
to be saved is in its history or early; a join that has still to replay has let its
client hear nothing of the room, and one that has still to subscribe has no
subscription and heard only what is in the history. `UnaskedInv` and `OneKeyInv` are
why the replay is the only other way in, and `VisitInv` says that the subscribers a
loop has still to visit did not hear its text. Then each of `Resend`, `NotifyNext`,
`LogMessage`, `Save` and `Create` adds a text where it was not (`HeardInv`, `KeptInv`).
Between `Load` and `Create` the table may grow: `HeldInv` says that what a join has
loaded lacks only early texts of the table as long as there is no channel, because
`KnownInv` says that a room a client was told of has its channel, so that a text for
a room without one is early. `LoggedInv` is what that comes to.

For `TextReachesAll`, `AudienceInv` says that the audience of a loop had been told it
is in the room, so that `Inv` has it subscribed under its own id, and `ReachInv` that
each of it is still to be visited or has the text, and not both.

For the exit (`ExitInv`), a join that was not answered is somewhere: `CountInv`
compares the number of places where a client's joins are with what it asked for, so
that no join is left of a client that has all its answers, and `HastyInv` leaves a
client that waits for its answers one join at a time. With it `EnterInv` can follow
that join through `client_in_rooms`: nobody makes the entry between its find and
its emplace, nobody erases the one it found before its push, and its room is on
the list from then on. `OpenInv` says that what is subscribed in the name of an open
connection is listed for its exit, `GoneInv`, `AskedInv` and `NothingInv` that only who
is gone is freed and who asked for nothing is nowhere, and `LeftInv` what the network
thread still has to do at each of its lines: a subscription that is left is to a room
it has still to leave. The second tear-down of a connection finds the id -1 and
changes nothing of the user's.

For `Reading`, `Stream(c)` says that what is on the wire of a connection continues
where `handed[c]` ends: from a header (`AtHeader`) or from a body (`AtBody`), with
the read under way for that piece, and with all that was sent still on the wire
while the client is there. After a failed body read (`Over`) the next header read
can only fail. `TaskInv` says that a task of a client that stays holds the request
its header announced, so that `Handle` never frees a connection that is in use.
With it `Send`, `Leave`, `BodyDone` and `BodyFails` are the inbox's `Send`,
`Leave`, `Whole` and `Cut`, and every other step leaves the inbox alone.

For `Accounts`, `OneHandler` says that at most one task or thread is concerned
with signing in on a connection, which gives the thread its members to itself,
the network thread apart. `Honest` is what an answer of some id has to have behind
it in the table, `Proper` what a waiting task may rely on, and `Underway` what each
line of a registration may: that its members are the request's or, once the
client is gone, "unused", and that the login was free when it was looked up.
A login or password in `Breaking`, a splicing login and a closed database are where
`Proper` and `Underway` promise less, as the properties do. `FreeInv` keeps the network
thread away from a client that is there, and `TableInv`
says that rows are never lost. Most steps concern one connection and let the
table grow; `Calm` and `Grows` say so, and the `Calm...` lemmas that all the rest is
kept, so that the lemma of an action is about its own connection only.

For the client, `StoredInv` says that a history has its own Client's texts in the
order they were read, and `SignalInv` that a text is stored before it is signalled
and that the signals of a Client's texts come in that order, the one about to be
emitted last. So a text's signal is in the queue once, and when `print_text`
takes it there is none before it that the screen lacks: `ScreenInv` says that
the screen has the first texts of the room's history and the others are signalled,
and the text taken is one of the first or the very next. `ShownInv` is why
it may come twice and not more often: after `upload_history` a text is there once, and
is shown again only by its signal, which is past then. `FreshInv`, `PointersInv` and
`StartInv` follow the three pointers: nothing is known of a `Client` before the chat
window has it, and the Client each pointer has was got that far by its thread.
`RoomsInv` says that every room in a window or in a history was asked for over some
Client, or is room 0 when two are published.

For the queue, `ServedInv` says that as long as a message waits whose sender found the
queue empty, a write is under way or some thread is about to start one: the sender
itself, or a completion that has popped. A write that ends pops one message and
looks for the next, so it is not lost with more than one write about either.

## 5. Only checked, not proved

* Liveness (`JoinsAnswered`, `GoneIsFreed`, `AllPosted`,
  `GoneIsClosed`): out of this prover's reach, as is anything with `ENABLED`.
* The violated properties, of course.

## 6. Not modelled, and the plan

Not modelled:

* generated protobuf code, logging, the look of the windows, build files and
  scripts;
* the superseded handlers `do_read_pb_*_req`, `Channel`'s `leave(subscriber)` and
  `ChannelsManager::leave(client, room)`, which nothing in a running server calls;
* shutdown: `signal_handler` stops `io_service` and destroys the connections
  under tasks that hold plain pointers to them. What they do is undefined, nothing
  in the repository says what is to hold, and all that outlives it is the
  database, for which a shutdown is a `Restart`;
* the bytes of two answers that mix on the socket: how many the socket takes at a
  time is not in the repository, and every outcome is an answer that does not
  parse;
* registrations and texts whose strings make other statements of an insert: they
  may do anything to the tables, and nothing in the repository says what is to hold;
* what a data race inside one container does to memory: an insertion that rehashes a
  map under a loop or an iterator of another thread is undefined;
* two sign-ins that are in `control.cpp:55-63` at once, and clicks on a Client whose
  `io_service` is gone: both use destroyed objects;
* headers that do not parse and unknown commands on the server, malformed answers,
  or answers of a kind not waited for, on the client: neither program sends them;
* `DateTime`, whose conversions are pure; text messages carry a fixed date.

The plan from here, in order:

1. what membership still guarantees when two connections share an account, stated
   and proved without `OneConnectionEach`;
2. `DateTime` as functions checked against a reference.
