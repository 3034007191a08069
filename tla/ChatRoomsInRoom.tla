---------------------------- MODULE ChatRoomsInRoom ----------------------------
(* The proof that every client that was told it joined a room is in it, when     *)
(* each user has one connection.                                                  *)
EXTENDS ChatRoomsProofs

\* Each user has one connection, and no uninitialised id is a user's.  The server
\* guarantees neither: the run same_account shows what happens without the first.
\* Nor does it that two users have two ids: AccountOf maps them to one when the
\* login id counter hands out an id again.
OneConnectionEach ==
  /\ \A c, d \in Conn : AccountOf[c] = AccountOf[d] /\ AccountOf[c] # -1 => c = d
  /\ Garbage \cap Account = {}

\* The tasks queued and the tasks being run.
Pending == {tasks[k] : k \in 1 .. Len(tasks)}
           \cup {job[w] : w \in {v \in Worker : pc[v] # "idle"}}

InRoomAt(c, r) == r \in channels /\ subscribers[r][AccountOf[c]] = c

\* Nothing is known of a connection before it is accepted or has signed in.
OffInv ==
  \A c \in Conn :
    /\ client[c] = "off" => c \notin open
    /\ client[c] \in {"off", "new"} =>
         /\ told[c] = {} /\ room_id[c] = NoRoom
         /\ \A t \in Pending : t.conn # c

\* A connection signs in once ...
SigningOnce ==
  /\ \A j, k \in 1 .. Len(tasks) :
       tasks[j].op = "auth" /\ tasks[k].op = "auth" /\ tasks[j].conn = tasks[k].conn
         => j = k
  /\ \A k \in 1 .. Len(tasks), w \in Worker :
       tasks[k].op = "auth" /\ pc[w] = "auth" => tasks[k].conn # job[w].conn
  /\ \A v, w \in Worker :
       pc[v] = "auth" /\ pc[w] = "auth" /\ job[v].conn = job[w].conn => v = w

\* While its socket is open, a connection that was let in has its user's id.
LetIn(c) ==
  \/ client[c] = "in" \/ told[c] # {} \/ room_id[c] # NoRoom
  \/ \E t \in Pending : /\ t.conn = c
                        /\ \/ t.op \in {"join", "joinReply", "text"}
                           \/ t.op = "authReply" /\ t.ok

\* ... and before it is let in.
SigningInv ==
  \A t \in Pending : t.op = "auth" => ~LetIn(t.conn)

OwnId(c) == AccountOf[c] \in Account /\ client_id[c] = AccountOf[c]
OwnInv == \A c \in open : LetIn(c) => OwnId(c)

\* Ids never stray from one user to another: neither a connection's, nor the one
\* free_connection works with, nor the key of a subscription.
IdOf(c) == {AccountOf[c], -1} \cup Garbage
IdInv == \A c \in Conn : client_id[c] \in IdOf(c)
FreeIdInv == iopc # "idle" => free_id \in IdOf(freeing)
KeyInv == \A r \in Room, i \in Account, d \in Conn :
            subscribers[r][i] = d => i = AccountOf[d]

\* What a join has done by each of its lines.
JoinAt(w, c, r) ==
  /\ pc[w] \in {"replay", "resend", "subscribe"} => r \in channels
  /\ pc[w] \in {"notify", "send", "record"} => InRoomAt(c, r)
  /\ pc[w] = "reply" /\ job[w].ok => room_id[c] # NoRoom
JoinInv ==
  \A w \in Worker :
    pc[w] # "idle" /\ job[w].op = "join" /\ Serving(job[w].conn)
      => JoinAt(w, job[w].conn, job[w].room)

\* room_id, the answers under way and the rooms told are rooms the client is in.
RoomIdInv == \A c \in Conn : Serving(c) /\ room_id[c] # NoRoom => InRoomAt(c, room_id[c])
ReplyInv ==
  \A t \in Pending : t.op = "joinReply" /\ t.ok /\ Serving(t.conn)
    => InRoomAt(t.conn, t.room)
\* A connection in service is subscribed under its user's id only.
StrayInv ==
  \A c \in Conn : client[c] = "off" \/ Serving(c) =>
    \A r \in Room, i \in Id \ Account : subscribers[r][i] # c
ToldInv == \A c \in Conn : Serving(c) => \A r \in told[c] : InRoomAt(c, r)

Inv ==
  /\ TypeOK /\ OffInv /\ SigningOnce /\ SigningInv /\ OwnInv /\ IdInv /\ FreeIdInv /\ KeyInv
  /\ StrayInv /\ JoinInv /\ RoomIdInv /\ ReplyInv /\ ToldInv

--------------------------------------------------------------------------------
(* Which actions write which variables.                                          *)

Writers ==
  /\ \/ UNCHANGED client
     \/ \E c \in Conn : Accept(c) \/ ReadAuth(c) \/ ClientLeaves(c)
     \/ \E w \in Worker : SendAnswer(w)
  /\ \/ UNCHANGED told
     \/ \E w \in Worker : SendAnswer(w)
  /\ \/ UNCHANGED open
     \/ \E c \in Conn : Accept(c)
     \/ Close
  /\ \/ UNCHANGED client_id
     \/ \E w \in Worker : DoAutorisation(w)
     \/ Close
  /\ \/ UNCHANGED room_id
     \/ \E w \in Worker : Record(w)
     \/ Close
  /\ \/ UNCHANGED <<tasks, pc, job>>
     \/ \E c \in Conn : ReadAuth(c) \/ \E r \in Room : ReadJoin(c, r) \/ ReadText(c, r)
     \/ \E w \in Worker : Take(w) \/ Run(w)
  /\ \/ UNCHANGED <<iopc, freeing, free_id>>
     \/ \E c \in Conn : HeaderReadFails(c) \/ AnswerWriteFails(c) \/ QueueWriteFails(c)
     \/ Free
  /\ \/ UNCHANGED channels
     \/ \E w \in Worker : Create(w)
  /\ \/ UNCHANGED subscribers
     \/ \E w \in Worker : Subscribe(w)
     \/ Erase

DataWriters ==
  /\ \/ UNCHANGED asked
     \/ \E c \in Conn, r \in Room : ReadJoin(c, r)
  /\ \/ UNCHANGED texts
     \/ \E c \in Conn, r \in Room : ReadText(c, r)
  /\ \/ UNCHANGED answered
     \/ \E w \in Worker : SendAnswer(w)
  /\ \/ UNCHANGED hasty
     \/ \E c \in Conn, r \in Room : ReadJoin(c, r)
  /\ \/ UNCHANGED early
     \/ \E c \in Conn, r \in Room : ReadText(c, r)
  /\ \/ UNCHANGED reading
     \/ \E c \in Conn : Accept(c) \/ HeaderReadFails(c)
  /\ \/ UNCHANGED werr
     \/ \E c \in Conn : AnswerWriteFails(c)
     \/ \E w \in Worker : SendAnswer(w)
  /\ \/ UNCHANGED broken
     \/ \E c \in Conn : QueueWriteFails(c)
  /\ \/ UNCHANGED outbox
     \/ \E w \in Worker : Resend(w)
     \/ \E w \in Worker, i \in Id : NotifyNext(w, i)
     \/ \E i \in Id : NotifyLeaveNext(i)
  /\ \/ UNCHANGED it
     \/ \E w \in Worker : Enter(w) \/ EmplaceEntry(w) \/ Push(w)
     \/ EraseEntry
  /\ \/ UNCHANGED history
     \/ \E w \in Worker : Load(w) \/ Create(w) \/ Replay(w) \/ Resend(w)
  /\ \/ UNCHANGED todo
     \/ \E w \in Worker : Subscribe(w) \/ Notify(w)
     \/ \E w \in Worker, i \in Id : NotifyNext(w, i)
     \/ \E i \in Id : NotifyLeaveNext(i)
     \/ NotifyLeave \/ Erase
  /\ \/ UNCHANGED audience
     \/ \E w \in Worker : Notify(w) \/ LogMessage(w)
  /\ \/ UNCHANGED rest
     \/ \E c \in Conn : HeaderReadFails(c) \/ AnswerWriteFails(c) \/ QueueWriteFails(c)
     \/ \E r \in Room : LeaveRoom(r)
     \/ Erase
  /\ \/ UNCHANGED leaving
     \/ \E r \in Room : LeaveRoom(r)
     \/ Erase
  /\ \/ UNCHANGED entries
     \/ \E w \in Worker : EmplaceEntry(w)
     \/ EraseEntry
  /\ \/ UNCHANGED client_in_rooms
     \/ \E w \in Worker : Push(w)
     \/ EraseEntry
  /\ \/ UNCHANGED clientid_to_login
     \/ \E w \in Worker : Record(w)
     \/ Forget
  /\ \/ UNCHANGED history_room
     \/ \E w \in Worker : Create(w) \/ LogMessage(w)
     \/ LogLeave
  /\ \/ UNCHANGED db_ptr
     \/ \E w \in Worker : Save(w)
  /\ \/ UNCHANGED db
     \/ \E w \in Worker : Save(w)

LEMMA WritersNext == ASSUME [Next]_vars PROVE Writers /\ DataWriters
<1> USE DEF clientVars, connVars, sendVars, workerVars, freeVars, managerVars, channelVars,
            dbVars
<1>1. ASSUME NEW c \in Conn, Accept(c) PROVE Writers /\ DataWriters
  <2>1. UNCHANGED <<told, asked, texts, answered, hasty, early, werr, client_id, room_id,
                broken, outbox, it, history, todo, audience, rest, leaving, entries,
                client_in_rooms, clientid_to_login, channels, subscribers,
                history_room, db_ptr, db, tasks, pc, job, iopc, freeing, free_id>>
    BY <1>1 DEF Accept
  <2> QED BY <1>1, <2>1 DEF Writers, DataWriters
<1>2. ASSUME NEW c \in Conn, ReadAuth(c) PROVE Writers /\ DataWriters
  <2>1. UNCHANGED <<told, asked, texts, answered, hasty, early, open, reading, werr,
                client_id, room_id, broken, outbox, it, history, todo, audience, rest,
                leaving, entries, client_in_rooms, clientid_to_login, channels,
                subscribers, history_room, db_ptr, db, iopc, freeing, free_id>>
    BY <1>2 DEF ReadAuth, Post
  <2> QED BY <1>2, <2>1 DEF Writers, DataWriters
<1>3. ASSUME NEW c \in Conn, ClientLeaves(c) PROVE Writers /\ DataWriters
  <2>1. UNCHANGED <<told, asked, texts, answered, hasty, early, open, reading, werr,
                client_id, room_id, broken, outbox, it, history, todo, audience, rest,
                leaving, entries, client_in_rooms, clientid_to_login, channels,
                subscribers, history_room, db_ptr, db, tasks, pc, job, iopc, freeing,
                free_id>>
    BY <1>3 DEF ClientLeaves
  <2> QED BY <1>3, <2>1 DEF Writers, DataWriters
<1>4. ASSUME NEW c \in Conn, HeaderReadFails(c) PROVE Writers /\ DataWriters
  <2>1. UNCHANGED <<client, told, asked, texts, answered, hasty, early, open, werr,
                client_id, room_id, broken, outbox, it, history, todo, audience,
                leaving, entries, client_in_rooms, clientid_to_login, channels,
                subscribers, history_room, db_ptr, db, tasks, pc, job>>
    BY <1>4 DEF HeaderReadFails, FreeConnection
  <2> QED BY <1>4, <2>1 DEF Writers, DataWriters
<1>5. ASSUME NEW c \in Conn, AnswerWriteFails(c) PROVE Writers /\ DataWriters
  <2>1. UNCHANGED <<client, told, asked, texts, answered, hasty, early, open, reading,
                client_id, room_id, broken, outbox, it, history, todo, audience,
                leaving, entries, client_in_rooms, clientid_to_login, channels,
                subscribers, history_room, db_ptr, db, tasks, pc, job>>
    BY <1>5 DEF AnswerWriteFails, FreeConnection
  <2> QED BY <1>5, <2>1 DEF Writers, DataWriters
<1>6. ASSUME NEW c \in Conn, QueueWriteFails(c) PROVE Writers /\ DataWriters
  <2>1. UNCHANGED <<client, told, asked, texts, answered, hasty, early, open, reading,
                werr, client_id, room_id, outbox, it, history, todo, audience,
                leaving, entries, client_in_rooms, clientid_to_login, channels,
                subscribers, history_room, db_ptr, db, tasks, pc, job>>
    BY <1>6 DEF QueueWriteFails, FreeConnection
  <2> QED BY <1>6, <2>1 DEF Writers, DataWriters
<1>7. ASSUME NEW c \in Conn, NEW r \in Room, ReadJoin(c, r) PROVE Writers /\ DataWriters
  <2>1. UNCHANGED <<client, told, texts, answered, early, open, reading, werr, client_id,
                room_id, broken, outbox, it, history, todo, audience, rest, leaving,
                entries, client_in_rooms, clientid_to_login, channels, subscribers,
                history_room, db_ptr, db, iopc, freeing, free_id>>
    BY <1>7 DEF ReadJoin, Post
  <2> QED BY <1>7, <2>1 DEF Writers, DataWriters
<1>8. ASSUME NEW c \in Conn, NEW r \in Room, ReadText(c, r) PROVE Writers /\ DataWriters
  <2>1. UNCHANGED <<client, told, asked, answered, hasty, open, reading, werr, client_id,
                room_id, broken, outbox, it, history, todo, audience, rest, leaving,
                entries, client_in_rooms, clientid_to_login, channels, subscribers,
                history_room, db_ptr, db, iopc, freeing, free_id>>
    BY <1>8 DEF ReadText, Post
  <2> QED BY <1>8, <2>1 DEF Writers, DataWriters
<1>9. ASSUME NEW w \in Worker, Take(w) PROVE Writers /\ DataWriters
  <2>1. UNCHANGED <<client, told, asked, texts, answered, hasty, early, open, reading,
                werr, client_id, room_id, broken, outbox, it, history, todo, audience,
                rest, leaving, entries, client_in_rooms, clientid_to_login, channels,
                subscribers, history_room, db_ptr, db, iopc, freeing, free_id>>
    BY <1>9 DEF Take
  <2> QED BY <1>9, <2>1 DEF Writers, DataWriters, Run, Join
<1>10. ASSUME NEW w \in Worker, DoAutorisation(w) PROVE Writers /\ DataWriters
  <2>1. UNCHANGED <<client, told, asked, texts, answered, hasty, early, open, reading,
                werr, room_id, broken, outbox, it, history, todo, audience, rest,
                leaving, entries, client_in_rooms, clientid_to_login, channels,
                subscribers, history_room, db_ptr, db, iopc, freeing, free_id>>
    BY <1>10 DEF DoAutorisation, Finish
  <2> QED BY <1>10, <2>1 DEF Writers, DataWriters, Run, Join
<1>11. ASSUME NEW w \in Worker, SendAnswer(w) PROVE Writers /\ DataWriters
  <2>1. UNCHANGED <<asked, texts, hasty, early, open, reading, client_id, room_id, broken,
                outbox, it, history, todo, audience, rest, leaving, entries,
                client_in_rooms, clientid_to_login, channels, subscribers,
                history_room, db_ptr, db, iopc, freeing, free_id>>
    BY <1>11 DEF SendAnswer, AuthAnswered, JoinAnswered, AnswerLost, Finish
  <2> QED BY <1>11, <2>1 DEF Writers, DataWriters, Run, Join
<1>12. ASSUME NEW w \in Worker, Enter(w) PROVE Writers /\ DataWriters
  <2>1. UNCHANGED <<client, told, asked, texts, answered, hasty, early, open, reading,
                werr, client_id, room_id, broken, outbox, history, todo, audience,
                rest, leaving, entries, client_in_rooms, clientid_to_login, channels,
                subscribers, history_room, db_ptr, db, iopc, freeing, free_id>>
    BY <1>12 DEF Enter
  <2> QED BY <1>12, <2>1 DEF Writers, DataWriters, Run, Join
<1>13. ASSUME NEW w \in Worker, EmplaceEntry(w) PROVE Writers /\ DataWriters
  <2>1. UNCHANGED <<client, told, asked, texts, answered, hasty, early, open, reading,
                werr, client_id, room_id, broken, outbox, history, todo, audience,
                rest, leaving, client_in_rooms, clientid_to_login, channels,
                subscribers, history_room, db_ptr, db, iopc, freeing, free_id>>
    BY <1>13 DEF EmplaceEntry
  <2> QED BY <1>13, <2>1 DEF Writers, DataWriters, Run, Join
<1>14. ASSUME NEW w \in Worker, Push(w) PROVE Writers /\ DataWriters
  <2>1. UNCHANGED <<client, told, asked, texts, answered, hasty, early, open, reading,
                werr, client_id, room_id, broken, outbox, history, todo, audience,
                rest, leaving, entries, clientid_to_login, channels, subscribers,
                history_room, db_ptr, db, iopc, freeing, free_id>>
    BY <1>14 DEF Push
  <2> QED BY <1>14, <2>1 DEF Writers, DataWriters, Run, Join
<1>15. ASSUME NEW w \in Worker, Find(w) PROVE Writers /\ DataWriters
  <2>1. UNCHANGED <<client, told, asked, texts, answered, hasty, early, open, reading,
                werr, client_id, room_id, broken, outbox, it, history, todo, audience,
                rest, leaving, entries, client_in_rooms, clientid_to_login, channels,
                subscribers, history_room, db_ptr, db, iopc, freeing, free_id>>
    BY <1>15 DEF Find
  <2> QED BY <1>15, <2>1 DEF Writers, DataWriters, Run, Join
<1>16. ASSUME NEW w \in Worker, Load(w) PROVE Writers /\ DataWriters
  <2>1. UNCHANGED <<client, told, asked, texts, answered, hasty, early, open, reading,
                werr, client_id, room_id, broken, outbox, it, todo, audience, rest,
                leaving, entries, client_in_rooms, clientid_to_login, channels,
                subscribers, history_room, db_ptr, db, iopc, freeing, free_id>>
    BY <1>16 DEF Load
  <2> QED BY <1>16, <2>1 DEF Writers, DataWriters, Run, Join
<1>17. ASSUME NEW w \in Worker, Create(w) PROVE Writers /\ DataWriters
  <2>1. UNCHANGED <<client, told, asked, texts, answered, hasty, early, open, reading,
                werr, client_id, room_id, broken, outbox, it, todo, audience, rest,
                leaving, entries, client_in_rooms, clientid_to_login, subscribers,
                db_ptr, db, iopc, freeing, free_id>>
    BY <1>17 DEF Create
  <2> QED BY <1>17, <2>1 DEF Writers, DataWriters, Run, Join
<1>18. ASSUME NEW w \in Worker, Replay(w) PROVE Writers /\ DataWriters
  <2>1. UNCHANGED <<client, told, asked, texts, answered, hasty, early, open, reading,
                werr, client_id, room_id, broken, outbox, it, todo, audience, rest,
                leaving, entries, client_in_rooms, clientid_to_login, channels,
                subscribers, history_room, db_ptr, db, iopc, freeing, free_id>>
    BY <1>18 DEF Replay
  <2> QED BY <1>18, <2>1 DEF Writers, DataWriters, Run, Join
<1>19. ASSUME NEW w \in Worker, Resend(w) PROVE Writers /\ DataWriters
  <2>1. UNCHANGED <<client, told, asked, texts, answered, hasty, early, open, reading,
                werr, client_id, room_id, broken, it, todo, audience, rest, leaving,
                entries, client_in_rooms, clientid_to_login, channels, subscribers,
                history_room, db_ptr, db, iopc, freeing, free_id>>
    BY <1>19 DEF Resend
  <2> QED BY <1>19, <2>1 DEF Writers, DataWriters, Run, Join
<1>20. ASSUME NEW w \in Worker, Subscribe(w) PROVE Writers /\ DataWriters
  <2>1. UNCHANGED <<client, told, asked, texts, answered, hasty, early, open, reading,
                werr, client_id, room_id, broken, outbox, it, history, audience, rest,
                leaving, entries, client_in_rooms, clientid_to_login, channels,
                history_room, db_ptr, db, iopc, freeing, free_id>>
    BY <1>20 DEF Subscribe
  <2> QED BY <1>20, <2>1 DEF Writers, DataWriters, Run, Join
<1>21. ASSUME NEW w \in Worker, Notify(w) PROVE Writers /\ DataWriters
  <2>1. UNCHANGED <<client, told, asked, texts, answered, hasty, early, open, reading,
                werr, client_id, room_id, broken, outbox, it, history, rest, leaving,
                entries, client_in_rooms, clientid_to_login, channels, subscribers,
                history_room, db_ptr, db, iopc, freeing, free_id>>
    BY <1>21 DEF Notify
  <2> QED BY <1>21, <2>1 DEF Writers, DataWriters, Run, Join
<1>22. ASSUME NEW w \in Worker, LogMessage(w) PROVE Writers /\ DataWriters
  <2>1. UNCHANGED <<client, told, asked, texts, answered, hasty, early, open, reading,
                werr, client_id, room_id, broken, outbox, it, history, todo, rest,
                leaving, entries, client_in_rooms, clientid_to_login, channels,
                subscribers, db_ptr, db, iopc, freeing, free_id>>
    BY <1>22 DEF LogMessage
  <2> QED BY <1>22, <2>1 DEF Writers, DataWriters, Run, Join
<1>23. ASSUME NEW w \in Worker, Record(w) PROVE Writers /\ DataWriters
  <2>1. UNCHANGED <<client, told, asked, texts, answered, hasty, early, open, reading,
                werr, client_id, broken, outbox, it, history, todo, audience, rest,
                leaving, entries, client_in_rooms, channels, subscribers,
                history_room, db_ptr, db, iopc, freeing, free_id>>
    BY <1>23 DEF Record
  <2> QED BY <1>23, <2>1 DEF Writers, DataWriters, Run, Join
<1>24. ASSUME NEW w \in Worker, ReplyJoin(w) PROVE Writers /\ DataWriters
  <2>1. UNCHANGED <<client, told, asked, texts, answered, hasty, early, open, reading,
                werr, client_id, room_id, broken, outbox, it, history, todo, audience,
                rest, leaving, entries, client_in_rooms, clientid_to_login, channels,
                subscribers, history_room, db_ptr, db, iopc, freeing, free_id>>
    BY <1>24 DEF ReplyJoin, Finish
  <2> QED BY <1>24, <2>1 DEF Writers, DataWriters, Run, Join
<1>25. ASSUME NEW w \in Worker, Save(w) PROVE Writers /\ DataWriters
  <2>1. UNCHANGED <<client, told, asked, texts, answered, hasty, early, open, reading,
                werr, client_id, room_id, broken, outbox, it, history, todo, audience,
                rest, leaving, entries, client_in_rooms, clientid_to_login, channels,
                subscribers, history_room, iopc, freeing, free_id>>
    BY <1>25 DEF Save, Finish, save_text_msg
  <2> QED BY <1>25, <2>1 DEF Writers, DataWriters, Run, Join
<1>26. ASSUME NEW w \in Worker, NEW i \in Id, NotifyNext(w, i) PROVE Writers /\ DataWriters
  <2>1. UNCHANGED <<client, told, asked, texts, answered, hasty, early, open, reading,
                werr, client_id, room_id, broken, it, history, audience, rest,
                leaving, entries, client_in_rooms, clientid_to_login, channels,
                subscribers, history_room, db_ptr, db, iopc, freeing, free_id>>
    BY <1>26 DEF NotifyNext
  <2> QED BY <1>26, <2>1 DEF Writers, DataWriters, Run, Join
<1>27. ASSUME NEW r \in Room, LeaveRoom(r) PROVE Writers /\ DataWriters
  <2>1. UNCHANGED <<client, told, asked, texts, answered, hasty, early, open, reading,
                werr, client_id, room_id, broken, outbox, it, history, todo, audience,
                entries, client_in_rooms, clientid_to_login, channels, subscribers,
                history_room, db_ptr, db, tasks, pc, job>>
    BY <1>27 DEF LeaveRoom
  <2> QED BY <1>27, <2>1 DEF Writers, DataWriters, Free
<1>28. ASSUME NEW i \in Id, NotifyLeaveNext(i) PROVE Writers /\ DataWriters
  <2>1. UNCHANGED <<client, told, asked, texts, answered, hasty, early, open, reading,
                werr, client_id, room_id, broken, it, history, audience, rest,
                leaving, entries, client_in_rooms, clientid_to_login, channels,
                subscribers, history_room, db_ptr, db, tasks, pc, job>>
    BY <1>28 DEF NotifyLeaveNext
  <2> QED BY <1>28, <2>1 DEF Writers, DataWriters, Free
<1>29. ASSUME NotifyLeave PROVE Writers /\ DataWriters
  <2>1. UNCHANGED <<client, told, asked, texts, answered, hasty, early, open, reading,
                werr, client_id, room_id, broken, outbox, it, history, audience, rest,
                leaving, entries, client_in_rooms, clientid_to_login, channels,
                subscribers, history_room, db_ptr, db, tasks, pc, job>>
    BY <1>29 DEF NotifyLeave
  <2> QED BY <1>29, <2>1 DEF Writers, DataWriters, Free
<1>30. ASSUME LogLeave PROVE Writers /\ DataWriters
  <2>1. UNCHANGED <<client, told, asked, texts, answered, hasty, early, open, reading,
                werr, client_id, room_id, broken, outbox, it, history, todo, audience,
                rest, leaving, entries, client_in_rooms, clientid_to_login, channels,
                subscribers, db_ptr, db, tasks, pc, job>>
    BY <1>30 DEF LogLeave
  <2> QED BY <1>30, <2>1 DEF Writers, DataWriters, Free
<1>31. ASSUME Erase PROVE Writers /\ DataWriters
  <2>1. UNCHANGED <<client, told, asked, texts, answered, hasty, early, open, reading,
                werr, client_id, room_id, broken, outbox, it, history, audience,
                entries, client_in_rooms, clientid_to_login, channels, history_room,
                db_ptr, db, tasks, pc, job>>
    BY <1>31 DEF Erase
  <2> QED BY <1>31, <2>1 DEF Writers, DataWriters, Free
<1>32. ASSUME EraseEntry PROVE Writers /\ DataWriters
  <2>1. UNCHANGED <<client, told, asked, texts, answered, hasty, early, open, reading,
                werr, client_id, room_id, broken, outbox, history, todo, audience,
                rest, leaving, clientid_to_login, channels, subscribers, history_room,
                db_ptr, db, tasks, pc, job>>
    BY <1>32 DEF EraseEntry
  <2> QED BY <1>32, <2>1 DEF Writers, DataWriters, Free
<1>33. ASSUME Forget PROVE Writers /\ DataWriters
  <2>1. UNCHANGED <<client, told, asked, texts, answered, hasty, early, open, reading,
                werr, client_id, room_id, broken, outbox, it, history, todo, audience,
                rest, leaving, entries, client_in_rooms, channels, subscribers,
                history_room, db_ptr, db, tasks, pc, job>>
    BY <1>33 DEF Forget
  <2> QED BY <1>33, <2>1 DEF Writers, DataWriters, Free
<1>34. ASSUME Close PROVE Writers /\ DataWriters
  <2>1. UNCHANGED <<client, told, asked, texts, answered, hasty, early, reading, werr,
                broken, outbox, it, history, todo, audience, rest, leaving, entries,
                client_in_rooms, clientid_to_login, channels, subscribers,
                history_room, db_ptr, db, tasks, pc, job>>
    BY <1>34 DEF Close
  <2> QED BY <1>34, <2>1 DEF Writers, DataWriters, Free
<1>35. ASSUME UNCHANGED vars PROVE Writers /\ DataWriters
  BY <1>35 DEF vars, Writers, DataWriters
<1> QED BY <1>1, <1>2, <1>3, <1>4, <1>5, <1>6, <1>7, <1>8, <1>9, <1>10, <1>11,
       <1>12, <1>13, <1>14, <1>15, <1>16, <1>17, <1>18, <1>19, <1>20, <1>21,
       <1>22, <1>23, <1>24, <1>25, <1>26, <1>27, <1>28, <1>29, <1>30, <1>31,
       <1>32, <1>33, <1>34, <1>35 DEF Next, Run, Join, Free

\* The steps a thread takes from line to line of a task.
Lined(w) ==
  \/ Enter(w) \/ EmplaceEntry(w) \/ Push(w) \/ Find(w) \/ Load(w) \/ Create(w)
  \/ Replay(w) \/ Resend(w) \/ Subscribe(w) \/ Notify(w) \/ LogMessage(w) \/ Record(w)

\* What try_emplace does to a channel's subscribers.
LEMMA SubscribeIs ==
  ASSUME TypeOK, NEW w \in Worker, Subscribe(w)
  PROVE  /\ job[w].op = "join" /\ job[w].conn \in Conn /\ job[w].room \in Room
         /\ client_id[job[w].conn] \in Id
         /\ \A r \in Room, i \in Id :
              subscribers'[r][i] =
                IF r = job[w].room /\ i = client_id[job[w].conn] /\ subscribers[r][i] = NoConn
                THEN job[w].conn ELSE subscribers[r][i]
<1>1. PICK r, c, i : r = job[w].room /\ c = job[w].conn /\ i = client_id[c]
  OBVIOUS
<1>2. job[w].op = "join" /\ c \in Conn /\ r \in Room /\ i \in Id
  BY <1>1, LineType, JobType DEF Subscribe, TypeOK, ConnOK
<1>3. CASE subscribers[r][i] = NoConn
  <2>1. subscribers' = [subscribers EXCEPT ![r][i] = c]
    BY <1>1, <1>3 DEF Subscribe
  <2>2. \A q \in Room, j \in Id :
          subscribers'[q][j] = IF q = r /\ j = i THEN c ELSE subscribers[q][j]
    BY <1>2, <2>1 DEF TypeOK, ChannelOK
  <2> QED BY <1>1, <1>2, <1>3, <2>2
<1>4. CASE subscribers[r][i] # NoConn
  <2>1. subscribers' = subscribers
    BY <1>1, <1>4 DEF Subscribe
  <2> QED BY <1>1, <1>2, <1>4, <2>1
<1> QED BY <1>3, <1>4

LEMMA RunIs ==
  ASSUME NEW w \in Worker, Run(w)
  PROVE  \/ DoAutorisation(w) \/ SendAnswer(w) \/ ReplyJoin(w) \/ Save(w) \/ Lined(w)
         \/ UNCHANGED <<tasks, pc, job>> /\ \E i \in Id : NotifyNext(w, i)
<1>1. ASSUME NEW i \in Id, NotifyNext(w, i) PROVE UNCHANGED <<tasks, pc, job>>
  BY <1>1 DEF NotifyNext, workerVars
<1> QED BY <1>1 DEF Run, Join, Lined

LEMMA LinedGoto ==
  ASSUME NEW w \in Worker, Lined(w)
  PROVE  /\ pc[w] # "idle" /\ UNCHANGED tasks /\ (~Create(w) => UNCHANGED job)
         /\ \E l \in Lines \ {"idle", "auth", "enter"} : Goto(w, l)
<1>1. CASE Create(w)
  <2>1. PICK l \in {"replay", "reply"} : Goto(w, l)
    BY <1>1 DEF Create, JoinNext
  <2>2. l \in Lines \ {"idle", "auth", "enter"}
    BY DEF Lines
  <2> QED BY <1>1, <2>1, <2>2 DEF Create
<1>2. CASE Find(w)
  <2>1. PICK l \in {"replay", "load", "notify", "save"} : Goto(w, l)
    BY <1>2 DEF Find, JoinNext
  <2>2. l \in Lines \ {"idle", "auth", "enter"}
    BY DEF Lines
  <2> QED BY <1>2, <2>1, <2>2 DEF Find
<1>3. CASE Enter(w) \/ EmplaceEntry(w) \/ Push(w)
  <2>1. PICK l \in {"push", "emplace", "find"} : Goto(w, l)
    BY <1>3 DEF Enter, EmplaceEntry, Push
  <2>2. l \in Lines \ {"idle", "auth", "enter"}
    BY DEF Lines
  <2> QED BY <1>3, <2>1, <2>2 DEF Enter, EmplaceEntry, Push, Create
<1>4. CASE Replay(w) \/ Resend(w)
  <2>1. PICK l \in {"resend", "subscribe"} : Goto(w, l)
    BY <1>4 DEF Replay, Resend, Resume, JoinNext
  <2>2. l \in Lines \ {"idle", "auth", "enter"}
    BY DEF Lines
  <2> QED BY <1>4, <2>1, <2>2 DEF Replay, Resend, Create
<1>5. CASE Load(w) \/ Subscribe(w) \/ Notify(w) \/ LogMessage(w) \/ Record(w)
  <2>1. PICK l \in {"create", "notify", "send", "record", "save", "reply"} : Goto(w, l)
    BY <1>5 DEF Load, Subscribe, JoinNext, Notify, LogMessage, Record
  <2>2. l \in Lines \ {"idle", "auth", "enter"}
    BY DEF Lines
  <2> QED BY <1>5, <2>1, <2>2 DEF Load, Subscribe, Notify, LogMessage, Record, Create
<1> QED BY <1>1, <1>2, <1>3, <1>4, <1>5 DEF Lined

--------------------------------------------------------------------------------
(* What a step may do to the tasks, to a connection in service and to a room.    *)

LEMMA PendingAppend ==
  ASSUME TasksOK, NEW u, tasks' = Append(tasks, u), UNCHANGED <<pc, job>>, NEW t \in Pending'
  PROVE  t \in Pending \/ t = u
BY DEF TasksOK, Pending

LEMMA PendingGoto ==
  ASSUME WorkersOK, NEW w \in Worker, pc[w] # "idle", NEW l, Goto(w, l),
         UNCHANGED <<tasks, job>>, NEW t \in Pending'
  PROVE  t \in Pending
BY DEF WorkersOK, Goto, Pending

LEMMA PendingFinish ==
  ASSUME WorkersOK, TasksOK, NEW w \in Worker, NEW ts \in Seq(Tasks), Finish(w, ts),
         NEW t \in Pending'
  PROVE  t \in Pending \/ \E k \in 1 .. Len(ts) : t = ts[k]
<1>1. CASE \E v \in Worker : pc'[v] # "idle" /\ t = job'[v]
  <2>1. PICK v \in Worker : pc'[v] # "idle" /\ t = job'[v]
    BY <1>1
  <2>2. v # w
    BY <2>1 DEF Finish, Goto, WorkersOK
  <2>3. pc'[v] = pc[v] /\ job'[v] = job[v]
    BY <2>2 DEF Finish, Goto, WorkersOK
  <2> QED BY <2>1, <2>3 DEF Pending
<1>2. CASE \E k \in 1 .. Len(tasks') : t = tasks'[k]
  <2>1. PICK k \in 1 .. Len(tasks') : t = tasks'[k]
    BY <1>2
  <2>2. tasks' = tasks \o ts /\ tasks \in Seq(Tasks)
    BY DEF Finish, TasksOK
  <2>3. CASE k <= Len(tasks)
    BY <2>1, <2>2, <2>3 DEF Pending
  <2>4. CASE k > Len(tasks)
    <3>1. k - Len(tasks) \in 1 .. Len(ts) /\ t = ts[k - Len(tasks)]
      BY <2>1, <2>2, <2>4
    <3> QED BY <3>1
  <2>5. Len(tasks) \in Nat /\ k \in Nat
    BY <2>1, <2>2
  <2> QED BY <2>3, <2>4, <2>5
<1> QED BY <1>1, <1>2 DEF Pending

LEMMA PendingTake ==
  ASSUME WorkersOK, TasksOK, NEW w \in Worker, Take(w), NEW t \in Pending'
  PROVE  t \in Pending
<1>1. tasks \in Seq(Tasks) /\ tasks # <<>>
  BY DEF TasksOK, Take
<1>2. 1 \in 1 .. Len(tasks) /\ Head(tasks) = tasks[1]
  BY <1>1
<1>3. \A k \in 1 .. Len(Tail(tasks)) : k + 1 \in 1 .. Len(tasks) /\ Tail(tasks)[k] = tasks[k + 1]
  BY <1>1
<1>4. CASE \E v \in Worker : pc'[v] # "idle" /\ t = job'[v]
  BY <1>2, <1>4 DEF Take, Goto, WorkersOK, Pending
<1>5. CASE \E k \in 1 .. Len(tasks') : t = tasks'[k]
  BY <1>3, <1>5 DEF Take, Pending
<1> QED BY <1>4, <1>5 DEF Pending

\* Every task after a step was there before, or is one the step made.
LEMMA PendingNext ==
  ASSUME TypeOK, [Next]_vars, NEW t \in Pending'
  PROVE  \/ t \in Pending
         \/ t.op = "auth" /\ t.conn \in Conn /\ ReadAuth(t.conn)
         \/ t.op \in {"join", "text"} /\ t.conn \in Conn /\ client[t.conn] = "in"
         \/ \E w \in Worker : /\ DoAutorisation(w) /\ t.conn = job[w].conn
                              /\ t.op = "authReply"
                              /\ t.ok => OwnId(t.conn)'
         \/ \E w \in Worker : /\ ReplyJoin(w) /\ t.conn = job[w].conn
                              /\ t.op = "joinReply" /\ t.room = room_id[t.conn]
                              /\ t.ok = job[w].ok
         \/ \E w \in Worker : Create(w) /\ t.op = "join" /\ t.conn = job[w].conn
<1>0. TasksOK /\ WorkersOK
  BY DEF TypeOK
<1>1. CASE UNCHANGED <<tasks, pc, job>>
  BY <1>1 DEF Pending
<1>2. ASSUME NEW c \in Conn, ReadAuth(c) PROVE t \in Pending \/ (t.op = "auth" /\ t.conn = c /\ ReadAuth(c))
  <2> DEFINE u == Task("auth", c, NoRoom, 0, TRUE)
  <2>1. tasks' = Append(tasks, u) /\ UNCHANGED <<pc, job>>
    BY <1>2 DEF ReadAuth, Post, workerVars
  <2>2. u.op = "auth" /\ u.conn = c
    BY DEF Task
  <2> HIDE DEF u
  <2>3. t \in Pending \/ t = u
    BY <1>0, <2>1, PendingAppend
  <2> QED BY <1>2, <2>2, <2>3
<1>3. ASSUME NEW c \in Conn, NEW r \in Room, ReadJoin(c, r)
      PROVE  t \in Pending \/ (t.op = "join" /\ t.conn = c)
  <2> DEFINE u == Task("join", c, r, 0, TRUE)
  <2>1. tasks' = Append(tasks, u) /\ UNCHANGED <<pc, job>>
    BY <1>3 DEF ReadJoin, Post, workerVars
  <2>2. u.op = "join" /\ u.conn = c
    BY DEF Task
  <2> HIDE DEF u
  <2>3. t \in Pending \/ t = u
    BY <1>0, <2>1, PendingAppend
  <2> QED BY <2>2, <2>3
<1>4. ASSUME NEW c \in Conn, NEW r \in Room, ReadText(c, r)
      PROVE  t \in Pending \/ (t.op = "text" /\ t.conn = c)
  <2> DEFINE u == Task("text", c, r, texts[c] + 1, TRUE)
  <2>1. tasks' = Append(tasks, u) /\ UNCHANGED <<pc, job>>
    BY <1>4 DEF ReadText, Post, workerVars
  <2>2. u.op = "text" /\ u.conn = c
    BY DEF Task
  <2> HIDE DEF u
  <2>3. t \in Pending \/ t = u
    BY <1>0, <2>1, PendingAppend
  <2> QED BY <2>2, <2>3
<1>5. ASSUME NEW w \in Worker, Take(w) PROVE t \in Pending
  BY <1>0, <1>5, PendingTake
<1>6. ASSUME NEW w \in Worker, Run(w)
      PROVE  \/ t \in Pending
             \/ /\ DoAutorisation(w) /\ t.conn = job[w].conn
                /\ t.op = "authReply"
                /\ t.ok => OwnId(t.conn)'
             \/ /\ ReplyJoin(w) /\ t.conn = job[w].conn
                /\ t.op = "joinReply" /\ t.room = room_id[t.conn] /\ t.ok = job[w].ok
             \/ Create(w) /\ t.op = "join" /\ t.conn = job[w].conn
  <2>0. <<>> \in Seq(Tasks)
    OBVIOUS
  <2>1. ASSUME SendAnswer(w) \/ Save(w) PROVE t \in Pending
    <3>1. Finish(w, <<>>)
      BY <2>1 DEF SendAnswer, Save
    <3>2. t \in Pending \/ \E k \in 1 .. Len(<<>>) : t = <<>>[k]
      BY <1>0, <2>0, <3>1, PendingFinish
    <3> QED BY <3>2
  <2>2. CASE DoAutorisation(w)
    <3>1. job[w].conn \in Conn
      BY <1>0, <2>2, JobType DEF DoAutorisation
    <3>2. PICK i \in Outcomes(job[w].conn) :
            /\ client_id' = [client_id EXCEPT ![job[w].conn] = i]
            /\ Finish(w, <<Task("authReply", job[w].conn, NoRoom, 0, i # -1)>>)
      BY <2>2 DEF DoAutorisation
    <3> DEFINE u == Task("authReply", job[w].conn, NoRoom, 0, i # -1)
    <3>3. u \in Tasks
      <4>1. ASSUME NEW b \in BOOLEAN
            PROVE  Task("authReply", job[w].conn, NoRoom, 0, b) \in Tasks
        BY <3>1 DEF Task, Tasks
      <4> QED BY <4>1
    <3>4. <<u>> \in Seq(Tasks) /\ Finish(w, <<u>>)
      BY <3>2, <3>3
    <3>5. u.op = "authReply" /\ u.conn = job[w].conn /\ u.ok = (i # -1)
      BY DEF Task
    <3>9. PICK c \in Conn : c = job[w].conn
      BY <3>1
    <3>6. i # -1 => OwnId(c)'
      <4>1. i # -1 => i = AccountOf[c] /\ i \in Account
        BY <3>9, IdAssumption DEF Outcomes
      <4>2. client_id'[c] = i
        BY <3>2, <3>9 DEF TypeOK, ConnOK
      <4> QED BY <4>1, <4>2 DEF OwnId
    <3> HIDE DEF u
    <3>7. t \in Pending \/ \E k \in 1 .. Len(<<u>>) : t = <<u>>[k]
      BY <1>0, <3>4, PendingFinish
    <3>8. t \in Pending \/ t = u
      BY <3>7
    <3> QED BY <2>2, <3>5, <3>6, <3>8, <3>9
  <2>3. CASE ReplyJoin(w)
    <3> DEFINE u == Task("joinReply", job[w].conn, room_id[job[w].conn], 0, job[w].ok)
    <3>1. job[w].conn \in Conn /\ job[w].ok \in BOOLEAN
      BY <1>0, <2>3, JobType DEF ReplyJoin
    <3>2. room_id[job[w].conn] \in Room \cup {NoRoom}
      BY <3>1 DEF TypeOK, ConnOK
    <3>3. u \in Tasks
      BY <3>1, <3>2 DEF Task, Tasks
    <3>4. <<u>> \in Seq(Tasks) /\ Finish(w, <<u>>)
      BY <2>3, <3>3 DEF ReplyJoin
    <3>5. /\ u.op = "joinReply" /\ u.conn = job[w].conn
          /\ u.room = room_id[job[w].conn] /\ u.ok = job[w].ok
      BY DEF Task
    <3> HIDE DEF u
    <3>6. t \in Pending \/ \E k \in 1 .. Len(<<u>>) : t = <<u>>[k]
      BY <1>0, <3>4, PendingFinish
    <3>7. t \in Pending \/ t = u
      BY <3>6
    <3> QED BY <2>3, <3>5, <3>7
  <2>4. CASE Create(w)
    <3>1. CASE UNCHANGED job
      <4>1. PICK l : Goto(w, l)
        BY <2>4 DEF Create
      <4> QED BY <1>0, <2>4, <3>1, <4>1, PendingGoto DEF Create
    <3>2. CASE job' = [job EXCEPT ![w].ok = FALSE]
      <4>1. job[w] \in Tasks /\ job[w].op = "join"
        BY <1>0, <2>4, JobType, LineType DEF Create
      <4> DEFINE u == [job[w] EXCEPT !.ok = FALSE]
      <4>2. u.op = "join" /\ u.conn = job[w].conn
        BY <4>1 DEF Tasks
      <4>3. job' = [job EXCEPT ![w] = u] /\ tasks' = tasks /\ pc[w] # "idle"
        BY <2>4, <3>2 DEF Create
      <4>4. \A v \in Worker : v # w => pc'[v] = pc[v]
        BY <1>0, <2>4 DEF Create, Goto, WorkersOK
      <4> HIDE DEF u
      <4>5. t \in Pending \/ t = u
        BY <1>0, <4>3, <4>4 DEF Pending, WorkersOK
      <4> QED BY <2>4, <4>2, <4>5
    <3> QED BY <2>4, <3>1, <3>2 DEF Create
  <2>5. ASSUME Lined(w), ~Create(w) PROVE t \in Pending
    BY <1>0, <2>5, LinedGoto, PendingGoto
  <2>6. ASSUME UNCHANGED <<tasks, pc, job>> PROVE t \in Pending
    BY <2>6 DEF Pending
  <2> QED BY <1>6, <2>1, <2>2, <2>3, <2>4, <2>5, <2>6, RunIs
<1>8. \A c \in Conn, r \in Room : ReadJoin(c, r) \/ ReadText(c, r) => client[c] = "in"
  BY DEF ReadJoin, ReadText
<1> QED BY <1>1, <1>2, <1>3, <1>4, <1>5, <1>6, <1>8, WritersNext DEF Writers

\* A connection is not "off" once it is in service, and is not served again.
LEMMA ServingNext ==
  ASSUME Inv, [Next]_vars, NEW c \in Conn
  PROVE  /\ client'[c] = "off" => client[c] = "off" /\ c \notin open'
         /\ client'[c] = "new" => client[c] \in {"off", "new"}
         /\ Serving(c)' /\ client[c] # "off" => Serving(c) /\ c \in open
<1> USE DEF Inv, TypeOK, ClientOK, ConnOK
<1>1. client'[c] = "off" => client[c] = "off"
  <2>1. ASSUME NEW d \in Conn, Accept(d) \/ ReadAuth(d) \/ ClientLeaves(d)
        PROVE  client'[c] = "off" => client[c] = "off"
    BY <2>1 DEF Accept, ReadAuth, ClientLeaves
  <2>2. ASSUME NEW w \in Worker, SendAnswer(w)
        PROVE  client'[c] = "off" => client[c] = "off"
    BY <2>2 DEF SendAnswer, AuthAnswered, JoinAnswered, AnswerLost, clientVars
  <2> QED BY <2>1, <2>2, WritersNext DEF Writers
<1>9. client'[c] = "new" => client[c] \in {"off", "new"}
  <2>1. ASSUME NEW d \in Conn, Accept(d) \/ ReadAuth(d) \/ ClientLeaves(d)
        PROVE  client'[c] = "new" => client[c] \in {"off", "new"}
    BY <2>1 DEF Accept, ReadAuth, ClientLeaves
  <2>2. ASSUME NEW w \in Worker, SendAnswer(w)
        PROVE  client'[c] = "new" => client[c] \in {"off", "new"}
    BY <2>2 DEF SendAnswer, AuthAnswered, JoinAnswered, AnswerLost, clientVars
  <2> QED BY <2>1, <2>2, WritersNext DEF Writers
<1>2. client'[c] = "off" => c \notin open'
  <2>1. ASSUME NEW d \in Conn, Accept(d), client'[c] = "off" PROVE c \notin open'
    BY <1>1, <2>1 DEF Accept, OffInv
  <2>2. ASSUME Close, client'[c] = "off" PROVE c \notin open'
    BY <1>1, <2>2 DEF Close, OffInv
  <2> QED BY <1>1, <2>1, <2>2, WritersNext DEF Writers, OffInv
<1>3. ASSUME Serving(c)', client[c] # "off" PROVE Serving(c)
  <2>1. c \in open
    <3>1. ASSUME NEW d \in Conn, Accept(d) PROVE c \in open
      BY <1>3, <3>1 DEF Accept, Serving
    <3>2. ASSUME Close PROVE c \in open
      BY <1>3, <3>2 DEF Close, Serving
    <3> QED BY <1>3, <3>1, <3>2, WritersNext DEF Writers, Serving
  <2>2. freeing # c
    <3>1. ASSUME NEW d \in Conn, HeaderReadFails(d) \/ AnswerWriteFails(d) \/ QueueWriteFails(d)
          PROVE  freeing # c
      BY <3>1, NoneAssumption
         DEF HeaderReadFails, AnswerWriteFails, QueueWriteFails, FreeOK
    <3>2. ASSUME Free PROVE freeing # c
      <4>1. CASE Close
        BY <1>3, <4>1 DEF Close, Serving
      <4>2. CASE ~Close
        BY <1>3, <3>2, <4>2
           DEF Free, LeaveRoom, NotifyLeave, NotifyLeaveNext, LogLeave, Erase, EraseEntry, Forget, IoGoto, freeVars, Serving
      <4> QED BY <4>1, <4>2
    <3> QED BY <1>3, <3>1, <3>2, WritersNext DEF Writers, Serving
  <2> QED BY <2>1, <2>2 DEF Serving
<1> QED BY <1>1, <1>2, <1>3, <1>9 DEF Serving

\* The id free_connection works with is never that of a user still served.
LEMMA FreeIdOther ==
  ASSUME Inv, OneConnectionEach, NEW c \in Conn, AccountOf[c] \in Account,
         iopc # "idle", freeing # c
  PROVE  free_id # AccountOf[c]
<1>1. freeing \in Conn
  BY DEF Inv, TypeOK, FreeOK
<1>2. AccountOf[c] # -1
  BY IdAssumption
<1> QED BY <1>1, <1>2 DEF Inv, FreeIdInv, IdOf, OneConnectionEach

\* A step takes a user in service out of no room.
LEMMA RoomNext ==
  ASSUME Inv, OneConnectionEach, [Next]_vars, NEW c \in Conn, NEW r,
         AccountOf[c] \in Account, Serving(c), Serving(c)'
  PROVE  /\ r \in channels => r \in channels'
         /\ InRoomAt(c, r) => InRoomAt(c, r)'
<1> USE DEF Inv, TypeOK, ManagerOK, ChannelOK, ConnOK
<1> DEFINE i == AccountOf[c]
<1>0. i \in Id
  BY DEF Id
<1>1. r \in channels => r \in channels'
  <2>1. ASSUME NEW w \in Worker, Create(w) PROVE channels \subseteq channels'
    BY <2>1 DEF Create
  <2> QED BY <2>1, WritersNext DEF Writers
<1>3. ASSUME r \in Room, subscribers[r][i] = c PROVE subscribers'[r][i] = c
  <2>1. ASSUME NEW w \in Worker, Subscribe(w) PROVE subscribers'[r][i] = c
    BY <1>0, <1>3, <2>1, SubscribeIs, NoneAssumption
  <2>2. ASSUME Erase PROVE subscribers'[r][i] = c
    <3>1. free_id # i
      BY <2>2, FreeIdOther DEF Erase, Serving
    <3>2. leaving \in Room /\ free_id \in Id
      BY <2>2 DEF Erase, FreeOK
    <3> QED BY <1>0, <1>3, <2>2, <3>1, <3>2 DEF Erase
  <2> QED BY <1>3, <2>1, <2>2, WritersNext DEF Writers
<1> QED BY <1>1, <1>3 DEF InRoomAt

--------------------------------------------------------------------------------
(* Each part of the invariant is preserved.                                      *)

\* A thread's task is pending.
LEMMA RunningPending ==
  ASSUME TypeOK, NEW w \in Worker, pc[w] # "idle"
  PROVE  job[w] \in Pending /\ job[w].conn \in Conn
BY JobType DEF TypeOK, Pending

LEMMA PendingConn ==
  ASSUME TypeOK, NEW t \in Pending
  PROVE  t \in Tasks /\ t.conn \in Conn
<1>1. t \in Tasks
  <2>1. ASSUME NEW k \in 1 .. Len(tasks), t = tasks[k] PROVE t \in Tasks
    BY <2>1 DEF TypeOK, TasksOK
  <2>2. ASSUME NEW w \in Worker, pc[w] # "idle", t = job[w] PROVE t \in Tasks
    BY <2>2, JobType DEF TypeOK
  <2> QED BY <2>1, <2>2 DEF Pending
<1> QED BY <1>1 DEF Tasks

LEMMA OffNext == ASSUME Inv, [Next]_vars PROVE OffInv'
<1> USE DEF Inv
<1> SUFFICES ASSUME NEW c \in Conn
             PROVE  /\ client'[c] = "off" => c \notin open'
                    /\ client'[c] \in {"off", "new"} =>
                         /\ told'[c] = {} /\ room_id'[c] = NoRoom
                         /\ \A t \in Pending' : t.conn # c
  BY DEF OffInv
<1>0. client'[c] = "off" => c \notin open'
  BY ServingNext
<1> SUFFICES ASSUME client'[c] \in {"off", "new"}
             PROVE  /\ told'[c] = {} /\ room_id'[c] = NoRoom
                    /\ \A t \in Pending' : t.conn # c
  BY <1>0
<1>1. client[c] \in {"off", "new"}
  BY ServingNext
<1>2. /\ told[c] = {} /\ room_id[c] = NoRoom
      /\ \A t \in Pending : t.conn # c
  BY <1>1 DEF OffInv
<1>3. \A w \in Worker : pc[w] # "idle" => job[w].conn # c
  BY <1>2, RunningPending
<1>4. told'[c] = {}
  <2>1. ASSUME NEW w \in Worker, SendAnswer(w) PROVE told'[c] = told[c]
    <3>1. job[w].conn # c /\ job[w].conn \in Conn
      BY <1>3, <2>1, RunningPending DEF SendAnswer
    <3> QED BY <2>1, <3>1
          DEF SendAnswer, AuthAnswered, JoinAnswered, AnswerLost, clientVars, TypeOK, ClientOK
  <2> QED BY <1>2, <2>1, WritersNext DEF Writers
<1>5. room_id'[c] = NoRoom
  <2>1. ASSUME NEW w \in Worker, Record(w) PROVE room_id'[c] = room_id[c]
    <3>1. job[w].conn # c /\ job[w].conn \in Conn
      BY <1>3, <2>1, RunningPending DEF Record
    <3> QED BY <2>1, <3>1 DEF Record, TypeOK, ConnOK
  <2>2. ASSUME Close PROVE room_id'[c] = NoRoom
    BY <1>2, <2>2 DEF Close, TypeOK, ConnOK
  <2> QED BY <1>2, <2>1, <2>2, WritersNext DEF Writers
<1>6. ASSUME NEW t \in Pending' PROVE t.conn # c
  <2>1. \A w \in Worker : DoAutorisation(w) \/ ReplyJoin(w) \/ Create(w) => job[w].conn # c
    BY <1>3 DEF DoAutorisation, ReplyJoin, Create
  <2>2. ~ReadAuth(c)
    BY DEF ReadAuth, TypeOK, ClientOK
  <2> QED BY <1>1, <1>2, <2>1, <2>2, PendingNext
<1> QED BY <1>4, <1>5, <1>6

LEMMA IdNext == ASSUME Inv, [Next]_vars PROVE IdInv'
<1> USE DEF Inv, TypeOK, ConnOK
<1> SUFFICES ASSUME NEW c \in Conn PROVE client_id'[c] \in IdOf(c)
  BY DEF IdInv, IdOf
<1>1. ASSUME NEW w \in Worker, DoAutorisation(w) PROVE client_id'[c] \in IdOf(c)
  <2>1. PICK i \in Outcomes(job[w].conn) : client_id' = [client_id EXCEPT ![job[w].conn] = i]
    BY <1>1 DEF DoAutorisation
  <2>2. i \in {AccountOf[job[w].conn], -1}
    BY DEF Outcomes
  <2> QED BY <2>1, <2>2 DEF IdInv, IdOf
<1>2. ASSUME Close PROVE client_id'[c] \in IdOf(c)
  BY <1>2 DEF Close, IdInv, IdOf
<1> QED BY <1>1, <1>2, WritersNext DEF Writers, IdInv

LEMMA FreeIdNext == ASSUME Inv, [Next]_vars PROVE FreeIdInv'
<1> USE DEF Inv
<1>1. ASSUME NEW c \in Conn, FreeConnection(c) PROVE FreeIdInv'
  BY <1>1 DEF FreeConnection, FreeIdInv, IdInv, IdOf
<1>2. ASSUME Free PROVE FreeIdInv'
  BY <1>2 DEF Free, LeaveRoom, NotifyLeave, NotifyLeaveNext, LogLeave, Erase, EraseEntry, Forget, Close, IoGoto, freeVars,
              FreeIdInv, IdOf
<1>3. ASSUME UNCHANGED <<iopc, freeing, free_id>> PROVE FreeIdInv'
  BY <1>3 DEF FreeIdInv, IdOf
<1> QED BY <1>1, <1>2, <1>3, WritersNext
      DEF Writers, HeaderReadFails, AnswerWriteFails, QueueWriteFails

LEMMA KeyNext == ASSUME Inv, OneConnectionEach, [Next]_vars PROVE KeyInv'
<1> SUFFICES ASSUME NEW r \in Room, NEW i \in Account, NEW d \in Conn, subscribers'[r][i] = d
             PROVE  i = AccountOf[d]
  BY DEF KeyInv
<1>3. subscribers[r][i] = d => i = AccountOf[d]
  BY DEF Inv, KeyInv
<1> USE DEF Inv, TypeOK, ConnOK, ChannelOK
<1>0. i \in Id /\ i # -1 /\ i \notin Garbage
  BY IdAssumption DEF Id, OneConnectionEach
<1>1. ASSUME NEW w \in Worker, Subscribe(w) PROVE i = AccountOf[d]
  <2>1. job[w].room \in Room /\ job[w].conn \in Conn
    BY <1>1, LineType, JobType DEF Subscribe
  <2>2. client_id[job[w].conn] \in Id /\ client_id[job[w].conn] \in IdOf(job[w].conn)
    BY <2>1 DEF IdInv
  <2>3. CASE subscribers[r][i] = d
    BY <1>3, <2>3
  <2>4. CASE subscribers[r][i] # d
    <3>1. i = client_id[job[w].conn] /\ d = job[w].conn
      BY <1>0, <1>1, <2>4, SubscribeIs
    <3> QED BY <1>0, <2>2, <3>1 DEF IdOf
  <2> QED BY <2>3, <2>4
<1>2. ASSUME Erase PROVE i = AccountOf[d]
  <2>1. leaving \in Room /\ free_id \in Id
    BY <1>2 DEF Erase, FreeOK
  <2>2. subscribers[r][i] = d
    BY <1>0, <1>2, <2>1, NoneAssumption DEF Erase
  <2> QED BY <1>3, <2>2
<1> QED BY <1>1, <1>2, <1>3, WritersNext DEF Writers

\* A connection that is let in was let in before, or is being answered OK.
LEMMA LetInNext ==
  ASSUME Inv, [Next]_vars, NEW c \in Conn, LetIn(c)'
  PROVE  LetIn(c) \/ \E w \in Worker : DoAutorisation(w) /\ job[w].conn = c /\ OwnId(c)'
<1> USE DEF Inv
<1>0. c \in Conn
  OBVIOUS
<1>1. ASSUME client'[c] = "in" \/ told'[c] # {} PROVE LetIn(c)
  <2>1. ASSUME NEW d \in Conn, Accept(d) \/ ReadAuth(d) \/ ClientLeaves(d), client'[c] = "in"
        PROVE  client[c] = "in"
    BY <1>0, <2>1 DEF Accept, ReadAuth, ClientLeaves, TypeOK, ClientOK
  <2>2. ASSUME NEW w \in Worker, SendAnswer(w) PROVE LetIn(c)
    <3>1. job[w] \in Pending /\ job[w].conn \in Conn /\ job[w].op \in {"authReply", "joinReply"}
      BY <2>2, RunningPending, LineType DEF SendAnswer, TypeOK
    <3>2. CASE UNCHANGED <<client, told>>
      BY <1>1, <3>2 DEF LetIn
    <3>3. CASE job[w].conn # c
      BY <1>0, <1>1, <2>2, <3>1, <3>3
         DEF LetIn, SendAnswer, AuthAnswered, JoinAnswered, AnswerLost, clientVars, TypeOK, ClientOK
    <3>4. CASE job[w].conn = c /\ job[w].op = "joinReply"
      BY <3>1, <3>4 DEF LetIn
    <3>5. CASE job[w].conn = c /\ job[w].op = "authReply"
      <4>1. pc[w] = "authReply" /\ AuthAnswered(c, job[w].ok)
        BY <2>2, <3>5, LineType DEF SendAnswer, TypeOK
      <4>2. CASE job[w].ok
        BY <3>1, <3>5, <4>2 DEF LetIn
      <4>3. CASE ~job[w].ok
        BY <1>0, <1>1, <4>1, <4>3 DEF LetIn, AuthAnswered, AnswerLost, clientVars, TypeOK, ClientOK
      <4> QED BY <4>2, <4>3
    <3> QED BY <3>1, <3>3, <3>4, <3>5
  <2> QED BY <1>1, <2>1, <2>2, WritersNext DEF Writers, LetIn
<1>2. ASSUME room_id'[c] # NoRoom PROVE LetIn(c)
  <2>1. ASSUME NEW w \in Worker, Record(w) PROVE LetIn(c)
    <3>1. job[w] \in Pending /\ job[w].conn \in Conn /\ job[w].op = "join"
      BY <2>1, RunningPending, LineType DEF Record, TypeOK
    <3> QED BY <1>0, <1>2, <2>1, <3>1 DEF LetIn, Record, TypeOK, ConnOK
  <2>2. ASSUME Close PROVE LetIn(c)
    BY <1>0, <1>2, <2>2 DEF Close, LetIn, TypeOK, ConnOK
  <2> QED BY <1>2, <2>1, <2>2, WritersNext DEF Writers, LetIn
<1>3. ASSUME NEW t \in Pending', t.conn = c,
             t.op \in {"join", "joinReply", "text"} \/ (t.op = "authReply" /\ t.ok)
      PROVE  \/ LetIn(c)
             \/ \E w \in Worker : DoAutorisation(w) /\ job[w].conn = c /\ OwnId(c)'
  <2>1. \A w \in Worker : ReplyJoin(w) \/ Create(w) => job[w] \in Pending /\ job[w].op = "join"
    BY RunningPending, LineType DEF ReplyJoin, Create, TypeOK
  <2> QED BY <1>3, <2>1, PendingNext DEF LetIn
<1> QED BY <1>1, <1>2, <1>3 DEF LetIn

LEMMA OwnNext == ASSUME Inv, [Next]_vars PROVE OwnInv'
<1> USE DEF Inv
<1> SUFFICES ASSUME NEW c \in open', LetIn(c)'
             PROVE  OwnId(c)'
  BY DEF OwnInv, OwnId
<1>0. c \in Conn /\ AccountOf[c] \in Account \cup {-1}
  <2>1. ASSUME NEW d \in Conn, Accept(d) PROVE open' \subseteq Conn
    BY <2>1 DEF Accept, TypeOK, ConnOK
  <2> QED BY <2>1, WritersNext, IdAssumption DEF Writers, Close, TypeOK, ConnOK
<1>1. CASE c \in open
  <2>1. CASE \E w \in Worker : DoAutorisation(w) /\ job[w].conn = c
    <3>1. PICK w \in Worker : DoAutorisation(w) /\ job[w].conn = c
      BY <2>1
    <3>2. job[w] \in Pending /\ job[w].op = "auth"
      BY <3>1, RunningPending, LineType DEF DoAutorisation, TypeOK
    <3>3. ~LetIn(c)
      BY <3>1, <3>2 DEF SigningInv
    <3> QED BY <1>0, <3>3, LetInNext
  <2>2. CASE ~ \E w \in Worker : DoAutorisation(w) /\ job[w].conn = c
    <3>1. AccountOf[c] \in Account /\ client_id[c] = AccountOf[c]
      BY <1>0, <1>1, <2>2, LetInNext DEF OwnInv, OwnId
    <3>2. ASSUME NEW w \in Worker, DoAutorisation(w) PROVE client_id'[c] = client_id[c]
      BY <1>0, <2>2, <3>2 DEF DoAutorisation, TypeOK, ConnOK
    <3>3. ASSUME Close PROVE client_id'[c] = client_id[c]
      BY <1>0, <3>3 DEF Close, TypeOK, ConnOK
    <3> QED BY <3>1, <3>2, <3>3, WritersNext DEF Writers, OwnId
  <2> QED BY <2>1, <2>2
<1>2. CASE c \notin open
  <2>1. Accept(c)
    <3>1. ASSUME NEW d \in Conn, Accept(d) PROVE Accept(c)
      BY <1>2, <3>1 DEF Accept
    <3> QED BY <1>2, <3>1, WritersNext DEF Writers, Close
  <2>2. client[c] = "off" /\ client'[c] = "new" /\ UNCHANGED <<told, room_id>>
    BY <1>0, <2>1 DEF Accept, TypeOK, ClientOK
  <2>3. told[c] = {} /\ room_id[c] = NoRoom /\ \A t \in Pending : t.conn # c
    BY <1>0, <2>2 DEF OffInv
  <2>4. UNCHANGED <<tasks, pc, job>>
    BY <2>1 DEF Accept, workerVars
  <2>5. Pending' = Pending
    BY <2>4 DEF Pending
  <2> QED BY <2>2, <2>3, <2>5 DEF LetIn
<1> QED BY <1>1, <1>2

\* Tasks other than a sign-in are added, and threads leave the line of one.
LEMMA SigningKept ==
  ASSUME TypeOK, SigningOnce, NEW ts \in Seq(Tasks), tasks' = tasks \o ts,
         \A k \in 1 .. Len(ts) : ts[k].op # "auth",
         \A w \in Worker : pc'[w] = "auth" => pc[w] = "auth" /\ job'[w] = job[w]
  PROVE  SigningOnce'
<1>1. tasks \in Seq(Tasks)
  BY DEF TypeOK, TasksOK
<1>2. ASSUME NEW k \in 1 .. Len(tasks'), tasks'[k].op = "auth"
      PROVE  k \in 1 .. Len(tasks) /\ tasks'[k] = tasks[k]
  <2>1. CASE k <= Len(tasks)
    BY <1>1, <2>1
  <2>2. CASE k > Len(tasks)
    <3>1. k - Len(tasks) \in 1 .. Len(ts) /\ tasks'[k] = ts[k - Len(tasks)]
      BY <1>1, <2>2
    <3> QED BY <1>2, <3>1
  <2>3. Len(tasks) \in Nat /\ k \in Nat
    BY <1>1
  <2> QED BY <2>1, <2>2, <2>3
<1>3. \A j, k \in 1 .. Len(tasks') :
        tasks'[j].op = "auth" /\ tasks'[k].op = "auth" /\ tasks'[j].conn = tasks'[k].conn
          => j = k
  BY <1>2 DEF SigningOnce
<1>4. \A k \in 1 .. Len(tasks'), w \in Worker :
        tasks'[k].op = "auth" /\ pc'[w] = "auth" => tasks'[k].conn # job'[w].conn
  BY <1>2 DEF SigningOnce
<1>5. \A v, w \in Worker :
        pc'[v] = "auth" /\ pc'[w] = "auth" /\ job'[v].conn = job'[w].conn => v = w
  BY DEF SigningOnce
<1> QED BY <1>3, <1>4, <1>5 DEF SigningOnce

LEMMA SigningOnceNext == ASSUME Inv, [Next]_vars PROVE SigningOnce'
<1> USE DEF Inv
<1>0. tasks \in Seq(Tasks) /\ <<>> \in Seq(Tasks) /\ tasks = tasks \o <<>>
  BY DEF TypeOK, TasksOK
<1>1. CASE UNCHANGED <<tasks, pc, job>>
  BY <1>1 DEF SigningOnce
<1>2. ASSUME NEW c \in Conn, ReadAuth(c) PROVE SigningOnce'
  <2> DEFINE u == Task("auth", c, NoRoom, 0, TRUE)
  <2>1. tasks' = Append(tasks, u) /\ UNCHANGED <<pc, job>>
    BY <1>2 DEF ReadAuth, Post, workerVars
  <2>2. u.op = "auth" /\ u.conn = c
    BY DEF Task
  <2> HIDE DEF u
  <2>3. \A t \in Pending : t.conn # c
    BY <1>2 DEF ReadAuth, OffInv
  <2>4. /\ \A k \in 1 .. Len(tasks) : tasks[k].conn # c
        /\ \A w \in Worker : pc[w] = "auth" => job[w].conn # c
    BY <2>3 DEF Pending
  <2>5. \A k \in 1 .. Len(tasks') :
          \/ k \in 1 .. Len(tasks) /\ tasks'[k] = tasks[k]
          \/ k = Len(tasks) + 1 /\ tasks'[k] = u
    BY <1>0, <2>1
  <2> QED BY <2>1, <2>2, <2>4, <2>5 DEF SigningOnce
<1>3. ASSUME NEW c \in Conn, NEW r \in Room, ReadJoin(c, r) \/ ReadText(c, r)
      PROVE  SigningOnce'
  <2>1. PICK u : tasks' = Append(tasks, u) /\ u \in Tasks /\ u.op # "auth"
    <3>1. texts[c] + 1 \in Nat
      BY DEF TypeOK, ClientOK
    <3>2. /\ Task("join", c, r, 0, TRUE) \in Tasks
          /\ Task("join", c, r, 0, TRUE).op # "auth"
          /\ Task("text", c, r, texts[c] + 1, TRUE) \in Tasks
          /\ Task("text", c, r, texts[c] + 1, TRUE).op # "auth"
      BY <3>1 DEF Task, Tasks
    <3> QED BY <1>3, <3>2 DEF ReadJoin, ReadText, Post
  <2>2. tasks' = tasks \o <<u>> /\ <<u>> \in Seq(Tasks)
    BY <1>0, <2>1
  <2>3. UNCHANGED <<pc, job>>
    BY <1>3 DEF ReadJoin, ReadText, Post, workerVars
  <2>4. \A k \in 1 .. Len(<<u>>) : <<u>>[k].op # "auth"
    BY <2>1
  <2> QED BY <2>2, <2>3, <2>4, SigningKept
<1>4. ASSUME NEW w \in Worker, Take(w) PROVE SigningOnce'
  <2>1. tasks # <<>> /\ tasks' = Tail(tasks) /\ pc[w] = "idle"
    BY <1>4 DEF Take
  <2>2. /\ 1 \in 1 .. Len(tasks) /\ Head(tasks) = tasks[1] /\ Head(tasks) \in Tasks
        /\ \A k \in 1 .. Len(tasks') : k + 1 \in 1 .. Len(tasks) /\ tasks'[k] = tasks[k + 1]
    BY <1>0, <2>1
  <2>3. /\ pc'[w] = FirstStep(tasks[1].op) /\ job'[w] = tasks[1]
        /\ \A v \in Worker \ {w} : pc'[v] = pc[v] /\ job'[v] = job[v]
    BY <1>4, <2>2 DEF Take, Goto, TypeOK, WorkersOK
  <2>4. pc'[w] = "auth" => tasks[1].op = "auth"
    BY <2>2, <2>3 DEF FirstStep, Tasks
  <2>5. \A k \in 1 .. Len(tasks') : k + 1 # 1
    BY <1>0
  <2>6. \A j, k \in 1 .. Len(tasks') :
          tasks'[j].op = "auth" /\ tasks'[k].op = "auth" /\ tasks'[j].conn = tasks'[k].conn
            => j = k
    <3> SUFFICES ASSUME NEW j \in 1 .. Len(tasks'), NEW k \in 1 .. Len(tasks'),
                        tasks'[j].op = "auth", tasks'[k].op = "auth",
                        tasks'[j].conn = tasks'[k].conn
                 PROVE  j = k
      OBVIOUS
    <3>1. j + 1 = k + 1
      BY <2>2 DEF SigningOnce
    <3> QED BY <3>1
  <2>7. \A k \in 1 .. Len(tasks'), v \in Worker :
          tasks'[k].op = "auth" /\ pc'[v] = "auth" => tasks'[k].conn # job'[v].conn
    BY <2>2, <2>3, <2>4, <2>5 DEF SigningOnce
  <2>8. \A u, v \in Worker :
          pc'[u] = "auth" /\ pc'[v] = "auth" /\ job'[u].conn = job'[v].conn => u = v
    BY <2>2, <2>3, <2>4 DEF SigningOnce
  <2> QED BY <2>6, <2>7, <2>8 DEF SigningOnce
<1>5. ASSUME NEW w \in Worker, Run(w) PROVE SigningOnce'
  <2>1. ASSUME NEW ts \in Seq(Tasks), Finish(w, ts), \A k \in 1 .. Len(ts) : ts[k].op # "auth"
        PROVE  SigningOnce'
    <3>1. \A v \in Worker : pc'[v] = "auth" => pc[v] = "auth" /\ job'[v] = job[v]
      BY <2>1 DEF Finish, Goto, TypeOK, WorkersOK
    <3> QED BY <2>1, <3>1, SigningKept DEF Finish
  <2>2. ASSUME SendAnswer(w) \/ Save(w) PROVE SigningOnce'
    <3>1. Finish(w, <<>>)
      BY <2>2 DEF SendAnswer, Save
    <3>2. <<>> \in Seq(Tasks) /\ \A k \in 1 .. Len(<<>>) : <<>>[k].op # "auth"
      OBVIOUS
    <3>3. ASSUME NEW ts, ts = <<>>, Finish(w, ts) PROVE SigningOnce'
      <4>1. ts \in Seq(Tasks) /\ \A k \in 1 .. Len(ts) : ts[k].op # "auth"
        BY <3>3
      <4> QED BY <2>1, <3>3, <4>1
    <3> QED BY <3>1, <3>3
  <2>3. ASSUME NEW u \in Tasks, u.op # "auth", Finish(w, <<u>>) PROVE SigningOnce'
    <3>1. <<u>> \in Seq(Tasks) /\ \A k \in 1 .. Len(<<u>>) : <<u>>[k].op # "auth"
      BY <2>3
    <3> QED BY <2>1, <2>3, <3>1
  <2>4. CASE DoAutorisation(w)
    <3>1. job[w].conn \in Conn
      BY <2>4, JobType DEF DoAutorisation, TypeOK
    <3>2. PICK i : Finish(w, <<Task("authReply", job[w].conn, NoRoom, 0, i # -1)>>)
      BY <2>4 DEF DoAutorisation
    <3>3. ASSUME NEW b \in BOOLEAN
          PROVE  /\ Task("authReply", job[w].conn, NoRoom, 0, b) \in Tasks
                 /\ Task("authReply", job[w].conn, NoRoom, 0, b).op # "auth"
      BY <3>1 DEF Task, Tasks
    <3> QED BY <2>3, <3>2, <3>3
  <2>5. CASE ReplyJoin(w)
    <3> DEFINE u == Task("joinReply", job[w].conn, room_id[job[w].conn], 0, job[w].ok)
    <3>1. job[w].conn \in Conn /\ job[w].ok \in BOOLEAN
      BY <2>5, JobType DEF ReplyJoin, TypeOK
    <3>2. room_id[job[w].conn] \in Room \cup {NoRoom}
      BY <3>1 DEF TypeOK, ConnOK
    <3>3. u \in Tasks /\ u.op # "auth" /\ Finish(w, <<u>>)
      BY <2>5, <3>1, <3>2 DEF Task, Tasks, ReplyJoin
    <3> HIDE DEF u
    <3> QED BY <2>3, <3>3
  <2>6. CASE Lined(w)
    <3>1. PICK l \in Lines \ {"idle", "auth", "enter"} : Goto(w, l)
      BY <2>6, LinedGoto
    <3>2. UNCHANGED tasks
      BY <2>6, LinedGoto
    <3>3. \A v \in Worker \ {w} : job'[v] = job[v]
      <4>1. CASE Create(w)
        BY <4>1 DEF Create, TypeOK, WorkersOK
      <4>2. CASE ~Create(w)
        BY <2>6, <4>2, LinedGoto
      <4> QED BY <4>1, <4>2
    <3>4. \A v \in Worker : pc'[v] = "auth" => pc[v] = "auth" /\ job'[v] = job[v]
      BY <3>1, <3>3 DEF Goto, TypeOK, WorkersOK
    <3>5. tasks' = tasks \o <<>> /\ \A k \in 1 .. Len(<<>>) : <<>>[k].op # "auth"
      BY <1>0, <3>2
    <3> QED BY <1>0, <3>4, <3>5, SigningKept
  <2> QED BY <1>1, <1>5, <2>2, <2>4, <2>5, <2>6, RunIs
<1> QED BY <1>1, <1>2, <1>3, <1>4, <1>5, WritersNext DEF Writers

LEMMA SigningInvNext == ASSUME Inv, [Next]_vars PROVE SigningInv'
<1> USE DEF Inv
<1> SUFFICES ASSUME NEW t \in Pending', t.op = "auth", LetIn(t.conn)'
             PROVE  FALSE
  BY DEF SigningInv
<1>1. CASE t \in Pending
  <2>1. t.conn \in Conn /\ ~LetIn(t.conn)
    BY <1>1, PendingConn DEF SigningInv
  <2>2. PICK w \in Worker : DoAutorisation(w) /\ job[w].conn = t.conn
    BY <2>1, LetInNext
  <2>3. pc[w] = "auth" /\ job[w].op = "auth"
    BY <2>2, LineType DEF DoAutorisation, TypeOK
  <2>4. PICK i : Finish(w, <<Task("authReply", job[w].conn, NoRoom, 0, i # -1)>>)
    BY <2>2 DEF DoAutorisation
  <2>5. /\ \A v \in Worker : v # w => pc'[v] = pc[v] /\ job'[v] = job[v]
        /\ pc'[w] = "idle"
        /\ tasks' = tasks \o <<Task("authReply", job[w].conn, NoRoom, 0, i # -1)>>
    BY <2>4 DEF Finish, Goto, TypeOK, WorkersOK
  <2>6. CASE \E v \in Worker : pc'[v] # "idle" /\ t = job'[v]
    <3>1. PICK v \in Worker : pc'[v] # "idle" /\ t = job'[v]
      BY <2>6
    <3>2. v # w /\ pc[v] # "idle" /\ t = job[v]
      BY <2>5, <3>1
    <3>3. pc[v] = "auth"
      BY <3>2 DEF TypeOK, WorkersOK, WorkerOK, LinesOf
    <3> QED BY <2>2, <2>3, <3>2, <3>3 DEF SigningOnce
  <2>7. CASE \E k \in 1 .. Len(tasks') : t = tasks'[k]
    <3>1. PICK k \in 1 .. Len(tasks') : t = tasks'[k]
      BY <2>7
    <3> DEFINE u == Task("authReply", job[w].conn, NoRoom, 0, i # -1)
    <3>2. u.op = "authReply"
      BY DEF Task
    <3> HIDE DEF u
    <3>3. tasks \in Seq(Tasks) /\ tasks' = tasks \o <<u>>
      BY <2>5 DEF u, TypeOK, TasksOK
    <3>4. tasks'[k] = u \/ (k \in 1 .. Len(tasks) /\ tasks'[k] = tasks[k])
      BY <3>3
    <3>5. k \in 1 .. Len(tasks) /\ t = tasks[k]
      BY <3>1, <3>2, <3>4
    <3> QED BY <2>2, <2>3, <3>5 DEF SigningOnce
  <2> QED BY <2>6, <2>7 DEF Pending
<1>2. CASE t \notin Pending
  <2>1. t.conn \in Conn /\ ReadAuth(t.conn)
    BY <1>2, PendingNext
  <2>2. client[t.conn] = "new" /\ ~LetIn(t.conn)
    BY <2>1 DEF ReadAuth, OffInv, LetIn
  <2>3. PICK w \in Worker : DoAutorisation(w) /\ job[w].conn = t.conn
    BY <2>1, <2>2, LetInNext
  <2>4. job[w] \in Pending
    BY <2>3, RunningPending DEF DoAutorisation
  <2> QED BY <2>1, <2>2, <2>3, <2>4 DEF OffInv
<1> QED BY <1>1, <1>2

\* A user let in whose connection is still in service after the step has its own
\* id there before it.
LEMMA Served ==
  ASSUME Inv, [Next]_vars, NEW c \in Conn, Serving(c)', LetIn(c)
  PROVE  Serving(c) /\ OwnId(c)
<1>1. client[c] # "off"
  BY DEF Inv, OffInv, LetIn
<1>2. Serving(c) /\ c \in open
  BY <1>1, ServingNext
<1> QED BY <1>2 DEF Inv, OwnInv

\* The same of the user whose join a thread runs.
LEMMA ServedJoin ==
  ASSUME Inv, [Next]_vars, NEW w \in Worker, pc[w] # "idle", job[w].op = "join",
         NEW c, c = job[w].conn, Serving(c)'
  PROVE  /\ c \in Conn /\ job[w].room \in Room
         /\ Serving(c) /\ OwnId(c) /\ JoinAt(w, c, job[w].room)
<1>1. job[w] \in Pending /\ c \in Conn /\ job[w].room \in Room
  BY RunningPending, JobType DEF Inv, TypeOK
<1>2. LetIn(c)
  BY <1>1 DEF LetIn
<1>3. Serving(c) /\ OwnId(c)
  BY <1>1, <1>2, Served
<1> QED BY <1>1, <1>3 DEF Inv, JoinInv

\* room_id is set by a join and reset by free_connection only.
LEMMA RoomIdKept ==
  ASSUME Inv, [Next]_vars, NEW c \in Conn, Serving(c), Serving(c)'
  PROVE  \/ room_id'[c] = room_id[c]
         \/ \E w \in Worker : Record(w) /\ job[w].conn = c /\ room_id'[c] = job[w].room
<1> USE DEF Inv, TypeOK, ConnOK
<1>1. ASSUME NEW w \in Worker, Record(w)
      PROVE  room_id'[c] = room_id[c] \/ (job[w].conn = c /\ room_id'[c] = job[w].room)
  <2>1. job[w].conn \in Conn
    BY <1>1, RunningPending DEF Record
  <2> QED BY <1>1, <2>1 DEF Record
<1>2. ASSUME Close PROVE room_id'[c] = room_id[c]
  BY <1>2 DEF Close, Serving
<1> QED BY <1>1, <1>2, WritersNext DEF Writers

\* A thread at a line of a join took the step itself or kept its place.
LEMMA JoinStep ==
  ASSUME Inv, [Next]_vars, NEW w \in Worker, pc'[w] # "idle", job'[w].op = "join"
  PROVE  \/ pc'[w] = "enter"
         \/ /\ pc[w] # "idle" /\ job[w].op = "join"
            /\ job'[w].conn = job[w].conn /\ job'[w].room = job[w].room
            /\ (pc'[w] = pc[w] /\ job'[w].ok = job[w].ok) \/ Lined(w)
<1> USE DEF Inv, TypeOK, WorkersOK
<1>1. CASE UNCHANGED <<pc, job>>
  BY <1>1
<1>2. ASSUME NEW c \in Conn, ReadAuth(c) \/ \E r \in Room : ReadJoin(c, r) \/ ReadText(c, r)
      PROVE  UNCHANGED <<pc, job>>
  BY <1>2 DEF ReadAuth, ReadJoin, ReadText, Post, workerVars
<1>3. ASSUME NEW v \in Worker, v # w, Take(v) \/ Run(v)
      PROVE  pc'[w] = pc[w] /\ job'[w] = job[w]
  <2>1. CASE Take(v)
    BY <1>3, <2>1 DEF Take, Goto
  <2>2. CASE DoAutorisation(v) \/ SendAnswer(v) \/ ReplyJoin(v) \/ Save(v)
    BY <1>3, <2>2 DEF DoAutorisation, SendAnswer, ReplyJoin, Save, Goto, Finish
  <2>3. CASE Lined(v) /\ ~Create(v)
    BY <1>3, <2>3, LinedGoto DEF Goto
  <2>4. CASE Create(v)
    <3>1. UNCHANGED job \/ job' = [job EXCEPT ![v].ok = FALSE]
      BY <2>4 DEF Create
    <3>2. \E l : Goto(v, l)
      BY <2>4 DEF Create
    <3> QED BY <1>3, <3>1, <3>2 DEF Goto
  <2> QED BY <1>1, <1>3, <2>1, <2>2, <2>3, <2>4, RunIs
<1>4. ASSUME Take(w) PROVE pc'[w] = "enter"
  BY <1>4 DEF Take, Goto, FirstStep
<1>5. ASSUME DoAutorisation(w) \/ SendAnswer(w) \/ ReplyJoin(w) \/ Save(w) PROVE FALSE
  BY <1>5 DEF DoAutorisation, SendAnswer, ReplyJoin, Save, Goto, Finish
<1>6. ASSUME Lined(w), ~Create(w) PROVE pc[w] # "idle" /\ job' = job
  BY <1>6, LinedGoto
<1>7. ASSUME Create(w)
      PROVE  /\ pc[w] # "idle" /\ job[w].op = "join"
             /\ job'[w].conn = job[w].conn /\ job'[w].room = job[w].room
  <2>1. pc[w] # "idle" /\ job[w].op = "join" /\ job[w] \in Tasks
    BY <1>7, LineType, JobType DEF Create
  <2>2. CASE UNCHANGED job
    BY <2>1, <2>2
  <2>3. CASE job' = [job EXCEPT ![w].ok = FALSE]
    <3>1. job'[w] = [job[w] EXCEPT !.ok = FALSE]
      BY <2>3
    <3> QED BY <2>1, <3>1 DEF Tasks
  <2> QED BY <1>7, <2>1, <2>2, <2>3 DEF Create
<1>8. ASSUME NEW v \in Worker, Take(v) \/ Run(v)
      PROVE  \/ pc'[w] = pc[w] /\ job'[w] = job[w]
             \/ pc'[w] = "enter"
             \/ /\ pc[w] # "idle" /\ job[w].op = "join"
                /\ job'[w].conn = job[w].conn /\ job'[w].room = job[w].room
                /\ Lined(w)
  <2>1. CASE v # w
    BY <1>3, <1>8, <2>1
  <2>2. CASE Take(w)
    BY <1>4, <2>2
  <2>3. ASSUME Lined(w)
        PROVE  /\ pc[w] # "idle" /\ job[w].op = "join"
               /\ job'[w].conn = job[w].conn /\ job'[w].room = job[w].room
    BY <1>6, <1>7, <2>3
  <2>4. ASSUME Run(w) PROVE Lined(w) \/ UNCHANGED <<pc, job>>
    BY <1>5, <2>4, RunIs
  <2> QED BY <1>8, <2>1, <2>2, <2>3, <2>4
<1> QED BY <1>1, <1>2, <1>8, WritersNext DEF Writers

LEMMA JoinInvNext == ASSUME Inv, OneConnectionEach, [Next]_vars PROVE JoinInv'
<1> SUFFICES ASSUME NEW w \in Worker, NEW c, NEW r, c = job'[w].conn, r = job'[w].room,
                    pc'[w] # "idle", job'[w].op = "join", Serving(c)'
             PROVE  JoinAt(w, c, r)'
  BY DEF JoinInv, JoinAt, InRoomAt, Serving
<1> DEFINE i == AccountOf[c]
<1>1. CASE pc'[w] = "enter"
  BY <1>1 DEF JoinAt
<1>2. CASE pc'[w] # "enter"
  <2>1. /\ pc[w] # "idle" /\ job[w].op = "join" /\ c = job[w].conn /\ r = job[w].room
        /\ (pc'[w] = pc[w] /\ job'[w].ok = job[w].ok) \/ Lined(w)
    BY <1>2, JoinStep
  <2>2. c \in Conn /\ r \in Room /\ Serving(c) /\ OwnId(c) /\ JoinAt(w, c, r)
    BY <2>1, ServedJoin
  <2>3. i \in Account /\ client_id[c] = i /\ i \in Id
    BY <2>2 DEF OwnId, Id
  <2>4. /\ r \in channels => r \in channels'
        /\ InRoomAt(c, r) => InRoomAt(c, r)'
    BY <2>2, <2>3, RoomNext
  <2>5. \A l : Goto(w, l) => pc'[w] = l
    BY DEF Goto, Inv, TypeOK, WorkersOK
  <2>6. CASE pc'[w] = pc[w] /\ job'[w].ok = job[w].ok
    <3>1. room_id[c] # NoRoom => room_id'[c] # NoRoom
      <4>1. \A v \in Worker : Record(v) => job[v].room # NoRoom
        BY LineType, JobType, NoneAssumption DEF Record, Inv, TypeOK
      <4> QED BY <2>2, <4>1, RoomIdKept
    <3> QED BY <1>2, <2>2, <2>4, <2>6, <3>1 DEF JoinAt
  <2>7. CASE Enter(w) \/ EmplaceEntry(w) \/ Push(w) \/ Load(w)
    <3>1. pc'[w] \in {"push", "emplace", "find", "create"}
      BY <2>5, <2>7 DEF Enter, EmplaceEntry, Push, Load
    <3> QED BY <3>1 DEF JoinAt
  <2>8. CASE Find(w)
    <3>1. pc'[w] = IF r \in channels THEN "replay" ELSE "load"
      BY <2>1, <2>5, <2>8 DEF Find, JoinNext
    <3> QED BY <2>4, <3>1 DEF JoinAt
  <2>9. CASE Create(w)
    <3>2. CASE r \in channels
      <4>1. pc'[w] = "reply" /\ job' = [job EXCEPT ![w].ok = FALSE]
        BY <2>1, <2>5, <2>9, <3>2 DEF Create
      <4>2. job[w] \in Tasks
        BY <2>1, JobType DEF Inv, TypeOK
      <4>3. job'[w].ok = FALSE
        BY <4>1, <4>2 DEF Tasks, Inv, TypeOK, WorkersOK
      <4> QED BY <4>1, <4>3 DEF JoinAt
    <3>3. CASE r \notin channels
      <4>1. pc'[w] = "replay" /\ r \in channels'
        BY <2>1, <2>5, <2>9, <3>3 DEF Create, JoinNext
      <4> QED BY <4>1 DEF JoinAt
    <3> QED BY <3>2, <3>3
  <2>10. CASE Replay(w) \/ Resend(w)
    <3>1. pc[w] \in {"replay", "resend"} /\ pc'[w] \in {"resend", "subscribe"}
      BY <2>5, <2>10 DEF Replay, Resend, Resume, JoinNext
    <3> QED BY <2>2, <2>4, <3>1 DEF JoinAt
  <2>11. CASE Subscribe(w)
    <3>1. pc[w] = "subscribe" /\ pc'[w] = "notify"
      BY <2>5, <2>11 DEF Subscribe, JoinNext
    <3>2. subscribers[r][i] \in {NoConn, c}
      <4>1. subscribers[r][i] \in Conn \cup {NoConn}
        BY <2>2, <2>3 DEF Inv, TypeOK, ChannelOK
      <4>2. \A d \in Conn : subscribers[r][i] = d => i = AccountOf[d]
        BY <2>2, <2>3 DEF Inv, KeyInv
      <4>3. i # -1
        BY <2>3, IdAssumption
      <4> QED BY <2>2, <4>1, <4>2, <4>3 DEF OneConnectionEach
    <3>3. subscribers'[r][i] = c
      BY <2>1, <2>2, <2>3, <2>11, <3>2 DEF Subscribe, Inv, TypeOK, ChannelOK
    <3>4. r \in channels'
      BY <2>2, <2>4, <3>1 DEF JoinAt
    <3> QED BY <3>1, <3>3, <3>4 DEF JoinAt, InRoomAt
  <2>12. CASE Notify(w)
    <3>1. pc[w] = "notify" /\ pc'[w] = "send"
      BY <2>5, <2>12 DEF Notify
    <3> QED BY <2>2, <2>4, <3>1 DEF JoinAt
  <2>13. CASE LogMessage(w)
    <3>1. pc[w] = "send" /\ pc'[w] = "record"
      BY <2>1, <2>5, <2>13 DEF LogMessage
    <3> QED BY <2>2, <2>4, <3>1 DEF JoinAt
  <2>14. CASE Record(w)
    <3>1. pc[w] = "record" /\ pc'[w] = "reply"
      BY <2>5, <2>14 DEF Record
    <3>2. room_id'[c] = r
      BY <2>1, <2>2, <2>14 DEF Record, Inv, TypeOK, ConnOK
    <3> QED BY <2>2, <2>4, <3>1, <3>2, NoneAssumption DEF JoinAt
  <2> QED BY <2>1, <2>6, <2>7, <2>8, <2>9, <2>10, <2>11, <2>12, <2>13, <2>14 DEF Lined
<1> QED BY <1>1, <1>2

LEMMA RoomIdInvNext == ASSUME Inv, OneConnectionEach, [Next]_vars PROVE RoomIdInv'
<1> SUFFICES ASSUME NEW c \in Conn, NEW r, r = room_id'[c], Serving(c)', r # NoRoom
             PROVE  InRoomAt(c, r)'
  BY DEF RoomIdInv, InRoomAt, Serving
<1>1. ASSUME NEW w \in Worker, Record(w), job[w].conn = c, room_id'[c] = job[w].room
      PROVE  InRoomAt(c, r)'
  <2>1. pc[w] = "record" /\ job[w].op = "join"
    BY <1>1, LineType DEF Record, Inv, TypeOK
  <2>2. Serving(c) /\ OwnId(c) /\ JoinAt(w, c, r)
    BY <1>1, <2>1, ServedJoin
  <2>3. InRoomAt(c, r)
    BY <2>1, <2>2 DEF JoinAt
  <2> QED BY <2>2, <2>3, RoomNext DEF OwnId
<1>2. CASE room_id[c] # NoRoom
  <2>1. Serving(c) /\ OwnId(c)
    BY <1>2, Served DEF LetIn
  <2>2. CASE room_id'[c] = room_id[c]
    <3>1. InRoomAt(c, r)
      BY <2>1, <2>2 DEF Inv, RoomIdInv
    <3> QED BY <2>1, <3>1, RoomNext DEF OwnId
  <2> QED BY <1>1, <2>1, <2>2, RoomIdKept
<1>3. CASE room_id[c] = NoRoom
  <2>1. ASSUME NEW w \in Worker, Record(w) PROVE job[w].conn = c /\ room_id'[c] = job[w].room
    <3>1. job[w].conn \in Conn
      BY <2>1, RunningPending DEF Record, Inv
    <3> QED BY <1>3, <2>1, <3>1 DEF Record, Inv, TypeOK, ConnOK
  <2>2. ~Close
    BY <1>3 DEF Close, Inv, TypeOK, ConnOK
  <2> QED BY <1>1, <1>3, <2>1, <2>2, WritersNext DEF Writers
<1> QED BY <1>2, <1>3

LEMMA ReplyInvNext == ASSUME Inv, OneConnectionEach, [Next]_vars PROVE ReplyInv'
<1> SUFFICES ASSUME NEW t \in Pending', t.op = "joinReply", t.ok, Serving(t.conn)'
             PROVE  InRoomAt(t.conn, t.room)'
  BY DEF ReplyInv
<1>1. CASE t \in Pending
  <2>1. t.conn \in Conn /\ LetIn(t.conn)
    BY <1>1, PendingConn DEF Inv, LetIn
  <2>2. Serving(t.conn) /\ OwnId(t.conn)
    BY <2>1, Served
  <2>3. InRoomAt(t.conn, t.room)
    BY <1>1, <2>2 DEF Inv, ReplyInv
  <2> QED BY <2>1, <2>2, <2>3, RoomNext DEF OwnId
<1>2. ASSUME NEW w \in Worker, ReplyJoin(w), t.conn = job[w].conn, t.room = room_id[t.conn],
             t.ok = job[w].ok
      PROVE  InRoomAt(t.conn, t.room)'
  <2>1. pc[w] = "reply" /\ job[w].op = "join"
    BY <1>2, LineType DEF ReplyJoin, Inv, TypeOK
  <2>2. t.conn \in Conn /\ Serving(t.conn) /\ OwnId(t.conn) /\ JoinAt(w, t.conn, job[w].room)
    BY <1>2, <2>1, ServedJoin
  <2>3. room_id[t.conn] # NoRoom
    BY <1>2, <2>1, <2>2 DEF JoinAt
  <2>4. InRoomAt(t.conn, t.room)
    BY <1>2, <2>2, <2>3 DEF Inv, RoomIdInv
  <2> QED BY <2>2, <2>4, RoomNext DEF OwnId
<1> QED BY <1>1, <1>2, PendingNext DEF Inv

LEMMA ToldInvNext == ASSUME Inv, OneConnectionEach, [Next]_vars PROVE ToldInv'
<1> SUFFICES ASSUME NEW c \in Conn, Serving(c)', NEW r \in told'[c]
             PROVE  InRoomAt(c, r)'
  BY DEF ToldInv
<1>1. CASE r \in told[c]
  <2>1. Serving(c) /\ OwnId(c)
    BY <1>1, Served DEF LetIn
  <2>2. InRoomAt(c, r)
    BY <1>1, <2>1 DEF Inv, ToldInv
  <2> QED BY <2>1, <2>2, RoomNext DEF OwnId
<1>2. CASE r \notin told[c]
  <2>1. PICK w \in Worker : SendAnswer(w)
    BY <1>2, WritersNext DEF Writers
  <2>2. pc[w] \in {"authReply", "joinReply"} /\ job[w] \in Pending
    BY <2>1, RunningPending DEF SendAnswer, Inv
  <2>3. pc[w] = "joinReply" /\ JoinAnswered(job[w].conn, job[w].room, job[w].ok)
    BY <1>2, <2>1 DEF SendAnswer, AuthAnswered, AnswerLost, clientVars
  <2>4. job[w].conn = c /\ job[w].ok /\ job[w].room = r
    BY <1>2, <2>3 DEF JoinAnswered, AnswerLost, clientVars, Inv, TypeOK, ClientOK
  <2>5. job[w].op = "joinReply"
    BY <2>3, LineType DEF Inv, TypeOK
  <2>6. Serving(c) /\ OwnId(c)
    BY <2>2, <2>4, <2>5, Served DEF LetIn
  <2>7. InRoomAt(c, r)
    BY <2>2, <2>4, <2>5, <2>6 DEF Inv, ReplyInv
  <2> QED BY <2>6, <2>7, RoomNext DEF OwnId
<1> QED BY <1>1, <1>2

LEMMA StrayInvNext == ASSUME Inv, [Next]_vars PROVE StrayInv'
<1> SUFFICES ASSUME NEW c \in Conn, client'[c] = "off" \/ Serving(c)',
                    NEW r \in Room, NEW i \in Id \ Account
             PROVE  subscribers'[r][i] # c
  BY DEF StrayInv, Serving
<1>1. subscribers[r][i] # c
  BY ServingNext DEF Inv, StrayInv
<1>2. ASSUME NEW w \in Worker, Subscribe(w) PROVE subscribers'[r][i] # c
  <2>1. job[w].op = "join" /\ job[w] \in Pending /\ job[w].room \in Room /\ job[w].conn \in Conn
    BY <1>2, LineType, JobType, RunningPending DEF Subscribe, Inv, TypeOK
  <2>2. CASE job[w].conn # c
    BY <1>1, <1>2, <2>2, SubscribeIs DEF Inv
  <2>3. CASE job[w].conn = c
    <3>1. client[c] # "off"
      BY <2>1, <2>3 DEF Inv, OffInv
    <3>2. OwnId(c)
      BY <1>2, <2>1, <2>3, <3>1, ServingNext, ServedJoin DEF Subscribe
    <3> QED BY <1>1, <1>2, <2>3, <3>2, SubscribeIs DEF OwnId, Inv
  <2> QED BY <2>2, <2>3
<1>3. ASSUME Erase PROVE subscribers'[r][i] # c
  <2>1. leaving \in Room /\ free_id \in Id
    BY <1>3 DEF Erase, Inv, TypeOK, FreeOK
  <2> QED BY <1>1, <1>3, <2>1, NoneAssumption DEF Erase, Inv, TypeOK, ChannelOK
<1> QED BY <1>1, <1>2, <1>3, WritersNext DEF Writers

LEMMA InvInit == Init => Inv
<1> SUFFICES ASSUME Init PROVE Inv
  OBVIOUS
<1>1. TypeOK
  BY TypeInit
<1>2. Pending = {}
  BY DEF Init, Pending
<1>3. \A c \in Conn : ~Serving(c) /\ c \notin open
  BY DEF Init, Serving
<1>4. OffInv /\ IdInv /\ FreeIdInv
  BY <1>2 DEF Init, OffInv, IdInv, FreeIdInv, IdOf
<1>5. \A r \in Room, i \in Id : subscribers[r][i] = NoConn
  BY DEF Init, NoSubscribers
<1>6. KeyInv /\ StrayInv
  BY <1>5, NoneAssumption DEF KeyInv, StrayInv, Id
<1>8. SigningOnce /\ SigningInv
  BY <1>2 DEF Init, SigningOnce, SigningInv
<1>7. OwnInv /\ JoinInv /\ RoomIdInv /\ ReplyInv /\ ToldInv
  BY <1>2, <1>3 DEF Init, OwnInv, JoinInv, RoomIdInv, ReplyInv, ToldInv
<1> QED BY <1>1, <1>4, <1>6, <1>7, <1>8 DEF Inv

LEMMA InvNext == ASSUME OneConnectionEach, Inv, [Next]_vars PROVE Inv'
<1>1. TypeOK'
  BY TypeNext DEF Inv
<1> QED BY <1>1, OffNext, SigningOnceNext, SigningInvNext, OwnNext, IdNext, FreeIdNext, KeyNext, StrayInvNext, JoinInvNext,
           RoomIdInvNext, ReplyInvNext, ToldInvNext DEF Inv

--------------------------------------------------------------------------------
(* What follows from it.                                                         *)

LEMMA InvInRoom == Inv => InRoom
<1> SUFFICES ASSUME Inv, NEW c \in Conn, Serving(c), NEW r \in told[c]
             PROVE  /\ r \in channels
                    /\ subscribers[r][client_id[c]] = c
  BY DEF InRoom
<1>1. InRoomAt(c, r)
  BY DEF Inv, ToldInv
<1>2. client_id[c] = AccountOf[c]
  BY DEF Inv, OwnInv, OwnId, LetIn, Serving
<1> QED BY <1>1, <1>2 DEF InRoomAt

\* When each user has one connection and one id, every room a client was told it
\* joined has it subscribed, whatever joins, departures, refusals and failed writes
\* run beside ChannelsManager::join.
THEOREM MembersInRoom == ASSUME OneConnectionEach PROVE Spec => []InRoom
<1>1. Inv /\ [Next]_vars => Inv'
  BY InvNext
<1> QED BY <1>1, InvInit, InvInRoom, PTL DEF Spec

================================================================================
