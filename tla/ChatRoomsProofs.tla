---------------------------- MODULE ChatRoomsProofs ----------------------------
(* The type correctness of ChatRooms, action by action.                          *)
EXTENDS ChatRooms, TLAPS

LEMMA JobType ==
  ASSUME WorkersOK, NEW w \in Worker, pc[w] # "idle"
  PROVE  /\ job[w] \in Tasks /\ job[w].conn \in Conn
         /\ pc[w] \in LinesOf(job[w].op)
         /\ job[w].op \in {"auth", "authReply", "join", "joinReply", "text"}
         /\ job[w].op \in {"join", "text"} => job[w].room \in Room
         /\ job[w].room \in Room \cup {NoRoom}
         /\ job[w].n \in Nat /\ job[w].ok \in BOOLEAN
BY DEF WorkersOK, WorkerOK, Tasks

LEMMA LineType ==
  ASSUME WorkersOK, NEW w \in Worker
  PROVE  /\ pc[w] \in {"enter", "emplace", "push", "load", "create", "replay", "resend",
                     "subscribe", "record", "reply"} => job[w].op = "join"
         /\ pc[w] \in {"find", "notify", "send"} => job[w].op \in {"join", "text"}
         /\ pc[w] = "save" => job[w].op = "text"
         /\ pc[w] \in {"auth", "authReply", "joinReply"} => job[w].op = pc[w]
<1>1. CASE pc[w] = "idle"
  BY <1>1
<1>2. CASE pc[w] # "idle"
  BY <1>2, JobType DEF LinesOf
<1> QED BY <1>1, <1>2

LEMMA TaskType ==
  ASSUME NEW c \in Conn, NEW n \in Nat, NEW ok \in BOOLEAN
  PROVE  /\ \A r \in Room, op \in {"join", "text"} : Task(op, c, r, n, ok) \in Tasks
         /\ \A r \in Room \cup {NoRoom}, op \in {"auth", "authReply", "joinReply"} :
              Task(op, c, r, n, ok) \in Tasks
BY DEF Task, Tasks

LEMMA GotoType ==
  ASSUME WorkersOK, NEW w \in Worker, NEW l, pc[w] # "idle", l \in Lines,
         l \in LinesOf(job[w].op), Goto(w, l), UNCHANGED job
  PROVE  WorkersOK'
<1>1. job[w] \in Tasks
  BY JobType
<1> QED BY <1>1 DEF WorkersOK, WorkerOK, Goto

LEMMA FinishType ==
  ASSUME WorkersOK, TasksOK, NEW w \in Worker, NEW ts \in Seq(Tasks), Finish(w, ts)
  PROVE  WorkersOK' /\ TasksOK'
<1>1. TasksOK'
  BY DEF Finish, TasksOK
<1>2. pc' \in [Worker -> Lines] /\ job' \in [Worker -> Tasks \cup {NoTask}]
  <2>1. pc' = [pc EXCEPT ![w] = "idle"] /\ job' = [job EXCEPT ![w] = NoTask]
    BY DEF Finish, Goto
  <2>2. pc' \in [Worker -> Lines]
    BY <2>1 DEF WorkersOK, Lines
  <2>3. job' \in [Worker -> Tasks \cup {NoTask}]
    BY <2>1 DEF WorkersOK
  <2> QED BY <2>2, <2>3
<1>3. ASSUME NEW v \in Worker PROVE WorkerOK(v)'
  <2>1. CASE v = w
    BY <2>1 DEF Finish, Goto, WorkersOK, WorkerOK
  <2>2. CASE v # w
    BY <2>2 DEF Finish, Goto, WorkersOK, WorkerOK
  <2> QED BY <2>1, <2>2
<1> QED BY <1>1, <1>2, <1>3 DEF WorkersOK

LEMMA MessageType ==
  ASSUME WorkersOK, NEW w \in Worker, pc[w] \in {"notify", "send", "save"}
  PROVE  Message(job[w]) \in Msg
<1>1. job[w].op \in {"join", "text"} /\ pc[w] # "idle"
  BY LineType
<1> QED BY <1>1, JobType DEF Message, Text, Announcement, Msg

LEMMA HandType ==
  ASSUME SendOK, NEW c, NEW m \in Msg, Hand(c, m), UNCHANGED broken
  PROVE  SendOK'
<1>1. CASE c \in Conn
  <2>1. outbox[c] \in Seq(Msg)
    BY <1>1 DEF SendOK
  <2>2. Append(outbox[c], m) \in Seq(Msg)
    BY <2>1
  <2> QED BY <1>1, <2>2 DEF SendOK, Hand
<1>2. CASE c \notin Conn
  <2>1. outbox' = outbox
    BY <1>2 DEF SendOK, Hand
  <2> QED BY <2>1 DEF SendOK
<1> QED BY <1>1, <1>2

\* What a thread holds while it is at a line: messages to replay at "resend".
LEMMA HeldType ==
  ASSUME HeldOK, NEW w \in Worker, NEW l, Goto(w, l), pc \in [Worker -> Lines],
         UNCHANGED <<it, audience>>,
         NEW h \in Seq(Msg), history' = [history EXCEPT ![w] = h],
         l = "resend" => h # <<>>
  PROVE  HeldOK'
BY DEF HeldOK, Goto

LEMMA HeldGoto ==
  ASSUME HeldOK, NEW w \in Worker, NEW l, Goto(w, l), pc \in [Worker -> Lines],
         l # "resend", UNCHANGED history,
         it' \in [Worker -> Id \cup {NoId}], audience' \in [Worker -> SUBSET Conn]
  PROVE  HeldOK'
BY DEF HeldOK, Goto

\* A thread that is about to leave or to run no loop leaves the loops as they are.
LEMMA LoopGoto ==
  ASSUME LoopOK, NEW w \in Worker, NEW l, Goto(w, l), pc \in [Worker -> Lines],
         l # "send", UNCHANGED <<todo, subscribers, iopc, leaving>>,
         \A v \in Worker \ {w} : job'[v] = job[v]
  PROVE  LoopOK'
<1>1. ASSUME NEW v \in Worker, pc'[v] = "send" PROVE v # w /\ pc[v] = "send"
  BY <1>1 DEF Goto
<1> QED BY <1>1 DEF LoopOK

LEMMA LoopIo ==
  ASSUME LoopOK, UNCHANGED <<pc, job, todo, subscribers>>, iopc' # "send"
  PROVE  LoopOK'
BY DEF LoopOK

LEMMA BeginLoopType ==
  ASSUME LoopOK, ChannelOK, NEW t \in Thread, NEW r \in Room, BeginLoop(t, r)
  PROVE  /\ todo' \in [Thread -> SUBSET Id]
         /\ \A i \in todo'[t] : subscribers[r][i] \in Conn
         /\ \A u \in Thread \ {t} : todo'[u] = todo[u]
<1>1. \A i \in Id : subscribers[r][i] \in Conn \cup {NoConn}
  BY DEF ChannelOK
<1>2. {i \in Id : subscribers[r][i] # NoConn} \in SUBSET Id
  OBVIOUS
<1> QED BY <1>1, <1>2 DEF LoopOK, BeginLoop

LEMMA DeliverType ==
  ASSUME LoopOK, NEW t \in Thread, NEW i, NEW m, Deliver(t, i, m),
         UNCHANGED <<pc, job, subscribers, iopc, leaving>>
  PROVE  LoopOK'
<1>1. todo' = [todo EXCEPT ![t] = todo[t] \ {i}]
  BY DEF Deliver
<1>2. todo' \in [Thread -> SUBSET Id] /\ \A u \in Thread : todo'[u] \subseteq todo[u]
  BY <1>1 DEF LoopOK
<1>3. Worker \subseteq Thread /\ IO \in Thread
  BY DEF Thread
<1> QED BY <1>2, <1>3 DEF LoopOK

LEMMA LogType ==
  ASSUME ChannelOK, NEW m \in Msg, Log(m), UNCHANGED subscribers
  PROVE  ChannelOK'
<1>1. m.room \in Room
  BY DEF Msg
<1> QED BY <1>1 DEF ChannelOK, Log

LEMMA Frame ==
  /\ ClientOK /\ UNCHANGED clientVars => ClientOK'
  /\ ConnOK /\ UNCHANGED connVars => ConnOK'
  /\ SendOK /\ UNCHANGED sendVars => SendOK'
  /\ TasksOK /\ UNCHANGED tasks => TasksOK'
  /\ WorkersOK /\ UNCHANGED <<pc, job>> => WorkersOK'
  /\ HeldOK /\ UNCHANGED <<pc, it, history, audience>> => HeldOK'
  /\ LoopOK /\ UNCHANGED <<pc, job, todo, subscribers, iopc, leaving>> => LoopOK'
  /\ FreeOK /\ UNCHANGED freeVars => FreeOK'
  /\ ManagerOK /\ UNCHANGED managerVars => ManagerOK'
  /\ ChannelOK /\ UNCHANGED channelVars => ChannelOK'
  /\ DbOK /\ UNCHANGED dbVars => DbOK'
<1>1. ClientOK /\ UNCHANGED clientVars => ClientOK'
  BY DEF ClientOK, clientVars
<1>2. ConnOK /\ UNCHANGED connVars => ConnOK'
  BY DEF ConnOK, connVars
<1>3. SendOK /\ UNCHANGED sendVars => SendOK'
  BY DEF SendOK, sendVars
<1>4. TasksOK /\ UNCHANGED tasks => TasksOK'
  BY DEF TasksOK
<1>5. WorkersOK /\ UNCHANGED <<pc, job>> => WorkersOK'
  BY DEF WorkersOK, WorkerOK
<1>6. HeldOK /\ UNCHANGED <<pc, it, history, audience>> => HeldOK'
  BY DEF HeldOK
<1>7. LoopOK /\ UNCHANGED <<pc, job, todo, subscribers, iopc, leaving>> => LoopOK'
  BY DEF LoopOK
<1>8. FreeOK /\ UNCHANGED freeVars => FreeOK'
  BY DEF FreeOK, freeVars
<1>9. ManagerOK /\ UNCHANGED managerVars => ManagerOK'
  BY DEF ManagerOK, managerVars
<1>10. ChannelOK /\ UNCHANGED channelVars => ChannelOK'
  BY DEF ChannelOK, channelVars
<1>11. DbOK /\ UNCHANGED dbVars => DbOK'
  BY DEF DbOK, dbVars
<1> QED BY <1>1, <1>2, <1>3, <1>4, <1>5, <1>6, <1>7, <1>8, <1>9, <1>10, <1>11

LEMMA PostType ==
  ASSUME TypeOK, NEW c \in Conn, NEW t \in Tasks, Post(c, t), ClientOK'
  PROVE  TypeOK'
<1>1. TasksOK'
  BY DEF TypeOK, TasksOK, Post
<1> QED BY <1>1, Frame DEF TypeOK, Post, workerVars, channelVars, freeVars

LEMMA TypeAccept == ASSUME TypeOK, NEW c \in Conn, Accept(c) PROVE TypeOK'
<1>1. ClientOK'
  BY DEF TypeOK, ClientOK, Accept
<1>2. ConnOK'
  BY DEF TypeOK, ConnOK, Accept
<1> QED BY <1>1, <1>2, Frame DEF TypeOK, Accept, workerVars, channelVars, freeVars

LEMMA TypeReadAuth == ASSUME TypeOK, NEW c \in Conn, ReadAuth(c) PROVE TypeOK'
<1>1. ClientOK'
  BY DEF TypeOK, ClientOK, ReadAuth, Post
<1> QED BY <1>1, PostType, TaskType DEF ReadAuth

LEMMA TypeReadJoin ==
  ASSUME TypeOK, NEW c \in Conn, NEW r \in Room, ReadJoin(c, r) PROVE TypeOK'
<1>1. ClientOK'
  BY DEF TypeOK, ClientOK, ReadJoin, Post
<1> QED BY <1>1, PostType, TaskType DEF ReadJoin

LEMMA TypeReadText ==
  ASSUME TypeOK, NEW c \in Conn, NEW r \in Room, ReadText(c, r) PROVE TypeOK'
<1>2. texts[c] + 1 \in Nat
  BY DEF TypeOK, ClientOK
<1>3. Text(c, texts[c] + 1, r) \in Msg
  BY <1>2 DEF Text, Msg
<1>1. ClientOK'
  BY <1>2, <1>3 DEF TypeOK, ClientOK, ReadText, Post
<1> QED BY <1>1, <1>2, PostType, TaskType DEF ReadText

LEMMA TypeClientLeaves == ASSUME TypeOK, NEW c \in Conn, ClientLeaves(c) PROVE TypeOK'
<1>1. ClientOK'
  BY DEF TypeOK, ClientOK, ClientLeaves
<1> QED BY <1>1, Frame DEF TypeOK, ClientLeaves, workerVars, channelVars, freeVars

LEMMA TypeTake == ASSUME TypeOK, NEW w \in Worker, Take(w) PROVE TypeOK'
<1> DEFINE t == Head(tasks)
<1>1. t \in Tasks /\ TasksOK'
  BY DEF TypeOK, TasksOK, Take
<1>2. FirstStep(t.op) \in LinesOf(t.op) /\ FirstStep(t.op) \in Lines
  BY <1>1 DEF FirstStep, LinesOf, Lines, Tasks
<1>3. pc' = [pc EXCEPT ![w] = FirstStep(t.op)] /\ job' = [job EXCEPT ![w] = t]
  BY DEF Take, Goto
<1>4. WorkersOK'
  <2>1. pc' \in [Worker -> Lines] /\ job' \in [Worker -> Tasks \cup {NoTask}]
    BY <1>1, <1>2, <1>3 DEF TypeOK, WorkersOK
  <2>2. ASSUME NEW v \in Worker PROVE WorkerOK(v)'
    BY <1>1, <1>2, <1>3 DEF TypeOK, WorkersOK, WorkerOK
  <2> QED BY <2>1, <2>2 DEF WorkersOK
<1>5. FirstStep(t.op) \notin {"resend", "send"}
  BY <1>1 DEF FirstStep, Tasks
<1>6. HeldOK'
  BY <1>3, <1>5, HeldGoto DEF TypeOK, WorkersOK, HeldOK, Take
<1>7. LoopOK'
  <2>1. \A v \in Worker \ {w} : job'[v] = job[v]
    BY <1>3 DEF TypeOK, WorkersOK
  <2> QED BY <1>5, <2>1, LoopGoto DEF TypeOK, WorkersOK, Take, channelVars, freeVars
<1> QED BY <1>1, <1>4, <1>6, <1>7, Frame DEF TypeOK, Take, channelVars, freeVars

\* A thread that ends its task or goes to a line outside the loops leaves the rest.
LEMMA GotoRest ==
  ASSUME TypeOK, NEW w \in Worker, NEW l, Goto(w, l), l \notin {"resend", "send"},
         UNCHANGED <<history, todo, subscribers, iopc, leaving>>,
         it' \in [Worker -> Id \cup {NoId}], audience' \in [Worker -> SUBSET Conn],
         \A v \in Worker \ {w} : job'[v] = job[v]
  PROVE  HeldOK' /\ LoopOK'
BY HeldGoto, LoopGoto DEF TypeOK, WorkersOK

LEMMA FinishRest ==
  ASSUME TypeOK, NEW w \in Worker, NEW posted, Finish(w, posted),
         UNCHANGED <<todo, subscribers, iopc, leaving>>
  PROVE  HeldOK' /\ LoopOK'
<1>1. \A v \in Worker \ {w} : job'[v] = job[v]
  BY DEF TypeOK, WorkersOK, Finish
<1> QED BY <1>1, GotoRest DEF TypeOK, HeldOK, Finish

LEMMA StayRest ==
  ASSUME TypeOK, NEW w \in Worker, NEW l, Goto(w, l), l \notin {"resend", "send"},
         UNCHANGED <<job, it, history, audience, todo, subscribers, iopc, leaving>>
  PROVE  HeldOK' /\ LoopOK'
<1>1. \A v \in Worker \ {w} : job'[v] = job[v]
  OBVIOUS
<1> QED BY <1>1, GotoRest DEF TypeOK, HeldOK

LEMMA TypeDoAutorisation ==
  ASSUME TypeOK, NEW w \in Worker, DoAutorisation(w) PROVE TypeOK'
<1>1. job[w].conn \in Conn
  BY JobType DEF TypeOK, DoAutorisation
<1>2. PICK i \in Outcomes(job[w].conn) :
        /\ client_id' = [client_id EXCEPT ![job[w].conn] = i]
        /\ Finish(w, <<Task("authReply", job[w].conn, NoRoom, 0, i # -1)>>)
  BY DEF DoAutorisation
<1>3. i \in Id
  BY <1>1, IdAssumption DEF Outcomes, Id
<1>4. ConnOK'
  BY <1>2, <1>3 DEF TypeOK, ConnOK, DoAutorisation
<1>5. Task("authReply", job[w].conn, NoRoom, 0, i # -1) \in Tasks
  <2>1. ASSUME NEW b \in BOOLEAN
        PROVE  Task("authReply", job[w].conn, NoRoom, 0, b) \in Tasks
    BY <1>1 DEF Task, Tasks
  <2> QED BY <2>1
<1>6. WorkersOK' /\ TasksOK'
  <2>1. <<Task("authReply", job[w].conn, NoRoom, 0, i # -1)>> \in Seq(Tasks)
    BY <1>5
  <2> QED BY <1>2, <2>1, FinishType DEF TypeOK, DoAutorisation
<1>7. HeldOK' /\ LoopOK'
  BY <1>2, FinishRest DEF DoAutorisation, channelVars, freeVars
<1> QED BY <1>4, <1>6, <1>7, Frame DEF TypeOK, DoAutorisation, channelVars, freeVars

LEMMA TypeSendAnswer == ASSUME TypeOK, NEW w \in Worker, SendAnswer(w) PROVE TypeOK'
<1> DEFINE t == job[w]
<1>1. t.conn \in Conn /\ t.room \in Room \cup {NoRoom}
  BY JobType DEF TypeOK, SendAnswer
<1>2. ClientOK' /\ werr' \subseteq Conn
  <2>1. CASE AuthAnswered(t.conn, t.ok)
    BY <1>1, <2>1 DEF TypeOK, ClientOK, ConnOK, AuthAnswered, AnswerLost, clientVars
  <2>2. CASE JoinAnswered(t.conn, t.room, t.ok)
    <3>1. CASE AnswerLost(t.conn)
      BY <1>1, <3>1, Frame DEF TypeOK, ConnOK, AnswerLost
    <3>2. CASE ~AnswerLost(t.conn)
      <4>1. answered' \in [Conn -> Nat] /\ werr' \subseteq Conn
        BY <1>1, <2>2, <3>2 DEF TypeOK, ClientOK, ConnOK, JoinAnswered
      <4>2. told' \in [Conn -> SUBSET (Room \cup {NoRoom})]
        <5>1. told[t.conn] \subseteq Room \cup {NoRoom}
          BY <1>1 DEF TypeOK, ClientOK
        <5> DEFINE h == IF t.ok THEN told[t.conn] \cup {t.room}
                                ELSE told[t.conn]
        <5>2. h \in SUBSET (Room \cup {NoRoom})
          BY <1>1, <5>1
        <5>3. told' = [told EXCEPT ![t.conn] = h]
          BY <2>2, <3>2 DEF JoinAnswered
        <5> HIDE DEF h
        <5> QED BY <5>2, <5>3 DEF TypeOK, ClientOK
      <4>3. client' \in [Conn -> {"off", "new", "login", "in", "gone"}]
        <5>1. client[t.conn] \in {"off", "new", "login", "in", "gone"}
          BY <1>1 DEF TypeOK, ClientOK
        <5>2. client' = [client EXCEPT ![t.conn] = IF t.ok THEN client[t.conn] ELSE "gone"]
          BY <2>2, <3>2 DEF JoinAnswered
        <5> QED BY <5>1, <5>2 DEF TypeOK, ClientOK
      <4> QED BY <2>2, <3>2, <4>1, <4>2, <4>3 DEF TypeOK, ClientOK, JoinAnswered
    <3> QED BY <3>1, <3>2
  <2> QED BY <2>1, <2>2 DEF SendAnswer
<1>3. ConnOK'
  BY <1>2 DEF TypeOK, ConnOK, SendAnswer
<1>4. WorkersOK' /\ TasksOK'
  <2>1. <<>> \in Seq(Tasks)
    OBVIOUS
  <2> QED BY <2>1, FinishType DEF TypeOK, SendAnswer
<1>5. HeldOK' /\ LoopOK'
  BY FinishRest DEF SendAnswer, channelVars, freeVars
<1> QED BY <1>2, <1>3, <1>4, <1>5, Frame DEF TypeOK, SendAnswer, channelVars, freeVars

LEMMA TypeEnter == ASSUME TypeOK, NEW w \in Worker, Enter(w) PROVE TypeOK'
<1>1. job[w].op = "join" /\ job[w].conn \in Conn
  BY LineType, JobType DEF TypeOK, Enter
<1>2. client_id[job[w].conn] \in Id
  BY <1>1 DEF TypeOK, ConnOK
<1>3. it' \in [Worker -> Id \cup {NoId}]
  BY <1>2 DEF TypeOK, HeldOK, Enter
<1>4. PICK l \in {"push", "emplace"} : Goto(w, l)
  BY DEF Enter
<1>5. WorkersOK'
  BY <1>1, <1>4, GotoType DEF TypeOK, Enter, Lines, LinesOf
<1>6. HeldOK' /\ LoopOK'
  BY <1>3, <1>4, GotoRest DEF TypeOK, HeldOK, Enter, channelVars, freeVars
<1> QED BY <1>5, <1>6, Frame DEF TypeOK, Enter, channelVars, freeVars

LEMMA TypeEmplaceEntry ==
  ASSUME TypeOK, NEW w \in Worker, EmplaceEntry(w) PROVE TypeOK'
<1>1. job[w].op = "join" /\ job[w].conn \in Conn
  BY LineType, JobType DEF TypeOK, EmplaceEntry
<1>2. client_id[job[w].conn] \in Id
  BY <1>1 DEF TypeOK, ConnOK
<1>3. it' \in [Worker -> Id \cup {NoId}]
  BY <1>2 DEF TypeOK, HeldOK, EmplaceEntry
<1>4. PICK l \in {"push", "find"} : Goto(w, l)
  BY DEF EmplaceEntry
<1>5. WorkersOK'
  BY <1>1, <1>4, GotoType DEF TypeOK, EmplaceEntry, Lines, LinesOf
<1>6. HeldOK' /\ LoopOK'
  BY <1>3, <1>4, GotoRest DEF TypeOK, HeldOK, EmplaceEntry, channelVars, freeVars
<1>7. ManagerOK'
  BY <1>2 DEF TypeOK, ManagerOK, EmplaceEntry
<1> QED BY <1>5, <1>6, <1>7, Frame DEF TypeOK, EmplaceEntry, channelVars, freeVars

LEMMA TypePush == ASSUME TypeOK, NEW w \in Worker, Push(w) PROVE TypeOK'
<1>1. job[w].op = "join" /\ job[w].room \in Room
  BY LineType, JobType DEF TypeOK, Push
<1>2. WorkersOK'
  BY <1>1, GotoType DEF TypeOK, Push, Lines, LinesOf
<1>3. it' \in [Worker -> Id \cup {NoId}]
  BY DEF TypeOK, HeldOK, Push
<1>4. HeldOK' /\ LoopOK'
  BY <1>3, GotoRest DEF TypeOK, HeldOK, Push, channelVars, freeVars
<1>5. ManagerOK'
  <2>1. CASE it[w] = NoId
    BY <2>1 DEF TypeOK, ManagerOK, Push
  <2>2. CASE it[w] # NoId
    <3>1. client_in_rooms' =
            [client_in_rooms EXCEPT ![it[w]] = client_in_rooms[it[w]] \cup {job[w].room}]
      BY <2>2 DEF Push
    <3>2. it[w] \in Id
      BY <2>2 DEF TypeOK, HeldOK
    <3> QED BY <1>1, <3>1, <3>2 DEF TypeOK, ManagerOK, Push
  <2> QED BY <2>1, <2>2
<1> QED BY <1>2, <1>4, <1>5, Frame DEF TypeOK, Push, channelVars, freeVars

LEMMA TypeFind == ASSUME TypeOK, NEW w \in Worker, Find(w) PROVE TypeOK'
<1>1. job[w].op \in {"join", "text"}
  BY LineType DEF TypeOK, Find
<1>2. ASSUME NEW l, Goto(w, l), l \in LinesOf(job[w].op), l \in {"replay", "load", "notify", "save"}
      PROVE  WorkersOK' /\ HeldOK' /\ LoopOK'
  <2>1. WorkersOK'
    BY <1>2, GotoType DEF TypeOK, Find, Lines
  <2>2. HeldOK' /\ LoopOK'
    BY <1>2, StayRest DEF Find, channelVars, freeVars
  <2> QED BY <2>1, <2>2
<1>3. WorkersOK' /\ HeldOK' /\ LoopOK'
  <2>1. CASE job[w].op = "join"
    BY <2>1, <1>2 DEF Find, JoinNext, LinesOf
  <2>2. CASE job[w].op = "text"
    BY <2>2, <1>2 DEF Find, LinesOf
  <2> QED BY <1>1, <2>1, <2>2
<1> QED BY <1>3, Frame DEF TypeOK, Find, channelVars, freeVars

LEMMA TypeLoad == ASSUME TypeOK, NEW w \in Worker, Load(w) PROVE TypeOK'
<1>1. job[w].op = "join" /\ job[w].room \in Room
  BY LineType, JobType DEF TypeOK, Load
<1>2. WorkersOK'
  BY <1>1, GotoType DEF TypeOK, Load, Lines, LinesOf
<1>3. get_history(job[w].room) \in Seq(Msg)
  BY <1>1 DEF TypeOK, DbOK, get_history
<1>4. HeldOK'
  <2>1. Goto(w, "create") /\ UNCHANGED <<it, audience>>
    BY DEF Load
  <2>2. PICK h \in Seq(Msg) : history' = [history EXCEPT ![w] = h]
    BY <1>3 DEF Load
  <2>3. HeldOK /\ pc \in [Worker -> Lines] /\ ("create" = "resend" => h # <<>>)
    BY DEF TypeOK, WorkersOK
  <2> QED BY <2>1, <2>2, <2>3, HeldType
<1>5. LoopOK'
  BY LoopGoto DEF TypeOK, WorkersOK, Load, channelVars, freeVars
<1> QED BY <1>2, <1>4, <1>5, Frame DEF TypeOK, Load, channelVars, freeVars

LEMMA TypeCreate == ASSUME TypeOK, NEW w \in Worker, Create(w) PROVE TypeOK'
<1> DEFINE r == job[w].room
<1>1. job[w].op = "join" /\ r \in Room /\ job[w] \in Tasks
  BY LineType, JobType DEF TypeOK, Create
<1>2. \A v \in Worker \ {w} : job'[v] = job[v]
  BY DEF TypeOK, WorkersOK, Create
<1>3. PICK l \in {"replay", "reply"} : Goto(w, l)
  BY DEF Create, JoinNext
<1>4. HeldOK'
  <2>1. UNCHANGED <<it, audience>> /\ history' = [history EXCEPT ![w] = <<>>]
    BY DEF Create
  <2>2. <<>> \in Seq(Msg) /\ l # "resend"
    BY <1>3
  <2>3. HeldOK /\ pc \in [Worker -> Lines]
    BY DEF TypeOK, WorkersOK
  <2> QED BY <1>3, <2>1, <2>2, <2>3, HeldType
<1>5. LoopOK'
  BY <1>2, <1>3, LoopGoto DEF TypeOK, WorkersOK, Create, freeVars
<1>6. CASE r \notin channels
  <2>1. ManagerOK'
    BY <1>1, <1>6 DEF TypeOK, ManagerOK, Create
  <2>2. ChannelOK'
    BY <1>1, <1>6 DEF TypeOK, HeldOK, ChannelOK, Create
  <2>3. Goto(w, "replay") /\ UNCHANGED job
    BY <1>6 DEF Create, JoinNext
  <2>4. WorkersOK'
    BY <1>1, <2>3, GotoType DEF TypeOK, Create, Lines, LinesOf
  <2> QED BY <1>4, <1>5, <2>1, <2>2, <2>4, Frame DEF TypeOK, Create
<1>7. CASE r \in channels
  <2>1. ManagerOK' /\ ChannelOK'
    BY <1>7, Frame DEF TypeOK, Create, managerVars, channelVars
  <2>2. /\ pc' = [pc EXCEPT ![w] = "reply"]
        /\ job' = [job EXCEPT ![w] = [job[w] EXCEPT !.ok = FALSE]]
    BY <1>7 DEF Create, Goto
  <2>3. [job[w] EXCEPT !.ok = FALSE] \in Tasks /\ [job[w] EXCEPT !.ok = FALSE].op = "join"
    BY <1>1 DEF Tasks
  <2>4. pc' \in [Worker -> Lines] /\ job' \in [Worker -> Tasks \cup {NoTask}]
    BY <2>2, <2>3 DEF TypeOK, WorkersOK, Lines
  <2>5. ASSUME NEW v \in Worker PROVE WorkerOK(v)'
    BY <2>2, <2>3 DEF TypeOK, WorkersOK, WorkerOK, LinesOf
  <2>6. WorkersOK'
    BY <2>4, <2>5 DEF WorkersOK
  <2> QED BY <1>4, <1>5, <2>1, <2>6, Frame DEF TypeOK, Create
<1> QED BY <1>6, <1>7

\* Where the replay goes on, with messages left or without.
LEMMA ResumeType ==
  ASSUME TypeOK, NEW w \in Worker, job[w].op = "join", pc[w] # "idle",
         NEW h \in Seq(Msg), history' = [history EXCEPT ![w] = h], Resume(w),
         UNCHANGED <<job, it, audience, todo, subscribers, iopc, leaving>>
  PROVE  WorkersOK' /\ HeldOK' /\ LoopOK'
<1>1. history'[w] = h
  BY DEF TypeOK, HeldOK
<1>2. PICK l \in {"subscribe", "resend"} : Goto(w, l) /\ (l = "resend" => h # <<>>)
  BY <1>1 DEF Resume, JoinNext
<1>3. WorkersOK'
  BY <1>2, GotoType DEF TypeOK, Lines, LinesOf
<1>4. HeldOK'
  BY <1>2, HeldType DEF TypeOK, WorkersOK
<1>5. LoopOK'
  BY <1>2, LoopGoto DEF TypeOK, WorkersOK
<1> QED BY <1>3, <1>4, <1>5

LEMMA TypeReplay == ASSUME TypeOK, NEW w \in Worker, Replay(w) PROVE TypeOK'
<1>1. job[w].op = "join" /\ job[w].room \in Room /\ job[w].conn \in Conn
  BY LineType, JobType DEF TypeOK, Replay
<1>2. ConnOK'
  BY <1>1 DEF TypeOK, ConnOK, Replay
<1>3. history_room[job[w].room] \in Seq(Msg)
  BY <1>1 DEF TypeOK, ChannelOK
<1>4. WorkersOK' /\ HeldOK' /\ LoopOK'
  BY <1>1, <1>3, ResumeType DEF Replay, channelVars, freeVars
<1> QED BY <1>2, <1>4, Frame DEF TypeOK, Replay, channelVars, freeVars

LEMMA TypeResend == ASSUME TypeOK, NEW w \in Worker, Resend(w) PROVE TypeOK'
<1>1. job[w].op = "join"
  BY LineType DEF TypeOK, Resend
<1>2. history[w] \in Seq(Msg) /\ history[w] # <<>>
  BY DEF TypeOK, HeldOK, Resend
<1>3. Head(history[w]) \in Msg /\ Tail(history[w]) \in Seq(Msg)
  BY <1>2
<1>4. SendOK'
  BY <1>3, HandType DEF TypeOK, Resend
<1>5. WorkersOK' /\ HeldOK' /\ LoopOK'
  BY <1>1, <1>3, ResumeType DEF Resend, channelVars, freeVars
<1> QED BY <1>4, <1>5, Frame DEF TypeOK, Resend, channelVars, freeVars

\* A loop that meets a new subscriber will send to it.
LEMMA MeetNewType ==
  ASSUME TypeOK, NEW i \in Id, NEW r \in Room, NEW c \in Conn, MeetNew(i, r),
         subscribers' = [subscribers EXCEPT ![r][i] = c],
         UNCHANGED <<job, iopc, leaving>>,
         \A v \in Worker : pc'[v] = "send" => pc[v] = "send"
  PROVE  LoopOK'
<1>1. PICK behind \in SUBSET {t \in Thread : Looping(t, r)} :
        todo' = [t \in Thread |-> IF t \in behind THEN todo[t] \cup {i} ELSE todo[t]]
  BY DEF MeetNew
<1>2. Worker \subseteq Thread /\ IO \in Thread /\ IO \notin Worker
  BY NoneAssumption DEF Thread
<1>3. todo' \in [Thread -> SUBSET Id]
  BY <1>1 DEF TypeOK, LoopOK
<1>4. \A t \in Thread : todo'[t] \subseteq todo[t] \cup {i}
  BY <1>1
<1>5. \A t \in Thread : ~Looping(t, r) => todo'[t] = todo[t]
  BY <1>1
<1>6. \A q \in Room, j \in Id :
        subscribers'[q][j] = IF q = r /\ j = i THEN c ELSE subscribers[q][j]
  BY DEF TypeOK, ChannelOK
<1>7. ASSUME NEW v \in Worker, pc'[v] = "send", NEW j \in todo'[v]
      PROVE  subscribers'[job'[v].room][j] \in Conn
  <2>1. pc[v] = "send" /\ v \in Thread
    BY <1>2, <1>7
  <2>2. job[v].room \in Room
    BY <2>1, LineType, JobType DEF TypeOK
  <2>3. j \in Id
    BY <1>3, <1>7, <2>1
  <2>4. CASE j \in todo[v]
    <3>1. subscribers[job[v].room][j] \in Conn
      BY <2>1, <2>4 DEF TypeOK, LoopOK
    <3> QED BY <1>6, <2>2, <2>3, <3>1
  <2>5. CASE j \notin todo[v]
    <3>1. j = i /\ Looping(v, r)
      BY <1>4, <1>5, <1>7, <2>1, <2>5
    <3>2. job[v].room = r
      BY <1>2, <3>1 DEF Looping
    <3> QED BY <1>6, <2>2, <2>3, <3>1, <3>2
  <2> QED BY <2>4, <2>5
<1>8. ASSUME iopc' = "send", NEW j \in todo'[IO]
      PROVE  subscribers'[leaving'][j] \in Conn
  <2>1. iopc = "send" /\ leaving \in Room
    BY <1>8 DEF TypeOK, FreeOK
  <2>3. j \in Id
    BY <1>2, <1>3, <1>8
  <2>4. CASE j \in todo[IO]
    <3>1. subscribers[leaving][j] \in Conn
      BY <2>1, <2>4 DEF TypeOK, LoopOK
    <3> QED BY <1>6, <2>1, <2>3, <3>1
  <2>5. CASE j \notin todo[IO]
    <3>1. j = i /\ Looping(IO, r)
      BY <1>2, <1>4, <1>5, <1>8, <2>5
    <3>2. leaving = r
      BY <1>2, <3>1 DEF Looping
    <3> QED BY <1>6, <2>1, <2>3, <3>1, <3>2
  <2> QED BY <2>4, <2>5
<1> QED BY <1>3, <1>7, <1>8 DEF LoopOK

LEMMA TypeSubscribe == ASSUME TypeOK, NEW w \in Worker, Subscribe(w) PROVE TypeOK'
<1> DEFINE c == job[w].conn
           r == job[w].room
           i == client_id[c]
<1>1. job[w].op = "join" /\ r \in Room /\ c \in Conn
  BY LineType, JobType DEF TypeOK, Subscribe
<1>2. i \in Id
  BY <1>1 DEF TypeOK, ConnOK
<1>3. ChannelOK'
  <2>1. CASE subscribers[r][i] = NoConn
    <3>1. subscribers' = [subscribers EXCEPT ![r][i] = c]
      BY <2>1 DEF Subscribe
    <3> HIDE DEF c, r, i
    <3>2. subscribers' \in [Room -> [Id -> Conn \cup {NoConn}]]
      BY <1>1, <1>2, <3>1 DEF TypeOK, ChannelOK
    <3> QED BY <3>2 DEF TypeOK, ChannelOK, Subscribe
  <2>2. CASE subscribers[r][i] # NoConn
    BY <2>2 DEF TypeOK, ChannelOK, Subscribe
  <2> QED BY <2>1, <2>2
<1>4. Goto(w, "notify")
  BY DEF Subscribe, JoinNext
<1>5. WorkersOK'
  BY <1>1, <1>4, GotoType DEF TypeOK, Subscribe, Lines, LinesOf
<1>6. HeldOK'
  BY <1>4, HeldGoto DEF TypeOK, WorkersOK, HeldOK, Subscribe
<1>7. LoopOK'
  <2>1. CASE subscribers[r][i] = NoConn
    <3>1. \A v \in Worker : pc'[v] = "send" => pc[v] = "send"
      BY <1>4 DEF TypeOK, WorkersOK, Goto
    <3>2. MeetNew(i, r) /\ subscribers' = [subscribers EXCEPT ![r][i] = c]
      BY <2>1 DEF Subscribe
    <3> QED BY <1>1, <1>2, <3>1, <3>2, MeetNewType DEF Subscribe, freeVars
  <2>2. CASE subscribers[r][i] # NoConn
    BY <1>4, <2>2, LoopGoto DEF TypeOK, WorkersOK, Subscribe, freeVars
  <2> QED BY <2>1, <2>2
<1> QED BY <1>3, <1>5, <1>6, <1>7, Frame DEF TypeOK, Subscribe

LEMMA TypeNotify == ASSUME TypeOK, NEW w \in Worker, Notify(w) PROVE TypeOK'
<1>1. job[w].op \in {"join", "text"} /\ job[w].room \in Room
  BY LineType, JobType DEF TypeOK, Notify
<1>2. WorkersOK'
  BY <1>1, GotoType DEF TypeOK, Notify, Lines, LinesOf
<1>3. HeldOK'
  <2>1. audience' \in [Worker -> SUBSET Conn]
    BY DEF TypeOK, HeldOK, Notify
  <2> QED BY <2>1, HeldGoto DEF TypeOK, WorkersOK, HeldOK, Notify
<1>4. LoopOK'
  <2>1. w \in Thread /\ IO \in Thread /\ IO # w /\ Worker \subseteq Thread
    BY NoneAssumption DEF Thread
  <2>2. /\ todo' \in [Thread -> SUBSET Id]
        /\ \A i \in todo'[w] : subscribers[job[w].room][i] \in Conn
        /\ \A u \in Thread \ {w} : todo'[u] = todo[u]
    BY <1>1, <2>1, BeginLoopType DEF TypeOK, Notify
  <2>3. \A v \in Worker \ {w} : pc'[v] = pc[v]
    BY DEF TypeOK, WorkersOK, Notify, Goto
  <2>4. UNCHANGED <<job, subscribers, iopc, leaving>>
    BY DEF Notify, channelVars, freeVars
  <2>5. ASSUME NEW v \in Worker, pc'[v] = "send", NEW i \in todo'[v]
        PROVE  subscribers'[job'[v].room][i] \in Conn
    <3>1. CASE v = w
      BY <2>2, <2>4, <2>5, <3>1
    <3>2. CASE v # w
      BY <2>1, <2>2, <2>3, <2>4, <2>5, <3>2 DEF TypeOK, LoopOK
    <3> QED BY <3>1, <3>2
  <2>6. iopc' = "send" => \A i \in todo'[IO] : subscribers'[leaving'][i] \in Conn
    BY <2>1, <2>2, <2>4 DEF TypeOK, LoopOK
  <2> QED BY <2>2, <2>5, <2>6 DEF LoopOK
<1> QED BY <1>2, <1>3, <1>4, Frame DEF TypeOK, Notify, channelVars

LEMMA TypeNotifyNext ==
  ASSUME TypeOK, NEW w \in Worker, NEW i \in Id, NotifyNext(w, i) PROVE TypeOK'
<1>1. SendOK'
  BY MessageType, HandType DEF TypeOK, NotifyNext, Deliver
<1>2. LoopOK'
  <2>1. w \in Thread
    BY DEF Thread
  <2> QED BY <2>1, DeliverType DEF TypeOK, NotifyNext, workerVars, channelVars, freeVars
<1> QED BY <1>1, <1>2, Frame DEF TypeOK, NotifyNext, workerVars

LEMMA TypeLogMessage == ASSUME TypeOK, NEW w \in Worker, LogMessage(w) PROVE TypeOK'
<1>1. job[w].op \in {"join", "text"}
  BY LineType DEF TypeOK, LogMessage
<1>2. ChannelOK'
  BY MessageType, LogType DEF TypeOK, LogMessage
<1>3. PICK l \in {"record", "save"} : Goto(w, l) /\ l \in LinesOf(job[w].op)
  BY <1>1 DEF LogMessage, LinesOf
<1>4. WorkersOK'
  BY <1>3, GotoType DEF TypeOK, LogMessage, Lines
<1>5. HeldOK' /\ LoopOK'
  <2>1. audience' \in [Worker -> SUBSET Conn]
    BY DEF TypeOK, HeldOK, LogMessage
  <2> QED BY <1>3, <2>1, GotoRest DEF TypeOK, HeldOK, LogMessage, freeVars
<1> QED BY <1>2, <1>4, <1>5, Frame DEF TypeOK, LogMessage, freeVars

LEMMA TypeRecord == ASSUME TypeOK, NEW w \in Worker, Record(w) PROVE TypeOK'
<1> DEFINE c == job[w].conn
<1>1. job[w].op = "join" /\ job[w].room \in Room /\ c \in Conn
  BY LineType, JobType DEF TypeOK, Record
<1>2. client_id[c] \in Id
  BY <1>1 DEF TypeOK, ConnOK
<1>3. ManagerOK'
  BY <1>2 DEF TypeOK, ManagerOK, Record
<1>4. ConnOK'
  BY <1>1 DEF TypeOK, ConnOK, Record
<1>5. WorkersOK'
  BY <1>1, GotoType DEF TypeOK, Record, Lines, LinesOf
<1>6. HeldOK' /\ LoopOK'
  BY StayRest DEF Record, channelVars, freeVars
<1> QED BY <1>3, <1>4, <1>5, <1>6, Frame DEF TypeOK, Record, channelVars, freeVars

LEMMA TypeReplyJoin == ASSUME TypeOK, NEW w \in Worker, ReplyJoin(w) PROVE TypeOK'
<1> DEFINE c == job[w].conn
           t == Task("joinReply", c, room_id[c], 0, job[w].ok)
<1>1. c \in Conn /\ job[w].ok \in BOOLEAN
  BY JobType DEF TypeOK, ReplyJoin
<1>2. room_id[c] \in Room \cup {NoRoom}
  BY <1>1 DEF TypeOK, ConnOK
<1>3. t \in Tasks
  BY <1>1, <1>2 DEF Task, Tasks
<1>4. <<t>> \in Seq(Tasks)
  BY <1>3
<1>5. WorkersOK' /\ TasksOK'
  BY <1>4, FinishType DEF TypeOK, ReplyJoin
<1>6. HeldOK' /\ LoopOK'
  BY FinishRest DEF ReplyJoin, channelVars, freeVars
<1> QED BY <1>5, <1>6, Frame DEF TypeOK, ReplyJoin, channelVars, freeVars

LEMMA TypeSave == ASSUME TypeOK, NEW w \in Worker, Save(w) PROVE TypeOK'
<1> DEFINE m == Message(job[w])
<1>1. m \in Msg
  BY MessageType DEF TypeOK, Save
<1>2. m.room \in Room
  BY <1>1 DEF Msg
<1> HIDE DEF m
<1>3. DbOK'
  <2>1. CASE UNCHANGED db /\ db_ptr' \in {"open", "null"}
    BY <2>1 DEF TypeOK, DbOK
  <2>2. CASE db' = [db EXCEPT ![m.room] = Append(@, m)] /\ UNCHANGED db_ptr
    BY <1>1, <1>2, <2>2 DEF TypeOK, DbOK
  <2>3. save_text_msg(m)
    BY DEF Save, m
  <2> QED BY <2>1, <2>2, <2>3 DEF save_text_msg, dbVars, TypeOK, DbOK
<1>4. <<>> \in Seq(Tasks)
  OBVIOUS
<1>5. WorkersOK' /\ TasksOK'
  BY <1>4, FinishType DEF TypeOK, Save
<1>6. HeldOK' /\ LoopOK'
  BY FinishRest DEF Save, channelVars, freeVars
<1> QED BY <1>3, <1>5, <1>6, Frame DEF TypeOK, Save, channelVars, freeVars

LEMMA FreeConnectionType ==
  ASSUME TypeOK, NEW c \in Conn, iopc = "idle", FreeConnection(c)
  PROVE  FreeOK' /\ (UNCHANGED <<workerVars, todo, channelVars>> => LoopOK')
<1>1. client_id[c] \in Id
  BY DEF TypeOK, ConnOK
<1>2. client_in_rooms[client_id[c]] \subseteq Room
  BY <1>1 DEF TypeOK, ManagerOK
<1>3. iopc' \in {"leave", "forget"}
  BY DEF FreeConnection
<1>4. UNCHANGED <<workerVars, todo, channelVars>> => LoopOK'
  BY <1>3, LoopIo DEF TypeOK, workerVars, channelVars
<1>5. FreeOK'
  BY <1>1, <1>2 DEF TypeOK, FreeOK, FreeConnection
<1> QED BY <1>4, <1>5

LEMMA TypeHeaderReadFails ==
  ASSUME TypeOK, NEW c \in Conn, HeaderReadFails(c) PROVE TypeOK'
<1>1. FreeOK' /\ LoopOK'
  BY FreeConnectionType DEF HeaderReadFails
<1>2. ConnOK'
  BY DEF TypeOK, ConnOK, HeaderReadFails
<1> QED BY <1>1, <1>2, Frame DEF TypeOK, HeaderReadFails, workerVars

LEMMA TypeAnswerWriteFails ==
  ASSUME TypeOK, NEW c \in Conn, AnswerWriteFails(c) PROVE TypeOK'
<1>1. FreeOK' /\ LoopOK'
  BY FreeConnectionType DEF AnswerWriteFails
<1>2. ConnOK'
  BY DEF TypeOK, ConnOK, AnswerWriteFails
<1> QED BY <1>1, <1>2, Frame DEF TypeOK, AnswerWriteFails, workerVars

LEMMA TypeQueueWriteFails ==
  ASSUME TypeOK, NEW c \in Conn, QueueWriteFails(c) PROVE TypeOK'
<1>1. FreeOK' /\ LoopOK'
  BY FreeConnectionType DEF QueueWriteFails
<1>2. SendOK'
  BY DEF TypeOK, SendOK, QueueWriteFails
<1> QED BY <1>1, <1>2, Frame DEF TypeOK, QueueWriteFails, workerVars

\* A loop does not meet what was erased.
LEMMA MissErasedType ==
  ASSUME TypeOK, NEW i \in Id, NEW r \in Room, MissErased(i, r),
         subscribers' = [subscribers EXCEPT ![r][i] = NoConn],
         UNCHANGED <<pc, job>>, iopc' # "send"
  PROVE  LoopOK'
<1>1. Worker \subseteq Thread /\ IO \notin Worker
  BY NoneAssumption DEF Thread
<1>2. todo' \in [Thread -> SUBSET Id]
  BY DEF TypeOK, LoopOK, MissErased
<1>3. \A q \in Room, j \in Id : q # r \/ j # i => subscribers'[q][j] = subscribers[q][j]
  BY DEF TypeOK, ChannelOK
<1>4. ASSUME NEW v \in Worker, pc'[v] = "send", NEW j \in todo'[v]
      PROVE  subscribers'[job'[v].room][j] \in Conn
  <2>1. pc[v] = "send" /\ v \in Thread /\ j \in Id
    BY <1>1, <1>2, <1>4
  <2>2. job[v].room \in Room
    BY <2>1, LineType, JobType DEF TypeOK
  <2>3. j \in todo[v] /\ (j = i => ~Looping(v, r))
    BY <1>4, <2>1 DEF MissErased
  <2>4. job[v].room # r \/ j # i
    BY <1>1, <2>1, <2>3 DEF Looping
  <2> QED BY <1>3, <2>1, <2>2, <2>3, <2>4 DEF TypeOK, LoopOK
<1> QED BY <1>2, <1>4 DEF LoopOK

LEMMA TypeFree == ASSUME TypeOK, Free PROVE TypeOK'
<1>1. ASSUME NEW r \in Room, LeaveRoom(r) PROVE TypeOK'
  <2>1. FreeOK' /\ iopc' # "send"
    BY <1>1 DEF TypeOK, FreeOK, LeaveRoom, IoGoto
  <2>2. LoopOK'
    BY <1>1, <2>1, LoopIo DEF TypeOK, LeaveRoom, workerVars, channelVars
  <2> QED BY <1>1, <2>1, <2>2, Frame DEF TypeOK, LeaveRoom, workerVars
<1>2. ASSUME iopc \in {"notify", "send", "erase"}
      PROVE  leaving \in Room /\ freeing \in Conn /\ Announcement(leaving) \in Msg
  BY <1>2 DEF TypeOK, FreeOK, Announcement, Msg
<1>3. CASE NotifyLeave
  <2>1. FreeOK'
    BY <1>3 DEF TypeOK, FreeOK, NotifyLeave, IoGoto
  <2>2. IO \in Thread /\ Worker \subseteq Thread \ {IO}
    BY NoneAssumption DEF Thread
  <2>3. UNCHANGED <<pc, job, subscribers, leaving>>
    BY <1>3 DEF NotifyLeave, workerVars, channelVars
  <2>4. /\ todo' \in [Thread -> SUBSET Id]
        /\ \A i \in todo'[IO] : subscribers[leaving][i] \in Conn
        /\ \A u \in Thread \ {IO} : todo'[u] = todo[u]
    BY <1>2, <1>3, <2>2, BeginLoopType DEF TypeOK, NotifyLeave
  <2>5. LoopOK'
    BY <2>2, <2>3, <2>4 DEF TypeOK, LoopOK
  <2> QED BY <1>3, <2>1, <2>5, Frame DEF TypeOK, NotifyLeave, workerVars
<1>9. ASSUME NEW i \in Id, NotifyLeaveNext(i) PROVE TypeOK'
  <2>1. SendOK'
    BY <1>2, <1>9, HandType DEF TypeOK, NotifyLeaveNext, Deliver
  <2>2. LoopOK'
    <3>1. IO \in Thread
      BY DEF Thread
    <3> QED BY <1>9, <3>1, DeliverType DEF TypeOK, NotifyLeaveNext, workerVars, channelVars, freeVars
  <2> QED BY <1>9, <2>1, <2>2, Frame DEF TypeOK, NotifyLeaveNext, workerVars
<1>4. CASE LogLeave
  <2>1. FreeOK'
    BY <1>4 DEF TypeOK, FreeOK, LogLeave, IoGoto
  <2>2. ChannelOK'
    BY <1>2, <1>4, LogType DEF TypeOK, LogLeave
  <2>3. LoopOK'
    BY <1>4, LoopIo DEF TypeOK, LogLeave, IoGoto, workerVars
  <2> QED BY <1>4, <2>1, <2>2, <2>3, Frame DEF TypeOK, LogLeave, workerVars
<1>5. CASE Erase
  <2>1. FreeOK'
    BY <1>5 DEF TypeOK, FreeOK, Erase, IoGoto
  <2>2. leaving \in Room /\ free_id \in Id
    BY <1>5 DEF TypeOK, FreeOK, Erase
  <2>3. ChannelOK'
    BY <1>5, <2>2 DEF TypeOK, ChannelOK, Erase
  <2>4. LoopOK'
    BY <1>5, <2>2, MissErasedType DEF Erase, IoGoto, workerVars
  <2> QED BY <1>5, <2>1, <2>3, <2>4, Frame DEF TypeOK, Erase, workerVars
<1>10. CASE EraseEntry
  <2>1. FreeOK' /\ iopc' # "send"
    BY <1>10 DEF TypeOK, FreeOK, EraseEntry, IoGoto
  <2>2. ManagerOK'
    BY <1>10 DEF TypeOK, ManagerOK, FreeOK, EraseEntry
  <2>3. HeldOK'
    <3>1. it' \in [Worker -> Id \cup {NoId}]
      BY <1>10 DEF TypeOK, HeldOK, EraseEntry
    <3> QED BY <1>10, <3>1 DEF TypeOK, HeldOK, EraseEntry
  <2>4. LoopOK'
    BY <1>10, <2>1, LoopIo DEF TypeOK, EraseEntry, channelVars
  <2> QED BY <1>10, <2>1, <2>2, <2>3, <2>4, Frame DEF TypeOK, EraseEntry, channelVars
<1>6. CASE Forget
  <2>1. FreeOK' /\ iopc' # "send"
    BY <1>6 DEF TypeOK, FreeOK, Forget, IoGoto
  <2>2. ManagerOK'
    BY <1>6 DEF TypeOK, ManagerOK, FreeOK, Forget
  <2>3. LoopOK'
    BY <1>6, <2>1, LoopIo DEF TypeOK, Forget, workerVars, channelVars
  <2> QED BY <1>6, <2>1, <2>2, <2>3, Frame DEF TypeOK, Forget, workerVars
<1>7. CASE Close
  <2>1. freeing \in Conn
    BY <1>7 DEF TypeOK, FreeOK, Close
  <2>2. FreeOK'
    BY <1>7 DEF TypeOK, FreeOK, Close, Id
  <2>3. ConnOK'
    <3>1. -1 \in Id
      BY DEF Id
    <3> QED BY <1>7, <2>1, <3>1 DEF TypeOK, ConnOK, Close
  <2>4. LoopOK'
    BY <1>7, LoopIo DEF TypeOK, Close, workerVars, channelVars
  <2> QED BY <1>7, <2>2, <2>3, <2>4, Frame DEF TypeOK, Close, workerVars
<1> QED BY <1>1, <1>3, <1>4, <1>5, <1>6, <1>7, <1>9, <1>10 DEF Free

LEMMA TypeStutter == ASSUME TypeOK, UNCHANGED vars PROVE TypeOK'
BY Frame DEF TypeOK, vars, workerVars, channelVars, freeVars

LEMMA TypeInit == Init => TypeOK
<1> SUFFICES ASSUME Init PROVE TypeOK
  OBVIOUS
<1>1. ClientOK
  BY DEF Init, ClientOK
<1>2. ConnOK
  BY DEF Init, ConnOK, Id
<1>3. SendOK /\ TasksOK
  BY DEF Init, SendOK, TasksOK
<1>4. WorkersOK
  BY DEF Init, WorkersOK, WorkerOK, Lines
<1>5. FreeOK
  BY DEF Init, FreeOK, Id
<1>6. ManagerOK
  BY DEF Init, ManagerOK
<1>7. ChannelOK
  BY DEF Init, ChannelOK, NoSubscribers
<1>8. HeldOK
  BY DEF Init, HeldOK
<1>9. LoopOK
  BY DEF Init, LoopOK
<1>10. DbOK
  BY SavedAssumption DEF Init, DbOK
<1> QED BY <1>1, <1>2, <1>3, <1>4, <1>5, <1>6, <1>7, <1>8, <1>9, <1>10 DEF TypeOK

LEMMA TypeNext == ASSUME TypeOK, [Next]_vars PROVE TypeOK'
<1>1. ASSUME NEW c \in Conn,
             \/ Accept(c) \/ ReadAuth(c) \/ ClientLeaves(c)
             \/ \E r \in Room : ReadJoin(c, r) \/ ReadText(c, r)
             \/ HeaderReadFails(c) \/ AnswerWriteFails(c) \/ QueueWriteFails(c)
      PROVE  TypeOK'
  BY <1>1, TypeAccept, TypeReadAuth, TypeClientLeaves, TypeReadJoin,
     TypeReadText, TypeHeaderReadFails, TypeAnswerWriteFails, TypeQueueWriteFails
<1>2. ASSUME NEW w \in Worker, Take(w) \/ Run(w) PROVE TypeOK'
  <2>1. ASSUME Join(w) PROVE TypeOK'
    BY <2>1, TypeEnter, TypeEmplaceEntry, TypePush, TypeLoad, TypeCreate, TypeReplay,
       TypeResend, TypeSubscribe, TypeRecord, TypeReplyJoin DEF Join
  <2> QED BY <1>2, <2>1, TypeTake, TypeDoAutorisation, TypeSendAnswer, TypeFind,
     TypeNotify, TypeNotifyNext, TypeLogMessage, TypeSave DEF Run
<1> QED BY <1>1, <1>2, TypeFree, TypeStutter DEF Next

\* Whatever the clients, the pool threads and free_connection do to each other,
\* every variable keeps its type and each thread is at a line of the task it runs.
THEOREM TypeCorrect == Spec => []TypeOK
<1>1. ASSUME TypeOK, [Next]_vars PROVE TypeOK'
  BY <1>1, TypeNext
<1> QED BY <1>1, TypeInit, PTL DEF Spec
================================================================================
