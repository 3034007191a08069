---------------------------- MODULE ChatRoomsHistory ----------------------------
(* The proofs about texts: that a room's history and its table agree, that a      *)
(* text reaches a client at most once, and that it reaches every member.          *)
EXTENDS ChatRoomsInRoom, FiniteSetTheorems

\* The places where the task of a join or a text may be, the task there, and the
\* line it is at.
InQueue == {k \in 1 .. Len(tasks) : tasks[k].op \in {"join", "text"}}
Running == {w \in Worker : pc[w] # "idle" /\ job[w].op \in {"join", "text"}}
Works == ({"queue"} \X InQueue) \cup ({"run"} \X Running)
TaskOf(p) == IF p[1] = "queue" THEN tasks[p[2]] ELSE job[p[2]]
LineOf(p) == IF p[1] = "queue" THEN "queue" ELSE pc[p[2]]

In(m, s) == \E k \in 1 .. Len(s) : s[k] = m
Once(m, s) == \A j, k \in 1 .. Len(s) : s[j] = m /\ s[k] = m => j = k

\* A text is named by its sender and number, a join by its client and a room the
\* client asked for once.
AskedOnce(c, r) == Once(r, asked[c])
Same(t, u) ==
  /\ t.op = u.op /\ t.conn = u.conn
  /\ \/ t.op = "text" /\ t.n = u.n
     \/ t.op = "join" /\ t.room = u.room /\ AskedOnce(t.conn, t.room)
UniqueInv == \A p, q \in Works : Same(TaskOf(p), TaskOf(q)) => p = q

Unheard(c, r) == \A m : In(m, outbox[c]) => m.room # r
Unsubscribed(c, r) == \A i \in Id : subscribers[r][i] # c

\* What a client heard of a room before it subscribed, it heard from the history.
BeforeReplay == {"queue", "enter", "emplace", "push", "find", "load", "create", "replay"}
BeforeSubscribe == BeforeReplay \cup {"resend", "subscribe"}
Replayed(c, r) == \A m : In(m, outbox[c]) /\ m.room = r => In(m, history_room[r])

JoinWork(c, r, l) ==
  /\ In(r, asked[c])
  /\ l \in {"replay", "resend", "subscribe", "notify", "send", "record"} => r \in channels
  /\ AskedOnce(c, r) /\ l \in BeforeReplay => Unheard(c, r)
  /\ AskedOnce(c, r) /\ l \in BeforeSubscribe => Unsubscribed(c, r) /\ Replayed(c, r)

TextWork(m, l) ==
  /\ m.from \in Conn /\ m.n \in 1 .. texts[m.from]
  /\ m \in early \/ m.room \in channels
  /\ l \in {"notify", "send"} => m.room \in channels
  /\ l \in {"queue", "find", "notify"} => \A c \in Conn : ~In(m, outbox[c])
  /\ l \in {"queue", "find", "notify", "send"} => ~In(m, history_room[m.room])
  /\ l = "save" => m \in early \/ In(m, history_room[m.room])
  /\ ~In(m, db[m.room])

WorkInv ==
  \A p \in Works :
    IF TaskOf(p).op = "join" THEN JoinWork(TaskOf(p).conn, TaskOf(p).room, LineOf(p))
                             ELSE TextWork(Message(TaskOf(p)), LineOf(p))

\* A client hears nothing of a room it did not ask for, and is subscribed under one
\* key, and has each text once, in a room it asked for once.
UnaskedInv ==
  \A c \in Conn, r \in Room : ~In(r, asked[c]) => Unheard(c, r) /\ Unsubscribed(c, r)
OneKeyInv ==
  \A c \in Conn, r \in Room : AskedOnce(c, r) =>
    \A i, j \in Id : subscribers[r][i] = c /\ subscribers[r][j] = c => i = j
HeardInv ==
  \A c \in Conn : \A m : In(m, outbox[c]) /\ m.n > 0 /\ AskedOnce(c, m.room)
    => Once(m, outbox[c])

\* Those a loop of notification has still to visit did not hear its text.
VisitInv ==
  \A w \in Worker : pc[w] = "send" /\ job[w].op = "text" =>
    \A c \in Conn : AskedOnce(c, job[w].room)
                    /\ (\E i \in todo[w] : subscribers[job[w].room][i] = c)
      => ~In(Message(job[w]), outbox[c])

\* Every room a client could have learnt of has its Channel.
KnownInv ==
  /\ \A c \in Conn : told[c] \cup {room_id[c]} \subseteq channels \cup {NoRoom}
  /\ \A t \in Pending : t.op = "joinReply" => t.room \in channels \cup {NoRoom}
  /\ iopc \in {"notify", "send", "erase"} => leaving \in channels

\* The messages sent round are the clients' and the announcements; a history and
\* the table have a room's, and each text once.
Sent(m) == m.from \in Conn => m.n <= texts[m.from]
SentInv == \A c \in Conn : \A m : In(m, outbox[c]) => Sent(m)
Kept(s, r) == \A m : In(m, s) => m.room = r /\ Sent(m) /\ (m.n > 0 => Once(m, s))
KeptInv == \A r \in Room : Kept(history_room[r], r) /\ Kept(db[r], r)

\* What a join has loaded is in the table, which got only early texts since; what
\* it has still to replay is in the history, and its client has not heard it.
LoadedAt(w) ==
  LET r == job[w].room IN
  /\ Kept(history[w], r)
  /\ r \notin channels =>
       /\ \A m : In(m, history[w]) => In(m, db[r])
       /\ db_ptr = "open" => \A m : In(m, db[r]) => In(m, history[w]) \/ m \in early
ReplayAt(w) ==
  LET c == job[w].conn
      r == job[w].room IN
  /\ Kept(history[w], r)
  /\ \A m : In(m, history[w]) => In(m, history_room[r])
  /\ AskedOnce(c, r) => \A m : In(m, history[w]) /\ m.n > 0 => ~In(m, outbox[c])
HeldInv ==
  \A w \in Worker : /\ pc[w] = "create" => LoadedAt(w)
                    /\ pc[w] = "resend" => ReplayAt(w)

HistoryOf(r) ==
  \A m : In(m, history_room[r]) /\ m.n > 0 /\ db_ptr = "open"
    => In(m, db[r]) \/ SavingSoon(m) \/ HasQuote(m)
TableOf(r) ==
  db_ptr = "open" => \A m : In(m, db[r]) => In(m, history_room[r]) \/ m \in early
LoggedInv ==
  \A r \in Room : IF r \in channels THEN HistoryOf(r) /\ TableOf(r)
                                    ELSE history_room[r] = <<>>

HistoryInv ==
  /\ TypeOK /\ UniqueInv /\ WorkInv /\ UnaskedInv /\ OneKeyInv /\ HeardInv /\ VisitInv
  /\ KnownInv /\ SentInv /\ KeptInv /\ HeldInv /\ LoggedInv

\* The members that a loop of notification has still to visit are those that did
\* not hear its text.
AudienceInv == \A w \in Worker : pc[w] = "send" => \A c \in audience[w] : job[w].room \in told[c]
ReachInv ==
  \A w \in Worker : pc[w] = "send" /\ job[w].op = "text" =>
    \A c \in audience[w] : Serving(c) =>
      /\ AccountOf[c] \in todo[w] <=> ~In(Message(job[w]), outbox[c])
      /\ Once(Message(job[w]), outbox[c])

--------------------------------------------------------------------------------
(* Sequences.                                                                    *)

LEMMA InAppend ==
  ASSUME NEW S, NEW s \in Seq(S), NEW x \in S, NEW m
  PROVE  /\ In(m, Append(s, x)) <=> In(m, s) \/ m = x
         /\ Once(m, Append(s, x)) => Once(m, s)
         /\ Once(m, s) /\ (m = x => ~In(m, s)) => Once(m, Append(s, x))
<1> DEFINE a == Append(s, x)
<1>1. /\ Len(a) = Len(s) + 1 /\ Len(s) \in Nat
      /\ \A k \in 1 .. Len(s) : a[k] = s[k]
      /\ a[Len(s) + 1] = x
  OBVIOUS
<1> HIDE DEF a
<1>2. In(m, a) <=> In(m, s) \/ m = x
  BY <1>1 DEF In
<1>3. Once(m, a) => Once(m, s)
  BY <1>1 DEF Once
<1>4. ASSUME Once(m, s), m = x => ~In(m, s) PROVE Once(m, a)
  BY <1>1, <1>4 DEF Once, In
<1> QED BY <1>2, <1>3, <1>4 DEF a

LEMMA InHead ==
  ASSUME NEW S, NEW s \in Seq(S), s # <<>>, NEW m
  PROVE  /\ Head(s) \in S /\ Tail(s) \in Seq(S)
         /\ In(m, s) <=> m = Head(s) \/ In(m, Tail(s))
         /\ Once(m, s) => Once(m, Tail(s)) /\ (m = Head(s) => ~In(m, Tail(s)))
<1> DEFINE t == Tail(s)
<1>1. /\ Len(t) = Len(s) - 1 /\ Len(s) \in Nat \ {0} /\ t \in Seq(S) /\ Head(s) = s[1]
      /\ \A k \in 1 .. Len(t) : t[k] = s[k + 1]
      /\ Head(s) \in S
  OBVIOUS
<1> HIDE DEF t
<1>2. \A k \in 1 .. Len(s) : k = 1 \/ (k - 1 \in 1 .. Len(t) /\ s[k] = t[k - 1])
  BY <1>1
<1>3. \A k \in 1 .. Len(t) : k + 1 \in 1 .. Len(s) /\ k + 1 # 1 /\ t[k] = s[k + 1]
  BY <1>1
<1>4. In(m, s) <=> m = Head(s) \/ In(m, t)
  <2>1. In(m, s) => m = Head(s) \/ In(m, t)
    BY <1>1, <1>2 DEF In
  <2>2. In(m, t) => In(m, s)
    BY <1>3 DEF In
  <2>3. m = Head(s) => In(m, s)
    BY <1>1 DEF In
  <2> QED BY <2>1, <2>2, <2>3
<1>5. ASSUME Once(m, s) PROVE Once(m, t)
  <2> SUFFICES ASSUME NEW j \in 1 .. Len(t), NEW k \in 1 .. Len(t), t[j] = m, t[k] = m
               PROVE  j = k
    BY DEF Once
  <2>1. j + 1 = k + 1
    BY <1>3, <1>5 DEF Once
  <2> QED BY <2>1
<1>6. ASSUME Once(m, s), m = Head(s) PROVE ~In(m, t)
  <2>1. 1 \in 1 .. Len(s)
    BY <1>1
  <2> QED BY <1>1, <1>3, <1>6, <2>1 DEF Once, In
<1> QED BY <1>1, <1>4, <1>5, <1>6 DEF t

LEMMA NoneIn == \A m : ~In(m, <<>>) /\ Once(m, <<>>)
BY DEF In, Once

LEMMA OnceTimes ==
  ASSUME NEW S, NEW s \in Seq(S), NEW m
  PROVE  /\ Times(m, s) <= 1 => Once(m, s)
         /\ In(m, s) /\ Once(m, s) => Times(m, s) = 1
<1> DEFINE P == {k \in 1 .. Len(s) : s[k] = m}
<1>1. IsFiniteSet(P) /\ Times(m, s) = Cardinality(P)
  <2>1. IsFiniteSet(1 .. Len(s))
    BY FS_Interval
  <2> QED BY <2>1, FS_Subset DEF Times
<1>2. ASSUME Times(m, s) <= 1, NEW j \in 1 .. Len(s), NEW k \in 1 .. Len(s),
             s[j] = m, s[k] = m, j # k
      PROVE  FALSE
  <2>1. {j, k} \subseteq P
    BY <1>2
  <2>2. Cardinality({j, k}) = 2
    <3>1. Cardinality({j}) = 1 /\ IsFiniteSet({j})
      BY FS_Singleton
    <3>2. Cardinality({j} \cup {k}) = Cardinality({j}) + 1
      BY <1>2, <3>1, FS_AddElement
    <3>3. {j, k} = {j} \cup {k}
      OBVIOUS
    <3> QED BY <3>1, <3>2, <3>3
  <2>3. Cardinality({j, k}) <= Cardinality(P)
    BY <1>1, <2>1, FS_Subset
  <2>4. Cardinality(P) \in Nat
    BY <1>1, FS_CardinalityType
  <2> QED BY <1>1, <1>2, <2>2, <2>3, <2>4
<1>3. ASSUME In(m, s), Once(m, s) PROVE Times(m, s) = 1
  <2>1. PICK k \in 1 .. Len(s) : s[k] = m
    BY <1>3 DEF In
  <2>2. P = {k}
    BY <1>3, <2>1 DEF Once
  <2> QED BY <1>1, <2>2, FS_Singleton
<1> QED BY <1>2, <1>3 DEF Once

--------------------------------------------------------------------------------
(* Where the task of a join or a text was before a step.                         *)

Keeps(t, u) == u.op = t.op /\ u.conn = t.conn /\ u.room = t.room /\ u.n = t.n

NewWork(p) ==
  /\ p = <<"queue", Len(tasks')>>
  /\ \E c \in Conn, r \in Room :
       \/ ReadJoin(c, r) /\ TaskOf(p)' = Task("join", c, r, 0, TRUE)
       \/ ReadText(c, r) /\ TaskOf(p)' = Task("text", c, r, texts[c] + 1, TRUE)

OldWork(q, p) ==
  /\ q \in Works /\ Keeps(TaskOf(q), TaskOf(p)')
  /\ \/ q[1] = "queue" /\ LineOf(p)' \in {"queue", FirstStep(TaskOf(q).op)}
     \/ q = p /\ \E w \in Worker : p = <<"run", w>> /\ (Run(w) \/ pc'[w] = pc[w])

LEMMA WorksAre ==
  ASSUME NEW p
  PROVE  p \in Works <=>
           \/ \E k \in 1 .. Len(tasks) : p = <<"queue", k>> /\ tasks[k].op \in {"join", "text"}
           \/ \E w \in Worker : p = <<"run", w>> /\ pc[w] # "idle" /\ job[w].op \in {"join", "text"}
BY DEF Works, InQueue, Running

LEMMA WorksAreNext ==
  ASSUME NEW p
  PROVE  p \in Works' <=>
           \/ \E k \in 1 .. Len(tasks') : p = <<"queue", k>> /\ tasks'[k].op \in {"join", "text"}
           \/ \E w \in Worker : p = <<"run", w>> /\ pc'[w] # "idle" /\ job'[w].op \in {"join", "text"}
BY DEF Works, InQueue, Running

LEMMA PlaceOf ==
  /\ \A k : TaskOf(<<"queue", k>>) = tasks[k] /\ LineOf(<<"queue", k>>) = "queue"
  /\ \A w : TaskOf(<<"run", w>>) = job[w] /\ LineOf(<<"run", w>>) = pc[w]
BY DEF TaskOf, LineOf

LEMMA AppendWork ==
  ASSUME TasksOK, NEW u, u \in Tasks, tasks' = Append(tasks, u), UNCHANGED <<pc, job>>,
         NEW p \in Works'
  PROVE  \/ OldWork(p, p)
         \/ p = <<"queue", Len(tasks')>> /\ TaskOf(p)' = u /\ u.op \in {"join", "text"}
<1>1. /\ Len(tasks') = Len(tasks) + 1 /\ Len(tasks) \in Nat
      /\ \A k \in 1 .. Len(tasks) : tasks'[k] = tasks[k]
      /\ tasks'[Len(tasks')] = u
  BY DEF TasksOK
<1>2. ASSUME NEW k \in 1 .. Len(tasks'), p = <<"queue", k>>, tasks'[k].op \in {"join", "text"}
      PROVE  \/ OldWork(p, p)
             \/ p = <<"queue", Len(tasks')>> /\ TaskOf(p)' = u /\ u.op \in {"join", "text"}
  <2>1. CASE k \in 1 .. Len(tasks)
    BY <1>1, <1>2, <2>1, WorksAre, PlaceOf DEF OldWork, Keeps, TaskOf, LineOf
  <2>2. CASE k = Len(tasks')
    BY <1>1, <1>2, <2>2 DEF TaskOf
  <2> QED BY <1>1, <2>1, <2>2
<1>3. ASSUME NEW w \in Worker, p = <<"run", w>>, pc'[w] # "idle", job'[w].op \in {"join", "text"}
      PROVE  OldWork(p, p)
  BY <1>3, WorksAre DEF OldWork, Keeps, TaskOf, LineOf
<1> QED BY <1>2, <1>3, WorksAreNext

LEMMA RunTasks ==
  ASSUME TypeOK, NEW w \in Worker, Run(w)
  PROVE  /\ \/ UNCHANGED tasks
            \/ \E u \in Tasks : tasks' = Append(tasks, u) /\ u.op \in {"authReply", "joinReply"}
         /\ \A v \in Worker : v # w => pc'[v] = pc[v] /\ job'[v] = job[v]
         /\ pc'[w] # "idle" => pc[w] # "idle" /\ Keeps(job[w], job'[w])
<1> USE DEF TypeOK, WorkersOK
<1>0. tasks \in Seq(Tasks)
  BY DEF TasksOK
<1>1. ASSUME NEW u \in Tasks, u.op \in {"authReply", "joinReply"}, Finish(w, <<u>>)
      PROVE  /\ \E x \in Tasks : tasks' = Append(tasks, x) /\ x.op \in {"authReply", "joinReply"}
             /\ \A v \in Worker : v # w => pc'[v] = pc[v] /\ job'[v] = job[v]
             /\ pc'[w] = "idle"
  <2>1. tasks' = Append(tasks, u)
    BY <1>0, <1>1 DEF Finish
  <2> QED BY <1>1, <2>1 DEF Finish, Goto
<1>2. CASE DoAutorisation(w)
  <2>1. PICK i : Finish(w, <<Task("authReply", job[w].conn, NoRoom, 0, i # -1)>>)
    BY <1>2 DEF DoAutorisation
  <2>2. ASSUME NEW b \in BOOLEAN
        PROVE  /\ Task("authReply", job[w].conn, NoRoom, 0, b) \in Tasks
               /\ Task("authReply", job[w].conn, NoRoom, 0, b).op = "authReply"
    <3>1. job[w].conn \in Conn
      BY <1>2, JobType DEF DoAutorisation
    <3> QED BY <3>1, TaskType DEF Task
  <2>3. (i # -1) \in BOOLEAN
    OBVIOUS
  <2> QED BY <1>1, <2>1, <2>2, <2>3
<1>3. CASE ReplyJoin(w)
  <2> DEFINE u == Task("joinReply", job[w].conn, room_id[job[w].conn], 0, job[w].ok)
  <2>1. pc[w] # "idle" /\ Finish(w, <<u>>)
    BY <1>3 DEF ReplyJoin
  <2>2. u \in Tasks
    <3>1. job[w].conn \in Conn /\ job[w].ok \in BOOLEAN
      BY <2>1, JobType
    <3>2. room_id[job[w].conn] \in Room \cup {NoRoom}
      BY <3>1 DEF ConnOK
    <3> QED BY <3>1, <3>2, TaskType
  <2>3. u.op = "joinReply"
    BY DEF Task
  <2> HIDE DEF u
  <2> QED BY <1>1, <2>1, <2>2, <2>3
<1>4. CASE SendAnswer(w) \/ Save(w)
  <2>1. Finish(w, <<>>)
    BY <1>4 DEF SendAnswer, Save
  <2>2. UNCHANGED tasks
    BY <1>0, <2>1 DEF Finish
  <2> QED BY <2>1, <2>2 DEF Finish, Goto
<1>5. CASE Create(w)
  <2>1. UNCHANGED tasks /\ pc[w] # "idle" /\ \E l : Goto(w, l)
    BY <1>5 DEF Create
  <2>2. Keeps(job[w], job'[w]) /\ \A v \in Worker : v # w => job'[v] = job[v]
    <3>1. job[w] \in Tasks /\ job[w].op = "join"
      BY <1>5, <2>1, JobType, LineType DEF Create
    <3>2. CASE UNCHANGED job
      BY <3>2 DEF Keeps
    <3>3. CASE job' = [job EXCEPT ![w].ok = FALSE]
      <4>1. job'[w] = [job[w] EXCEPT !.ok = FALSE]
        BY <3>3
      <4>2. Keeps(job[w], [job[w] EXCEPT !.ok = FALSE])
        BY <3>1 DEF Keeps, Tasks
      <4> QED BY <3>3, <4>1, <4>2
    <3> QED BY <1>5, <3>2, <3>3 DEF Create
  <2> QED BY <2>1, <2>2 DEF Goto
<1>6. CASE Lined(w) /\ ~Create(w)
  BY <1>6, LinedGoto DEF Goto, Keeps
<1>7. CASE UNCHANGED <<tasks, pc, job>> /\ \E i \in Id : NotifyNext(w, i)
  BY <1>7 DEF Keeps, NotifyNext
<1> QED BY <1>2, <1>3, <1>4, <1>5, <1>6, <1>7, RunIs

LEMMA RunWork ==
  ASSUME TypeOK, NEW w \in Worker, Run(w), NEW p \in Works'
  PROVE  OldWork(p, p)
<1>1. ASSUME NEW k \in 1 .. Len(tasks'), p = <<"queue", k>>, tasks'[k].op \in {"join", "text"}
      PROVE  OldWork(p, p)
  <2>1. k \in 1 .. Len(tasks) /\ tasks'[k] = tasks[k]
    BY <1>1, RunTasks DEF TypeOK, TasksOK
  <2> QED BY <1>1, <2>1, WorksAre, PlaceOf DEF OldWork, Keeps, TaskOf, LineOf
<1>2. ASSUME NEW v \in Worker, p = <<"run", v>>, pc'[v] # "idle", job'[v].op \in {"join", "text"}
      PROVE  OldWork(p, p)
  <2>1. pc[v] # "idle" /\ Keeps(job[v], job'[v]) /\ (v = w \/ pc'[v] = pc[v])
    BY <1>2, RunTasks DEF Keeps
  <2>2. p \in Works
    BY <1>2, <2>1, WorksAre DEF Keeps
  <2> QED BY <1>2, <2>1, <2>2 DEF OldWork, TaskOf
<1> QED BY <1>1, <1>2, WorksAreNext

LEMMA TakeWork ==
  ASSUME TypeOK, NEW w \in Worker, Take(w)
  PROVE  \E back : \A p \in Works' :
           OldWork(back[p], p) /\ \A q \in Works' : back[q] = back[p] => q = p
<1> DEFINE B(p) == IF p = <<"run", w>> THEN <<"queue", 1>>
                   ELSE IF p[1] = "queue" THEN <<"queue", p[2] + 1>> ELSE p
           back == [p \in Works' |-> B(p)]
<1>1. /\ Len(tasks) \in Nat /\ 1 \in 1 .. Len(tasks)
      /\ \A k \in 1 .. Len(tasks') : k + 1 \in 1 .. Len(tasks) /\ tasks'[k] = tasks[k + 1]
      /\ Len(tasks') \in Nat
      /\ job'[w] = tasks[1] /\ pc'[w] = FirstStep(tasks[1].op)
      /\ \A v \in Worker : v # w => pc'[v] = pc[v] /\ job'[v] = job[v]
  BY DEF Take, Goto, TypeOK, TasksOK, WorkersOK
<1>2. ASSUME NEW k \in 1 .. Len(tasks'), tasks'[k].op \in {"join", "text"}
      PROVE  B(<<"queue", k>>) = <<"queue", k + 1>> /\ OldWork(<<"queue", k + 1>>, <<"queue", k>>)
  <2>1. <<"queue", k + 1>> \in Works
    BY <1>1, <1>2, WorksAre
  <2> QED BY <1>1, <1>2, <2>1 DEF OldWork, Keeps, TaskOf, LineOf
<1>3. ASSUME job'[w].op \in {"join", "text"}
      PROVE  B(<<"run", w>>) = <<"queue", 1>> /\ OldWork(<<"queue", 1>>, <<"run", w>>)
  <2>1. <<"queue", 1>> \in Works
    BY <1>1, <1>3, WorksAre
  <2> QED BY <1>1, <1>3, <2>1 DEF OldWork, Keeps, TaskOf, LineOf
<1>4. ASSUME NEW v \in Worker, v # w, pc'[v] # "idle", job'[v].op \in {"join", "text"}
      PROVE  B(<<"run", v>>) = <<"run", v>> /\ OldWork(<<"run", v>>, <<"run", v>>)
  <2>1. <<"run", v>> \in Works
    BY <1>1, <1>4, WorksAre
  <2> QED BY <1>1, <1>4, <2>1 DEF OldWork, Keeps, TaskOf, LineOf
<1>5. \A p \in Works' : OldWork(B(p), p)
  BY <1>2, <1>3, <1>4, WorksAreNext
<1>6. \A p, q \in Works' : B(p) = B(q) => q = p
  <2>1. ASSUME NEW p \in Works'
        PROVE  \/ \E k \in 1 .. Len(tasks') : p = <<"queue", k>> /\ B(p) = <<"queue", k + 1>>
               \/ p = <<"run", w>> /\ B(p) = <<"queue", 1>>
               \/ \E v \in Worker : p = <<"run", v>> /\ B(p) = p
    BY <1>2, <1>3, <1>4, WorksAreNext
  <2> HIDE DEF B
  <2>2. \A k \in 1 .. Len(tasks') : k + 1 # 1
    OBVIOUS
  <2>3. SUFFICES ASSUME NEW p \in Works', NEW q \in Works', B(p) = B(q) PROVE q = p
    OBVIOUS
  <2>4. CASE \E k \in 1 .. Len(tasks') : p = <<"queue", k>> /\ B(p) = <<"queue", k + 1>>
    BY <2>1, <2>2, <2>3, <2>4
  <2>5. CASE p = <<"run", w>> /\ B(p) = <<"queue", 1>>
    BY <2>1, <2>2, <2>3, <2>5
  <2>6. CASE \E v \in Worker : p = <<"run", v>> /\ B(p) = p
    BY <2>1, <2>3, <2>6
  <2> QED BY <2>1, <2>4, <2>5, <2>6
<1>7. \A p \in Works' : back[p] = B(p)
  OBVIOUS
<1> HIDE DEF back, B
<1>8. \A p \in Works' :
        OldWork(back[p], p) /\ \A q \in Works' : back[q] = back[p] => q = p
  BY <1>5, <1>6, <1>7
<1> QED BY <1>8

\* Every place after a step is the new one, or held the same task before, at a
\* place of its own.
LEMMA WorkNext ==
  ASSUME TypeOK, [Next]_vars
  PROVE  \E back : \A p \in Works' :
           \/ NewWork(p)
           \/ OldWork(back[p], p) /\ \A q \in Works' : back[q] = back[p] => q = p
<1>1. CASE \E w \in Worker : Take(w)
  BY <1>1, TakeWork
<1>2. CASE ~\E w \in Worker : Take(w)
  <2>1. ASSUME NEW p \in Works' PROVE NewWork(p) \/ OldWork(p, p)
    <3>1. CASE UNCHANGED <<tasks, pc, job>>
      <4>1. p \in Works /\ TaskOf(p)' = TaskOf(p) /\ LineOf(p)' = LineOf(p)
        BY <3>1 DEF Works, InQueue, Running, TaskOf, LineOf
      <4>2. p[1] = "queue" \/ \E w \in Worker : p = <<"run", w>>
        BY <4>1, WorksAre
      <4> QED BY <3>1, <4>1, <4>2 DEF OldWork, Keeps, LineOf
    <3>2. ASSUME NEW c \in Conn, ReadAuth(c) PROVE OldWork(p, p)
      <4> DEFINE u == Task("auth", c, NoRoom, 0, TRUE)
      <4>1. u \in Tasks /\ u.op = "auth"
        BY TaskType DEF Task
      <4>2. tasks' = Append(tasks, u) /\ UNCHANGED <<pc, job>>
        BY <3>2 DEF ReadAuth, Post, workerVars
      <4> HIDE DEF u
      <4> QED BY <4>1, <4>2, AppendWork DEF TypeOK
    <3>3. ASSUME NEW c \in Conn, NEW r \in Room, ReadJoin(c, r)
          PROVE  NewWork(p) \/ OldWork(p, p)
      <4> DEFINE u == Task("join", c, r, 0, TRUE)
      <4>1. u \in Tasks
        BY TaskType
      <4>2. tasks' = Append(tasks, u) /\ UNCHANGED <<pc, job>>
        BY <3>3 DEF ReadJoin, Post, workerVars
      <4>3. p = <<"queue", Len(tasks')>> /\ TaskOf(p)' = u => NewWork(p)
        BY <3>3 DEF NewWork
      <4> HIDE DEF u
      <4> QED BY <4>1, <4>2, <4>3, AppendWork DEF TypeOK
    <3>4. ASSUME NEW c \in Conn, NEW r \in Room, ReadText(c, r)
          PROVE  NewWork(p) \/ OldWork(p, p)
      <4> DEFINE u == Task("text", c, r, texts[c] + 1, TRUE)
      <4>1. u \in Tasks
        <5>1. texts[c] + 1 \in Nat
          BY DEF TypeOK, ClientOK
        <5> QED BY <5>1, TaskType
      <4>2. tasks' = Append(tasks, u) /\ UNCHANGED <<pc, job>>
        BY <3>4 DEF ReadText, Post, workerVars
      <4>3. p = <<"queue", Len(tasks')>> /\ TaskOf(p)' = u => NewWork(p)
        BY <3>4 DEF NewWork
      <4> HIDE DEF u
      <4> QED BY <4>1, <4>2, <4>3, AppendWork DEF TypeOK
    <3> QED BY <1>2, <3>1, <3>2, <3>3, <3>4, RunWork, WritersNext DEF Writers
  <2> DEFINE back == [p \in Works' |-> p]
  <2>2. \A p \in Works' : back[p] = p
    OBVIOUS
  <2> HIDE DEF back
  <2> QED BY <2>1, <2>2
<1> QED BY <1>1, <1>2

--------------------------------------------------------------------------------
(* What a step does to the rooms asked for, the outboxes, the histories, the     *)
(* table and the subscribers.                                                    *)

LEMMA GrowsNext ==
  ASSUME TypeOK, [Next]_vars
  PROVE  /\ \A c \in Conn, r \in Room :
              /\ In(r, asked[c]) => In(r, asked'[c])
              /\ Once(r, asked'[c]) => Once(r, asked[c])
         /\ \A c \in Conn : texts[c] \in Nat /\ texts'[c] \in Nat /\ texts[c] <= texts'[c]
         /\ channels \subseteq channels' /\ early \subseteq early'
         /\ \A c \in Conn : told[c] \subseteq told'[c]
         /\ db_ptr' = "open" => db_ptr = "open"
<1> USE DEF TypeOK, ClientOK
<1>1. ASSUME NEW c \in Conn, NEW r \in Room
      PROVE  /\ In(r, asked[c]) => In(r, asked'[c])
             /\ Once(r, asked'[c]) => Once(r, asked[c])
  <2>1. CASE UNCHANGED asked
    BY <2>1
  <2>2. ASSUME NEW d \in Conn, NEW q \in Room, ReadJoin(d, q)
        PROVE  /\ In(r, asked[c]) => In(r, asked'[c])
               /\ Once(r, asked'[c]) => Once(r, asked[c])
    <3>1. asked'[c] = asked[c] \/ asked'[c] = Append(asked[c], q)
      BY <2>2 DEF ReadJoin
    <3>2. asked[c] \in Seq(Room)
      OBVIOUS
    <3>3. /\ In(r, asked[c]) => In(r, Append(asked[c], q))
          /\ Once(r, Append(asked[c], q)) => Once(r, asked[c])
      BY <3>2, InAppend
    <3> QED BY <3>1, <3>3
  <2> QED BY <2>1, <2>2, WritersNext DEF DataWriters
<1>2. ASSUME NEW c \in Conn
      PROVE  texts[c] \in Nat /\ texts'[c] \in Nat /\ texts[c] <= texts'[c]
  <2>1. ASSUME NEW d \in Conn, NEW q \in Room, ReadText(d, q)
        PROVE  texts'[c] \in {texts[c], texts[c] + 1}
    BY <2>1 DEF ReadText
  <2>2. UNCHANGED texts \/ \E d \in Conn, q \in Room : ReadText(d, q)
    BY WritersNext DEF DataWriters
  <2>3. texts'[c] \in {texts[c], texts[c] + 1} /\ texts[c] \in Nat
    BY <2>1, <2>2
  <2> QED BY <2>3
<1>3. channels \subseteq channels'
  <2>1. ASSUME NEW w \in Worker, Create(w) PROVE channels \subseteq channels'
    BY <2>1 DEF Create
  <2> QED BY <2>1, WritersNext DEF Writers
<1>4. early \subseteq early'
  <2>1. ASSUME NEW c \in Conn, NEW r \in Room, ReadText(c, r) PROVE early \subseteq early'
    BY <2>1 DEF ReadText
  <2> QED BY <2>1, WritersNext DEF DataWriters
<1>5. ASSUME NEW c \in Conn PROVE told[c] \subseteq told'[c]
  <2>1. ASSUME NEW w \in Worker, SendAnswer(w) PROVE told[c] \subseteq told'[c]
    <3>1. CASE UNCHANGED told
      BY <3>1
    <3>2. CASE told' # told
      <4>1. JoinAnswered(job[w].conn, job[w].room, job[w].ok) /\ ~AnswerLost(job[w].conn)
        BY <2>1, <3>2 DEF SendAnswer, AuthAnswered, AnswerLost, JoinAnswered, clientVars
      <4> DEFINE h == IF job[w].ok THEN told[job[w].conn] \cup {job[w].room} ELSE told[job[w].conn]
      <4>2. told' = [told EXCEPT ![job[w].conn] = h] /\ told[job[w].conn] \subseteq h
        BY <4>1 DEF JoinAnswered
      <4> HIDE DEF h
      <4> QED BY <4>2
    <3> QED BY <3>1, <3>2
  <2> QED BY <2>1, WritersNext DEF Writers
<1>6. db_ptr' = "open" => db_ptr = "open"
  <2>1. ASSUME NEW w \in Worker, Save(w) PROVE db_ptr' = "open" => db_ptr = "open"
    <3>1. CASE db_ptr = "open"
      BY <3>1
    <3>2. CASE db_ptr = "null"
      BY <2>1, <3>2 DEF Save, save_text_msg, dbVars
    <3> QED BY <3>1, <3>2 DEF DbOK
  <2> QED BY <2>1, WritersNext DEF DataWriters
<1> QED BY <1>1, <1>2, <1>3, <1>4, <1>5, <1>6

LEMMA RunningWork ==
  ASSUME HistoryInv, NEW w \in Worker, pc[w] # "idle", job[w].op \in {"join", "text"}
  PROVE  /\ <<"run", w>> \in Works
         /\ job[w].op = "join" => JoinWork(job[w].conn, job[w].room, pc[w])
         /\ job[w].op = "text" => TextWork(Message(job[w]), pc[w])
<1>1. <<"run", w>> \in Works
  BY WorksAre
<1> QED BY <1>1, PlaceOf DEF HistoryInv, WorkInv

\* A thread that runs Channel::join or notification has a room with a Channel.
LEMMA RunningRoom ==
  ASSUME HistoryInv, NEW w \in Worker,
         pc[w] \in {"replay", "resend", "subscribe", "notify", "send", "save"}
  PROVE  /\ job[w].op \in {"join", "text"} /\ job[w].conn \in Conn /\ job[w].room \in Room
         /\ pc[w] # "save" => job[w].room \in channels
         /\ pc[w] \in {"notify", "send", "save"} =>
              /\ Message(job[w]) \in Msg /\ Message(job[w]).room = job[w].room
              /\ job[w].op = "join" => /\ Message(job[w]) = Announcement(job[w].room)
                                       /\ Message(job[w]).n = 0 /\ Message(job[w]).from = NoConn
<1>1. /\ job[w].op \in {"join", "text"} /\ job[w].conn \in Conn /\ job[w].room \in Room
      /\ pc[w] # "idle"
      /\ job[w].op = "text" => pc[w] \in {"notify", "send", "save"}
  BY LineType, JobType DEF HistoryInv, TypeOK
<1>2. Message(job[w]).room = job[w].room
  BY <1>1 DEF Message, Text, Announcement
<1>3. pc[w] # "save" => job[w].room \in channels
  BY <1>1, <1>2, RunningWork DEF JoinWork, TextWork
<1>4. pc[w] \in {"notify", "send", "save"} => Message(job[w]) \in Msg
  BY MessageType DEF HistoryInv, TypeOK
<1> QED BY <1>1, <1>2, <1>3, <1>4 DEF Message, Announcement

LEMMA LeavingRoom ==
  ASSUME HistoryInv, iopc \in {"notify", "send"}
  PROVE  /\ leaving \in channels /\ leaving \in Room /\ Announcement(leaving) \in Msg
         /\ Announcement(leaving).room = leaving /\ Announcement(leaving).n = 0
         /\ Announcement(leaving).from = NoConn
<1>1. leaving \in channels /\ leaving \in Room
  BY DEF HistoryInv, KnownInv, TypeOK, ManagerOK
<1> QED BY <1>1 DEF Announcement, Msg

\* Where a message handed to a connection comes from: the history a join replays, or
\* a loop of notification, which sends an announcement or a text.
Replays(w, c) == Resend(w) /\ job[w].conn = c /\ pc[w] = "resend" /\ history[w] # <<>>
Visits(w, i, m) ==
  /\ NotifyNext(w, i) /\ i \in todo[w] /\ pc[w] = "send" /\ job[w].op = "text"
  /\ m = Message(job[w])
LEMMA OutboxNext ==
  ASSUME HistoryInv, [Next]_vars, NEW c \in Conn
  PROVE  \/ outbox'[c] = outbox[c]
         \/ \E w \in Worker :
              Replays(w, c) /\ outbox'[c] = Append(outbox[c], Head(history[w]))
         \/ \E i \in Id, m \in Msg :
              /\ m.room \in channels /\ subscribers[m.room][i] = c
              /\ outbox'[c] = Append(outbox[c], m)
              /\ \/ m.n = 0 /\ m.from = NoConn
                 \/ \E w \in Worker : Visits(w, i, m)
<1>0. outbox \in [Conn -> Seq(Msg)]
  BY DEF HistoryInv, TypeOK, SendOK
<1>1. ASSUME NEW w \in Worker, Resend(w)
      PROVE  \/ outbox'[c] = outbox[c]
             \/ Replays(w, c) /\ outbox'[c] = Append(outbox[c], Head(history[w]))
  BY <1>0, <1>1 DEF Resend, Hand, Replays, HistoryInv, TypeOK, HeldOK
<1>2. ASSUME NEW w \in Worker, NEW i \in Id, NotifyNext(w, i), outbox'[c] # outbox[c]
      PROVE  \E m \in Msg :
              /\ m.room \in channels /\ subscribers[m.room][i] = c
              /\ outbox'[c] = Append(outbox[c], m)
              /\ (m.n = 0 /\ m.from = NoConn) \/ Visits(w, i, m)
  <2>1. pc[w] = "send" /\ i \in todo[w]
    BY <1>2 DEF NotifyNext, Deliver
  <2>2. PICK m : m = Message(job[w])
    OBVIOUS
  <2>3. Hand(subscribers[m.room][i], m)
    BY <1>2, <2>2 DEF NotifyNext, Deliver
  <2>4. subscribers[m.room][i] = c /\ outbox'[c] = Append(outbox[c], m)
    BY <1>0, <1>2, <2>3 DEF Hand
  <2>5. /\ m \in Msg /\ m.room \in channels /\ job[w].op \in {"join", "text"}
        /\ job[w].op = "join" => m.n = 0 /\ m.from = NoConn
    BY <2>1, <2>2, RunningRoom
  <2> QED BY <1>2, <2>1, <2>2, <2>4, <2>5 DEF Visits
<1>3. ASSUME NEW i \in Id, NotifyLeaveNext(i), outbox'[c] # outbox[c]
      PROVE  \E m \in Msg :
              /\ m.room \in channels /\ subscribers[m.room][i] = c
              /\ outbox'[c] = Append(outbox[c], m) /\ m.n = 0 /\ m.from = NoConn
  <2>1. iopc = "send"
    BY <1>3 DEF NotifyLeaveNext
  <2>2. PICK m : m = Announcement(leaving)
    OBVIOUS
  <2>3. Hand(subscribers[m.room][i], m)
    BY <1>3, <2>2 DEF NotifyLeaveNext, Deliver
  <2>4. subscribers[m.room][i] = c /\ outbox'[c] = Append(outbox[c], m)
    BY <1>0, <1>3, <2>3 DEF Hand
  <2>5. m \in Msg /\ m.room \in channels /\ m.n = 0 /\ m.from = NoConn
    BY <2>1, <2>2, LeavingRoom
  <2> QED BY <2>4, <2>5
<1> QED BY <1>1, <1>2, <1>3, WritersNext DEF DataWriters

Logs(w, m) == LogMessage(w) /\ pc[w] = "send" /\ job[w].op = "text" /\ m = Message(job[w])
LEMMA LoggedNext ==
  ASSUME HistoryInv, [Next]_vars, NEW r \in channels
  PROVE  \/ history_room'[r] = history_room[r]
         \/ \E m \in Msg :
              /\ m.room = r /\ history_room'[r] = Append(history_room[r], m)
              /\ \/ m.n = 0 /\ m.from = NoConn
                 \/ \E w \in Worker : Logs(w, m)
<1>1. r \in Room /\ history_room \in [Room -> Seq(Msg)]
  BY DEF HistoryInv, TypeOK, ManagerOK, ChannelOK
<1>2. ASSUME NEW w \in Worker, Create(w) PROVE history_room'[r] = history_room[r]
  BY <1>1, <1>2 DEF Create
<1>3. ASSUME NEW m \in Msg, Log(m)
      PROVE  \/ history_room'[r] = history_room[r]
             \/ m.room = r /\ history_room'[r] = Append(history_room[r], m)
  BY <1>1, <1>3 DEF Log
<1>4. ASSUME NEW w \in Worker, LogMessage(w)
      PROVE  \E m \in Msg : Log(m) /\ ((m.n = 0 /\ m.from = NoConn) \/ Logs(w, m))
  <2>1. pc[w] = "send" /\ Log(Message(job[w]))
    BY <1>4 DEF LogMessage
  <2> HIDE DEF Message
  <2> QED BY <1>4, <2>1, RunningRoom DEF Logs
<1>5. ASSUME LogLeave
      PROVE  \E m \in Msg : Log(m) /\ m.n = 0 /\ m.from = NoConn
  BY <1>5, LeavingRoom DEF LogLeave
<1> QED BY <1>2, <1>3, <1>4, <1>5, WritersNext DEF DataWriters

LEMMA CreatedNext ==
  ASSUME HistoryInv, [Next]_vars, NEW r \in Room, r \notin channels
  PROVE  \/ history_room'[r] = history_room[r] /\ r \notin channels'
         \/ \E w \in Worker :
              /\ pc[w] = "create" /\ job[w].room = r /\ LoadedAt(w)
              /\ history_room'[r] = history[w] /\ history[w] \in Seq(Msg)
              /\ r \in channels' /\ UNCHANGED <<dbVars, clientVars>>
<1> USE DEF HistoryInv, TypeOK, ManagerOK, ChannelOK
<1>1. ASSUME NEW w \in Worker, Create(w)
      PROVE  \/ history_room'[r] = history_room[r] /\ r \notin channels'
             \/ /\ pc[w] = "create" /\ job[w].room = r /\ LoadedAt(w)
                /\ history_room'[r] = history[w] /\ history[w] \in Seq(Msg)
                /\ r \in channels' /\ UNCHANGED <<dbVars, clientVars>>
  <2>1. pc[w] = "create" /\ UNCHANGED <<dbVars, clientVars>>
    BY <1>1 DEF Create
  <2>2. LoadedAt(w) /\ history[w] \in Seq(Msg)
    BY <2>1 DEF HeldInv, HeldOK
  <2> QED BY <1>1, <2>1, <2>2 DEF Create
<1>2. ASSUME NEW m \in Msg, m.room \in channels, Log(m) PROVE history_room'[r] = history_room[r]
  BY <1>2 DEF Log
<1>3. ASSUME NEW w \in Worker, LogMessage(w) PROVE history_room'[r] = history_room[r]
  <2> HIDE DEF HistoryInv
  <2>1. LET m == Message(job[w]) IN m \in Msg /\ m.room \in channels /\ Log(m)
    BY <1>3, RunningRoom DEF LogMessage
  <2> QED BY <1>2, <2>1
<1>4. ASSUME LogLeave PROVE history_room'[r] = history_room[r]
  <2> HIDE DEF HistoryInv
  <2>1. LET m == Announcement(leaving) IN m \in Msg /\ m.room \in channels /\ Log(m)
    BY <1>4, LeavingRoom DEF LogLeave
  <2> QED BY <1>2, <2>1
<1>5. \A w \in Worker : LogMessage(w) => UNCHANGED channels
  BY DEF LogMessage, managerVars
<1>6. LogLeave => UNCHANGED channels
  BY DEF LogLeave, managerVars
<1>7. UNCHANGED history_room => (UNCHANGED channels \/ \E w \in Worker : Create(w))
  BY WritersNext DEF Writers
<1> HIDE DEF HistoryInv, TypeOK, ManagerOK, ChannelOK
<1> QED BY <1>1, <1>3, <1>4, <1>5, <1>6, <1>7, WritersNext DEF DataWriters

Saves(w, m) ==
  /\ Save(w) /\ pc[w] = "save" /\ job[w].op = "text" /\ m = Message(job[w])
  /\ ~HasQuote(m)
LEMMA SavedNext ==
  ASSUME HistoryInv, [Next]_vars, NEW r \in Room
  PROVE  \/ db'[r] = db[r]
         \/ \E w \in Worker, m \in Msg :
              Saves(w, m) /\ m.room = r /\ db'[r] = Append(db[r], m)
<1>1. ASSUME NEW w \in Worker, Save(w)
      PROVE  \/ db'[r] = db[r]
             \/ \E m \in Msg : Saves(w, m) /\ m.room = r /\ db'[r] = Append(db[r], m)
  <2>1. PICK m : m = Message(job[w])
    OBVIOUS
  <2>2. pc[w] = "save" /\ job[w].op = "text" /\ m \in Msg
    BY <1>1, <2>1, RunningRoom, LineType DEF Save, HistoryInv, TypeOK
  <2>3. CASE ~HasQuote(m) /\ db' = [db EXCEPT ![m.room] = Append(@, m)]
    <3>1. db \in [Room -> Seq(Msg)]
      BY DEF HistoryInv, TypeOK, DbOK
    <3> QED BY <1>1, <2>1, <2>2, <2>3, <3>1 DEF Saves
  <2>4. UNCHANGED db \/ (~HasQuote(m) /\ db' = [db EXCEPT ![m.room] = Append(@, m)])
    BY <1>1, <2>1 DEF Save, save_text_msg, dbVars
  <2> QED BY <2>3, <2>4
<1> QED BY <1>1, WritersNext DEF DataWriters

LEMMA SeqTypes ==
  ASSUME TypeOK
  PROVE  /\ \A c \in Conn : outbox[c] \in Seq(Msg) /\ asked[c] \in Seq(Room)
         /\ \A r \in Room : history_room[r] \in Seq(Msg) /\ db[r] \in Seq(Msg)
         /\ \A w \in Worker : history[w] \in Seq(Msg)
BY DEF TypeOK, SendOK, ClientOK, ChannelOK, DbOK, HeldOK

LEMMA HistoryGrows ==
  ASSUME HistoryInv, [Next]_vars, NEW r \in Room, NEW m, In(m, history_room[r])
  PROVE  In(m, history_room'[r])
<1>1. r \in channels
  BY NoneIn DEF HistoryInv, LoggedInv
<1>2. history_room[r] \in Seq(Msg)
  BY SeqTypes DEF HistoryInv
<1>3. ASSUME NEW x \in Msg, history_room'[r] = Append(history_room[r], x)
      PROVE  In(m, history_room'[r])
  BY <1>2, <1>3, InAppend
<1> QED BY <1>1, <1>3, LoggedNext

LEMMA TableGrows ==
  ASSUME HistoryInv, [Next]_vars, NEW r \in Room, NEW m, In(m, db[r])
  PROVE  In(m, db'[r])
<1>1. db[r] \in Seq(Msg)
  BY SeqTypes DEF HistoryInv
<1>2. ASSUME NEW x \in Msg, db'[r] = Append(db[r], x) PROVE In(m, db'[r])
  BY <1>1, <1>2, InAppend
<1> QED BY <1>2, SavedNext

\* What a join replays to its client is in the history of its room.
LEMMA ReplaysOld ==
  ASSUME HistoryInv, NEW w \in Worker, NEW c \in Conn, Replays(w, c), NEW h, h = Head(history[w])
  PROVE  /\ job[w].op = "join" /\ job[w].room \in Room /\ h \in Msg /\ h.room = job[w].room
         /\ In(h, history[w]) /\ In(h, history_room[h.room]) /\ Sent(h)
         /\ h.n > 0 => Once(h, history[w])
         /\ AskedOnce(c, h.room) /\ h.n > 0 => ~In(h, outbox[c])
<1>1. history[w] \in Seq(Msg) /\ history[w] # <<>> /\ ReplayAt(w)
  BY SeqTypes DEF Replays, HistoryInv, HeldInv
<1>2. h \in Msg /\ In(h, history[w])
  BY <1>1, InHead
<1>3. job[w].op = "join" /\ job[w].room \in Room
  BY RunningRoom, LineType DEF Replays, HistoryInv, TypeOK
<1> QED BY <1>1, <1>2, <1>3 DEF ReplayAt, Kept, Replays

LEMMA UnheardNext ==
  ASSUME HistoryInv, [Next]_vars, NEW c \in Conn, NEW r \in Room, Unheard(c, r), Unsubscribed(c, r)
  PROVE  \/ Unheard(c, r)'
         \/ \E w \in Worker : Replays(w, c) /\ job[w].room = r
<1>1. outbox[c] \in Seq(Msg)
  BY SeqTypes DEF HistoryInv
<1>2. ASSUME NEW x \in Msg, outbox'[c] = Append(outbox[c], x), x.room # r
      PROVE  Unheard(c, r)'
  BY <1>1, <1>2, InAppend DEF Unheard
<1>3. ASSUME NEW w \in Worker, Replays(w, c), job[w].room # r,
             outbox'[c] = Append(outbox[c], Head(history[w]))
      PROVE  Unheard(c, r)'
  BY <1>2, <1>3, ReplaysOld
<1>4. outbox'[c] = outbox[c] => Unheard(c, r)'
  BY DEF Unheard
<1>5. \A i \in Id : \A m : subscribers[m.room][i] = c => m.room # r
  BY DEF Unsubscribed
<1> QED BY <1>2, <1>3, <1>4, <1>5, OutboxNext

LEMMA ReplayedNext ==
  ASSUME HistoryInv, [Next]_vars, NEW c \in Conn, NEW r \in Room, Replayed(c, r), Unsubscribed(c, r)
  PROVE  Replayed(c, r)'
<1> SUFFICES ASSUME NEW m, In(m, outbox'[c]), m.room = r PROVE In(m, history_room'[r])
  BY DEF Replayed
<1>1. outbox[c] \in Seq(Msg)
  BY SeqTypes DEF HistoryInv
<1>2. CASE In(m, outbox[c])
  BY <1>2, HistoryGrows DEF Replayed
<1>3. ASSUME NEW w \in Worker, Replays(w, c), outbox'[c] = Append(outbox[c], Head(history[w])),
             ~In(m, outbox[c])
      PROVE  In(m, history_room'[r])
  <2>1. PICK h : h = Head(history[w])
    OBVIOUS
  <2>2. h \in Msg /\ In(h, history_room[h.room])
    BY <1>3, <2>1, ReplaysOld
  <2>3. m = h
    BY <1>1, <1>3, <2>1, <2>2, InAppend
  <2> QED BY <2>2, <2>3, HistoryGrows
<1>4. ASSUME NEW i \in Id, NEW x \in Msg, subscribers[x.room][i] = c,
             outbox'[c] = Append(outbox[c], x), ~In(m, outbox[c])
      PROVE  FALSE
  BY <1>1, <1>4, InAppend DEF Unsubscribed
<1> QED BY <1>2, <1>3, <1>4, OutboxNext

LEMMA UnsubscribedNext ==
  ASSUME TypeOK, [Next]_vars, NEW c \in Conn, NEW r \in Room, Unsubscribed(c, r)
  PROVE  \/ Unsubscribed(c, r)'
         \/ \E w \in Worker : /\ Subscribe(w) /\ pc[w] = "subscribe"
                              /\ job[w].conn = c /\ job[w].room = r
<1>1. ASSUME NEW w \in Worker, Subscribe(w), job[w].conn # c \/ job[w].room # r
      PROVE  Unsubscribed(c, r)'
  BY <1>1, SubscribeIs DEF Unsubscribed
<1>2. ASSUME Erase PROVE Unsubscribed(c, r)'
  <2>1. leaving \in Room /\ free_id \in Id
    BY <1>2 DEF Erase, TypeOK, FreeOK
  <2> QED BY <1>2, <2>1, NoneAssumption DEF Unsubscribed, Erase, TypeOK, ChannelOK
<1>3. UNCHANGED subscribers => Unsubscribed(c, r)'
  BY DEF Unsubscribed
<1>4. \A w \in Worker : Subscribe(w) => pc[w] = "subscribe"
  BY DEF Subscribe
<1> QED BY <1>1, <1>2, <1>3, <1>4, WritersNext DEF Writers

--------------------------------------------------------------------------------
(* The invariant, part by part.                                                  *)

LEMMA NewWorkIs ==
  ASSUME NEW p, NewWork(p)
  PROVE  \E c \in Conn, r \in Room :
           LET t == TaskOf(p)' IN
           /\ t.conn = c /\ t.room = r /\ LineOf(p)' = "queue"
           /\ \/ ReadJoin(c, r) /\ t.op = "join"
              \/ ReadText(c, r) /\ t.op = "text" /\ t.n = texts[c] + 1
BY DEF NewWork, Task, LineOf

LEMMA AskingNext ==
  ASSUME TypeOK, NEW c \in Conn, NEW r \in Room, ReadJoin(c, r)
  PROVE  In(r, asked'[c]) /\ (Once(r, asked'[c]) => ~In(r, asked[c]))
<1>1. asked'[c] = Append(asked[c], r) /\ asked[c] \in Seq(Room)
  BY DEF ReadJoin, TypeOK, ClientOK
<1> DEFINE s == asked[c]
           a == Append(s, r)
<1>2. /\ Len(a) = Len(s) + 1 /\ Len(s) \in Nat /\ a[Len(s) + 1] = r
      /\ \A k \in 1 .. Len(s) : a[k] = s[k]
  BY <1>1
<1> HIDE DEF a, s
<1>3. In(r, a) /\ (Once(r, a) => ~In(r, s))
  BY <1>2 DEF In, Once
<1> QED BY <1>1, <1>3 DEF a, s

LEMMA WorkType ==
  ASSUME HistoryInv, NEW x \in Works
  PROVE  LET v == TaskOf(x) IN
         /\ v \in Tasks /\ v.op \in {"join", "text"}
         /\ v.conn \in Conn /\ v.room \in Room /\ v.n \in Nat
         /\ v.op = "join" => JoinWork(v.conn, v.room, LineOf(x))
         /\ v.op = "text" => /\ TextWork(Message(v), LineOf(x))
                            /\ Message(v) = Text(v.conn, v.n, v.room) /\ Message(v).n > 0
<1> DEFINE v == TaskOf(x)
<1>1. v \in Tasks /\ v.op \in {"join", "text"}
  <2>1. CASE \E k \in 1 .. Len(tasks) : x = <<"queue", k>> /\ tasks[k].op \in {"join", "text"}
    BY <2>1, PlaceOf DEF HistoryInv, TypeOK, TasksOK
  <2>2. CASE \E w \in Worker : x = <<"run", w>> /\ pc[w] # "idle" /\ job[w].op \in {"join", "text"}
    BY <2>2, PlaceOf, JobType DEF HistoryInv, TypeOK
  <2> QED BY <2>1, <2>2, WorksAre
<1>2. v.conn \in Conn /\ v.room \in Room /\ v.n \in Nat
  BY <1>1 DEF Tasks
<1>3. IF v.op = "join" THEN JoinWork(v.conn, v.room, LineOf(x)) ELSE TextWork(Message(v), LineOf(x))
  BY DEF HistoryInv, WorkInv
<1>4. v.op = "text" => Message(v) = Text(v.conn, v.n, v.room)
  BY DEF Message
<1>5. v.op = "text" => Message(v).n > 0
  <2>1. v.op = "text" => Message(v).n \in 1 .. texts[v.conn]
    BY <1>3, <1>4 DEF TextWork, Text
  <2>2. texts[v.conn] \in Nat
    BY <1>2 DEF HistoryInv, TypeOK, ClientOK
  <2> QED BY <2>1, <2>2
<1> QED BY <1>1, <1>2, <1>3, <1>4, <1>5

LEMMA UniqueInvNext == ASSUME HistoryInv, [Next]_vars PROVE UniqueInv'
<1> SUFFICES ASSUME NEW p \in Works', NEW q \in Works', Same(TaskOf(p), TaskOf(q))'
             PROVE  p = q
  BY DEF UniqueInv
<1> USE DEF HistoryInv
<1>1. PICK back : \A x \in Works' :
           \/ NewWork(x)
           \/ OldWork(back[x], x) /\ \A y \in Works' : back[y] = back[x] => y = x
  BY WorkNext
<1>3. \A x \in Works : LET v == TaskOf(x) IN
        /\ v.conn \in Conn /\ v.room \in Room
        /\ v.op = "join" => In(v.room, asked[v.conn])
        /\ v.op = "text" => v.n <= texts[v.conn]
  <2> SUFFICES ASSUME NEW x \in Works, NEW v, v = TaskOf(x)
               PROVE  /\ v.conn \in Conn /\ v.room \in Room
                      /\ v.op = "join" => In(v.room, asked[v.conn])
                      /\ v.op = "text" => v.n <= texts[v.conn]
    OBVIOUS
  <2>1. v.op = "text" => Text(v.conn, v.n, v.room).n \in 1 .. texts[Text(v.conn, v.n, v.room).from]
    BY WorkType DEF TextWork
  <2>2. v.conn \in Conn /\ v.room \in Room /\ v.n \in Nat
    BY WorkType
  <2>3. texts[v.conn] \in Nat
    BY <2>2 DEF TypeOK, ClientOK
  <2>4. v.op = "text" => v.n <= texts[v.conn]
    BY <2>1, <2>2, <2>3 DEF Text
  <2>5. v.op = "join" => In(v.room, asked[v.conn])
    BY WorkType DEF JoinWork
  <2> QED BY <2>2, <2>4, <2>5
<1>4. ASSUME NEW a \in Works', NEW b \in Works', Same(TaskOf(a), TaskOf(b))',
             NEW x, OldWork(x, a), NewWork(b)
      PROVE  FALSE
  <2> DEFINE t == TaskOf(a)'
             u == TaskOf(b)'
  <2>0. /\ t.op = u.op /\ t.conn = u.conn
        /\ \/ t.op = "text" /\ t.n = u.n
           \/ t.op = "join" /\ t.room = u.room /\ Once(t.room, asked'[t.conn])
    BY <1>4 DEF Same, AskedOnce
  <2>1. x \in Works /\ Keeps(TaskOf(x), t)
    BY <1>4 DEF OldWork
  <2>2. PICK c \in Conn, r \in Room :
          /\ u.conn = c /\ u.room = r
          /\ \/ ReadJoin(c, r) /\ u.op = "join"
             \/ ReadText(c, r) /\ u.op = "text" /\ u.n = texts[c] + 1
    BY <1>4, NewWorkIs
  <2>3. texts[c] \in Nat
    BY GrowsNext
  <2>4. CASE u.op = "text"
    <3>1. TaskOf(x).op = "text" /\ TaskOf(x).conn = c /\ TaskOf(x).n = texts[c] + 1
      BY <2>0, <2>1, <2>2, <2>4 DEF Keeps
    <3>2. texts[c] + 1 <= texts[c]
      BY <1>3, <2>1, <3>1
    <3> QED BY <2>3, <3>2
  <2>5. CASE u.op = "join"
    <3>1. TaskOf(x).op = "join" /\ TaskOf(x).conn = c /\ TaskOf(x).room = r
      BY <2>0, <2>1, <2>2, <2>5 DEF Keeps
    <3>2. In(r, asked[c]) /\ Once(r, asked'[c])
      BY <1>3, <2>0, <2>1, <2>2, <2>5, <3>1
    <3> QED BY <2>2, <2>5, <3>2, AskingNext
  <2> QED BY <2>2, <2>4, <2>5
<1>5. Same(TaskOf(q), TaskOf(p))'
  BY DEF Same
<1>6. ASSUME NEW x, OldWork(x, p), NEW y, OldWork(y, q) PROVE x = y
  <2> DEFINE t == TaskOf(p)'
             u == TaskOf(q)'
  <2>0. /\ t.op = u.op /\ t.conn = u.conn
        /\ \/ t.op = "text" /\ t.n = u.n
           \/ t.op = "join" /\ t.room = u.room /\ Once(t.room, asked'[t.conn])
    BY DEF Same, AskedOnce
  <2>1. x \in Works /\ y \in Works /\ Keeps(TaskOf(x), t) /\ Keeps(TaskOf(y), u)
    BY <1>6 DEF OldWork
  <2>2. Same(TaskOf(x), TaskOf(y))
    <3>1. t.op = "join" => Once(t.room, asked[t.conn])
      BY <1>3, <2>0, <2>1, GrowsNext DEF Keeps
    <3> QED BY <2>0, <2>1, <3>1 DEF Same, AskedOnce, Keeps
  <2> QED BY <2>1, <2>2 DEF UniqueInv
<1>7. NewWork(p) /\ NewWork(q) => p = q
  BY DEF NewWork
<1> HIDE DEF HistoryInv
<1> QED BY <1>1, <1>4, <1>5, <1>6, <1>7

LEMMA JoinLines ==
  ASSUME TypeOK, NEW w \in Worker, Run(w), job[w].op = "join"
  PROVE  \/ pc'[w] = pc[w]
         \/ pc[w] \in {"enter", "emplace", "push"} /\ pc'[w] \in {"emplace", "push", "find"}
         \/ pc[w] = "find" /\ job[w].room \in channels /\ pc'[w] = "replay"
         \/ pc[w] = "find" /\ pc'[w] = "load"
         \/ pc[w] = "load" /\ pc'[w] = "create"
         \/ pc[w] = "create" /\ job[w].room \in channels' /\ pc'[w] = "replay"
         \/ pc[w] = "create" /\ pc'[w] = "reply"
         \/ pc[w] \in {"replay", "resend"} /\ pc'[w] \in {"resend", "subscribe"}
         \/ pc[w] = "subscribe" /\ pc'[w] = "notify"
         \/ pc[w] = "notify" /\ pc'[w] = "send"
         \/ pc[w] = "send" /\ pc'[w] = "record"
         \/ pc[w] = "record" /\ pc'[w] = "reply"
         \/ pc'[w] = "idle"
<1>1. \A l : Goto(w, l) => pc'[w] = l
  BY DEF Goto, TypeOK, WorkersOK
<1>2. CASE DoAutorisation(w) \/ SendAnswer(w) \/ ReplyJoin(w) \/ Save(w)
  BY <1>1, <1>2 DEF DoAutorisation, SendAnswer, ReplyJoin, Save, Finish
<1>3. CASE Enter(w) \/ EmplaceEntry(w) \/ Push(w) \/ Find(w) \/ Load(w) \/ Create(w)
  BY <1>1, <1>3 DEF Enter, EmplaceEntry, Push, Find, Load, Create, JoinNext
<1>4. CASE Replay(w) \/ Resend(w)
  BY <1>1, <1>4 DEF Replay, Resend, Resume, JoinNext
<1>5. CASE Subscribe(w) \/ Notify(w) \/ LogMessage(w) \/ Record(w)
  BY <1>1, <1>5 DEF Subscribe, Notify, LogMessage, Record, JoinNext
<1> QED BY <1>2, <1>3, <1>4, <1>5, RunIs DEF Lined

LEMMA TextLines ==
  ASSUME TypeOK, NEW w \in Worker, Run(w), job[w].op = "text"
  PROVE  \/ pc'[w] = pc[w]
         \/ pc[w] = "find" /\ job[w].room \in channels /\ pc'[w] = "notify"
         \/ pc[w] = "find" /\ job[w].room \notin channels /\ pc'[w] = "save"
         \/ pc[w] = "notify" /\ pc'[w] = "send"
         \/ pc[w] = "send" /\ pc'[w] = "save" /\ LogMessage(w)
         \/ pc'[w] = "idle"
<1>1. \A l : Goto(w, l) => pc'[w] = l
  BY DEF Goto, TypeOK, WorkersOK
<1>2. CASE DoAutorisation(w) \/ SendAnswer(w) \/ ReplyJoin(w) \/ Save(w)
  BY <1>1, <1>2 DEF DoAutorisation, SendAnswer, ReplyJoin, Save, Finish
<1>3. CASE \/ Enter(w) \/ EmplaceEntry(w) \/ Push(w) \/ Load(w) \/ Create(w) \/ Replay(w)
           \/ Resend(w) \/ Subscribe(w) \/ Record(w)
  BY <1>3, LineType
     DEF Enter, EmplaceEntry, Push, Load, Create, Replay, Resend, Subscribe, Record, TypeOK
<1>4. CASE Find(w) \/ Notify(w) \/ LogMessage(w)
  BY <1>1, <1>4 DEF Find, Notify, LogMessage
<1> QED BY <1>2, <1>3, <1>4, RunIs DEF Lined

\* Two threads never run the same text, nor the same join of a room asked for once.
LEMMA OneRuns ==
  ASSUME HistoryInv, NEW q \in Works, NEW w \in Worker, pc[w] # "idle",
         Same(TaskOf(q), job[w])
  PROVE  q = <<"run", w>> /\ LineOf(q) = pc[w]
<1>1. job[w].op \in {"join", "text"}
  BY WorkType DEF Same
<1>2. <<"run", w>> \in Works /\ TaskOf(<<"run", w>>) = job[w] /\ LineOf(<<"run", w>>) = pc[w]
  BY <1>1, WorksAre, PlaceOf
<1> QED BY <1>2 DEF HistoryInv, UniqueInv

LEMMA JoinWorkNext ==
  ASSUME HistoryInv, [Next]_vars, NEW q, NEW p, OldWork(q, p),
         NEW c, NEW r, c = TaskOf(q).conn, r = TaskOf(q).room, TaskOf(q).op = "join",
         NEW l, l = LineOf(p)', l # "idle"
  PROVE  JoinWork(c, r, l)'
<1>1. q \in Works
  BY DEF OldWork
<1>2. c \in Conn /\ r \in Room /\ JoinWork(c, r, LineOf(q)) /\ TypeOK
  BY <1>1, WorkType DEF HistoryInv
<1>3. In(r, asked[c]) /\ In(r, asked'[c]) /\ (AskedOnce(c, r)' => AskedOnce(c, r))
  BY <1>2, GrowsNext DEF JoinWork, AskedOnce
<1>4. channels \subseteq channels'
  BY <1>2, GrowsNext
<1>5. \/ l = LineOf(q)
      \/ LineOf(q) = "queue" /\ l = "enter"
      \/ \E w \in Worker : q = <<"run", w>> /\ l = pc'[w] /\ LineOf(q) = pc[w]
                           /\ Run(w) /\ job[w].op = "join" /\ job[w].room = r
  <2>1. CASE q[1] = "queue" /\ l \in {"queue", FirstStep(TaskOf(q).op)}
    BY <2>1 DEF LineOf, FirstStep
  <2>2. ASSUME NEW w \in Worker, q = p, p = <<"run", w>> PROVE l = pc'[w] /\ LineOf(q) = pc[w]
    BY <2>2 DEF LineOf
  <2>3. ASSUME NEW w \in Worker, q = <<"run", w>> PROVE job[w].op = "join" /\ job[w].room = r
    BY <2>3, PlaceOf
  <2> QED BY <2>1, <2>2, <2>3 DEF OldWork
<1>6. /\ l \in BeforeReplay => LineOf(q) \in BeforeReplay
      /\ l \in BeforeSubscribe => LineOf(q) \in BeforeSubscribe
      /\ l \in {"replay", "resend", "subscribe", "notify", "send", "record"} => r \in channels'
  BY <1>2, <1>4, <1>5, JoinLines DEF JoinWork, BeforeReplay, BeforeSubscribe
<1>7. ASSUME AskedOnce(c, r), NEW w \in Worker, job[w].conn = c, job[w].room = r,
             pc[w] # "idle", Run(w), job[w].op = "join"
      PROVE  LineOf(q) = pc[w] /\ l = pc'[w]
  <2>1. Same(TaskOf(q), job[w])
    BY <1>7 DEF Same
  <2>2. q = <<"run", w>> /\ LineOf(q) = pc[w]
    BY <1>1, <1>7, <2>1, OneRuns
  <2>3. q = p
    BY <2>2 DEF OldWork
  <2> QED BY <2>2, <2>3 DEF LineOf
<1>8. ASSUME AskedOnce(c, r)', l \in BeforeReplay PROVE Unheard(c, r)'
  <2>0. BeforeReplay \subseteq BeforeSubscribe
    BY DEF BeforeSubscribe
  <2>1. AskedOnce(c, r) /\ Unheard(c, r) /\ Unsubscribed(c, r) /\ LineOf(q) # "resend"
    BY <1>2, <1>3, <1>6, <1>8, <2>0 DEF JoinWork, BeforeReplay
  <2>2. ASSUME NEW w \in Worker, Replays(w, c), job[w].room = r PROVE FALSE
    <3>1. Run(w) /\ job[w].op = "join" /\ pc[w] = "resend" /\ job[w].conn = c
      BY <1>2, <2>2, LineType DEF Replays, Run, Join, TypeOK
    <3> QED BY <1>7, <2>1, <2>2, <3>1
  <2> QED BY <1>2, <2>1, <2>2, UnheardNext
<1>9. ASSUME AskedOnce(c, r)', l \in BeforeSubscribe
      PROVE  Unsubscribed(c, r)' /\ Replayed(c, r)'
  <2>1. AskedOnce(c, r) /\ Unsubscribed(c, r) /\ Replayed(c, r)
    BY <1>2, <1>3, <1>6, <1>9 DEF JoinWork
  <2>2. ASSUME NEW w \in Worker, Subscribe(w), pc[w] = "subscribe", job[w].conn = c, job[w].room = r
        PROVE  FALSE
    <3>1. Run(w) /\ job[w].op = "join"
      BY <1>2, <2>2, LineType DEF Run, Join, TypeOK
    <3>2. pc'[w] = "notify"
      BY <1>2, <2>2 DEF Subscribe, Goto, JoinNext, TypeOK, WorkersOK
    <3> QED BY <1>7, <1>9, <2>1, <2>2, <3>1, <3>2 DEF BeforeSubscribe, BeforeReplay
  <2> QED BY <1>2, <2>1, <2>2, UnsubscribedNext, ReplayedNext
<1>10. JoinWork(c, r, l)' <=>
        /\ In(r, asked'[c])
        /\ l \in {"replay", "resend", "subscribe", "notify", "send", "record"} => r \in channels'
        /\ AskedOnce(c, r)' /\ l \in BeforeReplay => Unheard(c, r)'
        /\ AskedOnce(c, r)' /\ l \in BeforeSubscribe => Unsubscribed(c, r)' /\ Replayed(c, r)'
  BY DEF JoinWork
<1> QED BY <1>3, <1>6, <1>8, <1>9, <1>10



LEMMA TextWorkNext ==
  ASSUME HistoryInv, [Next]_vars, NEW q, NEW p, OldWork(q, p), TaskOf(q).op = "text",
         NEW m, m = Message(TaskOf(q)), NEW l, l = LineOf(p)', l # "idle"
  PROVE  TextWork(m, l)'
<1>1. q \in Works /\ TypeOK
  BY DEF OldWork, HistoryInv
<1>2. /\ TextWork(m, LineOf(q)) /\ m.n > 0
      /\ m.from \in Conn /\ m.n \in 1 .. texts[m.from] /\ m.room \in Room
      /\ m.from = TaskOf(q).conn /\ m.n = TaskOf(q).n /\ m.room = TaskOf(q).room
  BY <1>1, WorkType DEF TextWork, Text
<1>3. /\ m.n \in 1 .. texts'[m.from] /\ channels \subseteq channels' /\ early \subseteq early'
      /\ m \in early' \/ m.room \in channels'
  <2>1. m \in early \/ m.room \in channels
    BY <1>2 DEF TextWork
  <2> QED BY <1>1, <1>2, <2>1, GrowsNext
<1>4. NoConn # m.from
  BY <1>2, NoneAssumption
<1>5. \/ l = LineOf(q)
      \/ LineOf(q) = "queue" /\ l = "find"
      \/ LineOf(q) = "find" /\ l = "notify" /\ m.room \in channels
      \/ LineOf(q) = "find" /\ l = "save" /\ m.room \notin channels
      \/ LineOf(q) = "notify" /\ l = "send"
      \/ /\ LineOf(q) = "send" /\ l = "save"
         /\ \E w \in Worker : q = <<"run", w>> /\ LogMessage(w)
  <2>1. CASE q[1] = "queue" /\ l \in {"queue", FirstStep(TaskOf(q).op)}
    BY <2>1 DEF LineOf, FirstStep
  <2>2. ASSUME NEW w \in Worker, q = p, p = <<"run", w>>
        PROVE  l = pc'[w] /\ LineOf(q) = pc[w] /\ job[w] = TaskOf(q)
    BY <2>2 DEF LineOf, TaskOf
  <2> QED BY <1>1, <1>2, <2>1, <2>2, TextLines DEF OldWork
\* The thread of a step that handles this text is this one's.
<1>6. ASSUME NEW w \in Worker, pc[w] # "idle", Run(w), job[w].op = "text", m = Message(job[w])
      PROVE  q = <<"run", w>> /\ LineOf(q) = pc[w] /\ l = pc'[w]
  <2>1. Same(TaskOf(q), job[w])
    <3>1. m = Text(job[w].conn, job[w].n, job[w].room)
      BY <1>6 DEF Message
    <3> QED BY <1>2, <1>6, <3>1 DEF Same, Text
  <2>2. q = <<"run", w>> /\ LineOf(q) = pc[w]
    BY <1>1, <1>6, <2>1, OneRuns
  <2>3. q = p
    BY <2>2 DEF OldWork
  <2> QED BY <2>2, <2>3 DEF LineOf
<1>7. ASSUME l \in {"queue", "find", "notify"}, NEW c \in Conn PROVE ~In(m, outbox'[c])
  <2>1. ~In(m, outbox[c]) /\ ~In(m, history_room[m.room])
    BY <1>2, <1>5, <1>7 DEF TextWork
  <2>2. ASSUME NEW x \in Msg, x # m, outbox'[c] = Append(outbox[c], x)
        PROVE  ~In(m, outbox'[c])
    BY <1>1, <2>1, <2>2, InAppend, SeqTypes
  <2>3. ASSUME NEW w \in Worker, Replays(w, c), outbox'[c] = Append(outbox[c], Head(history[w]))
        PROVE  ~In(m, outbox'[c])
    <3>1. PICK h : h = Head(history[w])
      OBVIOUS
    <3>2. h \in Msg /\ In(h, history_room[h.room])
      BY <2>3, <3>1, ReplaysOld
    <3> QED BY <2>1, <2>2, <2>3, <3>1, <3>2
  <2>4. ASSUME NEW w \in Worker, NEW i \in Id, Visits(w, i, m) PROVE FALSE
    <3>1. pc'[w] = "send" /\ pc[w] # "idle" /\ job[w].op = "text" /\ m = Message(job[w])
      BY <2>4 DEF Visits, NotifyNext, workerVars
    <3>2. Run(w)
      BY <2>4 DEF Visits, Run
    <3> QED BY <1>6, <1>7, <3>1, <3>2
  <2>5. ASSUME NEW x \in Msg, NEW i \in Id, outbox'[c] = Append(outbox[c], x),
               (x.n = 0 /\ x.from = NoConn) \/ \E w \in Worker : Visits(w, i, x)
        PROVE  ~In(m, outbox'[c])
    <3>1. x # m
      BY <1>4, <2>4, <2>5
    <3> QED BY <2>2, <2>5, <3>1
  <2>6. outbox'[c] = outbox[c] => ~In(m, outbox'[c])
    BY <2>1
  <2> QED BY <2>3, <2>5, <2>6, OutboxNext
<1>8. ASSUME l \in {"queue", "find", "notify", "send"} PROVE ~In(m, history_room'[m.room])
  <2>1. ~In(m, history_room[m.room]) /\ ~In(m, db[m.room])
    BY <1>2, <1>5, <1>8 DEF TextWork
  <2>2. ASSUME NEW x \in Msg, x # m, history_room'[m.room] = Append(history_room[m.room], x)
        PROVE  ~In(m, history_room'[m.room])
    BY <1>1, <1>2, <2>1, <2>2, InAppend, SeqTypes
  <2>3. ASSUME NEW w \in Worker, Logs(w, m) PROVE FALSE
    <3>1. pc'[w] = "save" /\ pc[w] # "idle" /\ job[w].op = "text" /\ m = Message(job[w])
      BY <1>1, <2>3 DEF Logs, LogMessage, Goto, TypeOK, WorkersOK
    <3>2. Run(w)
      BY <2>3 DEF Logs, Run
    <3> QED BY <1>6, <1>8, <3>1, <3>2
  <2>4. ASSUME NEW x \in Msg, history_room'[m.room] = Append(history_room[m.room], x),
               (x.n = 0 /\ x.from = NoConn) \/ \E w \in Worker : Logs(w, x)
        PROVE  ~In(m, history_room'[m.room])
    <3>1. x # m
      BY <1>4, <2>3, <2>4
    <3> QED BY <2>2, <2>4, <3>1
  <2>5. CASE m.room \in channels
    BY <2>1, <2>4, <2>5, LoggedNext
  <2>6. CASE m.room \notin channels
    BY <1>2, <2>1, <2>6, CreatedNext DEF LoadedAt
  <2> QED BY <2>5, <2>6
<1>9. ASSUME l = "save" PROVE m \in early' \/ In(m, history_room'[m.room])
  <2>1. CASE LineOf(q) = "save"
    <3>1. m \in early \/ In(m, history_room[m.room])
      BY <1>2, <2>1 DEF TextWork
    <3> QED BY <1>2, <1>3, <3>1, HistoryGrows
  <2>2. CASE m.room \notin channels
    BY <1>2, <1>3, <2>2 DEF TextWork
  <2>3. ASSUME NEW w \in Worker, q = <<"run", w>>, LogMessage(w)
        PROVE  In(m, history_room'[m.room])
    <3>1. m = Message(job[w])
      BY <2>3, PlaceOf
    <3>2. Log(m) /\ m \in Msg
      BY <2>3, <3>1, RunningRoom DEF LogMessage
    <3>3. history_room'[m.room] = Append(history_room[m.room], m)
      BY <1>1, <1>2, <3>2 DEF Log, TypeOK, ChannelOK
    <3> QED BY <1>1, <1>2, <3>2, <3>3, InAppend, SeqTypes
  <2> QED BY <1>5, <1>9, <2>1, <2>2, <2>3
<1>10. ~In(m, db'[m.room])
  <2>1. ~In(m, db[m.room])
    BY <1>2 DEF TextWork
  <2>2. ASSUME NEW w \in Worker, Saves(w, m) PROVE FALSE
    <3>1. pc'[w] = "idle" /\ pc[w] # "idle" /\ job[w].op = "text" /\ m = Message(job[w])
      BY <1>1, <2>2 DEF Saves, Save, Finish, Goto, TypeOK, WorkersOK
    <3>2. Run(w)
      BY <2>2 DEF Saves, Run
    <3> QED BY <1>6, <3>1, <3>2
  <2>3. ASSUME NEW w \in Worker, NEW x \in Msg, Saves(w, x), db'[m.room] = Append(db[m.room], x)
        PROVE  ~In(m, db'[m.room])
    BY <1>1, <1>2, <2>1, <2>2, <2>3, InAppend, SeqTypes
  <2> QED BY <1>2, <2>1, <2>3, SavedNext
<1>11. l \in {"notify", "send"} => m.room \in channels'
  BY <1>2, <1>3, <1>5 DEF TextWork
<1>12. TextWork(m, l)' <=>
        /\ m.from \in Conn /\ m.n \in 1 .. texts'[m.from]
        /\ m \in early' \/ m.room \in channels'
        /\ l \in {"notify", "send"} => m.room \in channels'
        /\ l \in {"queue", "find", "notify"} => \A c \in Conn : ~In(m, outbox'[c])
        /\ l \in {"queue", "find", "notify", "send"} => ~In(m, history_room'[m.room])
        /\ l = "save" => m \in early' \/ In(m, history_room'[m.room])
        /\ ~In(m, db'[m.room])
  BY DEF TextWork
<1> QED BY <1>2, <1>3, <1>7, <1>8, <1>9, <1>10, <1>11, <1>12

LEMMA WorkInvNext == ASSUME HistoryInv, [Next]_vars PROVE WorkInv'
<1> SUFFICES ASSUME NEW p \in Works', NEW t, t = TaskOf(p)', NEW l, l = LineOf(p)'
             PROVE  /\ t.op = "join" => JoinWork(t.conn, t.room, l)'
                    /\ t.op = "text" => TextWork(Message(t), l)'
  <2>1. \A p \in Works' : TaskOf(p)'.op \in {"join", "text"}
    BY WorksAreNext DEF TaskOf
  <2> QED BY <2>1 DEF WorkInv, JoinWork, TextWork, Unheard, Unsubscribed, Replayed, AskedOnce
<1>1. TypeOK
  BY DEF HistoryInv
<1>2. CASE NewWork(p)
  <2>1. PICK c \in Conn, r \in Room :
          /\ t.conn = c /\ t.room = r /\ l = "queue"
          /\ \/ ReadJoin(c, r) /\ t.op = "join"
             \/ ReadText(c, r) /\ t.op = "text" /\ t.n = texts[c] + 1
    BY <1>2, NewWorkIs
  <2>2. CASE ReadJoin(c, r) /\ t.op = "join"
    <3>1. In(r, asked'[c]) /\ (Once(r, asked'[c]) => ~In(r, asked[c]))
      BY <1>1, <2>2, AskingNext
    <3>2. AskedOnce(c, r)' => Unheard(c, r) /\ Unsubscribed(c, r)
      BY <3>1 DEF AskedOnce, HistoryInv, UnaskedInv
    <3>3. UNCHANGED <<outbox, subscribers>>
      BY <2>2 DEF ReadJoin, Post, sendVars, channelVars
    <3>4. AskedOnce(c, r)' => Unheard(c, r)' /\ Unsubscribed(c, r)' /\ Replayed(c, r)'
      BY <3>2, <3>3 DEF Unheard, Unsubscribed, Replayed
    <3>5. JoinWork(c, r, "queue")'
      BY <3>1, <3>4 DEF JoinWork
    <3> QED BY <2>1, <2>2, <3>5
  <2>3. CASE ReadText(c, r) /\ t.op = "text" /\ t.n = texts[c] + 1
    <3>0. PICK m : m = Text(c, texts[c] + 1, r)
      OBVIOUS
    <3>1. Message(t) = m
      BY <2>1, <2>3, <3>0 DEF Message
    <3>2. /\ UNCHANGED <<outbox, history_room, channels, db>>
          /\ texts'[c] = texts[c] + 1 /\ texts[c] \in Nat
          /\ r \in told[c] \/ m \in early'
      BY <1>1, <2>3, <3>0
         DEF ReadText, Post, sendVars, channelVars, managerVars, dbVars, TypeOK, ClientOK
    <3>3. m \in early' \/ r \in channels
      BY <3>2, NoneAssumption DEF HistoryInv, KnownInv
    <3>4. m.from = c /\ m.n = texts[c] + 1 /\ m.room = r /\ ~Sent(m)
      BY <3>0, <3>2 DEF Text, Sent
    <3>5. \A d \in Conn : ~In(m, outbox[d])
      BY <3>4 DEF HistoryInv, SentInv
    <3>6. ~In(m, history_room[r]) /\ ~In(m, db[r])
      BY <3>4 DEF HistoryInv, KeptInv, Kept
    <3>7. TextWork(m, "queue")'
      BY <3>2, <3>3, <3>4, <3>5, <3>6 DEF TextWork
    <3> QED BY <2>1, <2>3, <3>1, <3>7
  <2> QED BY <2>1, <2>2, <2>3
<1>3. ASSUME NEW q, OldWork(q, p)
      PROVE  /\ t.op = "join" => JoinWork(t.conn, t.room, l)'
             /\ t.op = "text" => TextWork(Message(t), l)'
  <2>1. Keeps(TaskOf(q), t)
    BY <1>3 DEF OldWork
  <2>2. l # "idle"
    BY WorksAreNext DEF LineOf
  <2>3. t.op = "join" => JoinWork(t.conn, t.room, l)'
    BY <1>3, <2>1, <2>2, JoinWorkNext DEF Keeps
  <2>4. ASSUME t.op = "text" PROVE TextWork(Message(t), l)'
    <3>1. TaskOf(q).op = "text" /\ Message(t) = Message(TaskOf(q))
      BY <2>1, <2>4 DEF Keeps, Message
    <3> QED BY <1>3, <2>2, <3>1, TextWorkNext
  <2> QED BY <2>3, <2>4
<1> QED BY <1>1, <1>2, <1>3, WorkNext

LEMMA UnaskedInvNext == ASSUME HistoryInv, [Next]_vars PROVE UnaskedInv'
<1> SUFFICES ASSUME NEW c \in Conn, NEW r \in Room, ~In(r, asked'[c])
             PROVE  Unheard(c, r)' /\ Unsubscribed(c, r)'
  BY DEF UnaskedInv
<1>1. TypeOK
  BY DEF HistoryInv
<1>2. ~In(r, asked[c])
  BY <1>1, GrowsNext
<1>3. Unheard(c, r) /\ Unsubscribed(c, r)
  BY <1>2 DEF HistoryInv, UnaskedInv
<1>4. ASSUME NEW w \in Worker, pc[w] \in {"resend", "subscribe"}, job[w].conn = c, job[w].room = r
      PROVE  FALSE
  BY <1>1, <1>2, <1>4, LineType, RunningWork DEF JoinWork, TypeOK
<1>5. Unheard(c, r)'
  BY <1>3, <1>4, UnheardNext DEF Replays
<1> QED BY <1>1, <1>3, <1>4, <1>5, UnsubscribedNext

LEMMA OneKeyInvNext == ASSUME HistoryInv, [Next]_vars PROVE OneKeyInv'
<1> SUFFICES ASSUME NEW c \in Conn, NEW r \in Room, AskedOnce(c, r)',
                    NEW i \in Id, NEW j \in Id, subscribers'[r][i] = c, subscribers'[r][j] = c
             PROVE  i = j
  BY DEF OneKeyInv
<1>1. TypeOK /\ ChannelOK
  BY DEF HistoryInv, TypeOK
<1>2. AskedOnce(c, r)
  BY <1>1, GrowsNext DEF AskedOnce
<1>3. subscribers[r][i] = c /\ subscribers[r][j] = c => i = j
  BY <1>2 DEF HistoryInv, OneKeyInv
<1>4. ASSUME NEW w \in Worker, Subscribe(w) PROVE i = j
  <2>1. pc[w] = "subscribe" /\ job[w].op = "join"
    BY <1>1, <1>4, LineType DEF Subscribe, TypeOK
  <2>2. CASE job[w].conn = c /\ job[w].room = r
    <3>1. Unsubscribed(c, r)
      BY <1>2, <2>1, <2>2, RunningWork DEF JoinWork, BeforeSubscribe
    <3> QED BY <1>1, <1>4, <2>2, <3>1, SubscribeIs DEF Unsubscribed
  <2>3. CASE job[w].conn # c \/ job[w].room # r
    BY <1>1, <1>3, <1>4, <2>3, SubscribeIs
  <2> QED BY <2>2, <2>3
<1>5. ASSUME Erase PROVE i = j
  BY <1>1, <1>3, <1>5, NoneAssumption DEF Erase, ChannelOK
<1> QED BY <1>3, <1>4, <1>5, WritersNext DEF Writers


\* Whose round of notification a step goes on with, and whom it has still to visit.
LEMMA SendingNext ==
  ASSUME TypeOK, [Next]_vars, NEW w \in Worker, pc'[w] = "send"
  PROVE  /\ Keeps(job[w], job'[w]) /\ Message(job'[w]) = Message(job[w])
         /\ pc[w] = "send" \/ (pc[w] = "notify" /\ Notify(w))
<1>1. Keeps(job[w], job'[w]) => Message(job'[w]) = Message(job[w])
  BY DEF Keeps, Message
<1>2. CASE pc'[w] = pc[w] /\ job'[w] = job[w]
  BY <1>1, <1>2 DEF Keeps
<1>3. ASSUME NEW c \in Conn, ReadAuth(c) \/ \E r \in Room : ReadJoin(c, r) \/ ReadText(c, r)
      PROVE  pc'[w] = pc[w] /\ job'[w] = job[w]
  BY <1>3 DEF ReadAuth, ReadJoin, ReadText, Post, workerVars
<1>4. ASSUME NEW v \in Worker, Take(v) PROVE pc'[w] = pc[w] /\ job'[w] = job[w]
  <2>1. Head(tasks) \in Tasks
    BY <1>4 DEF Take, TypeOK, TasksOK
  <2>2. FirstStep(Head(tasks).op) # "send"
    BY <2>1 DEF Tasks, FirstStep
  <2> QED BY <1>4, <2>2 DEF Take, Goto, TypeOK, WorkersOK
<1>5. ASSUME NEW v \in Worker, v # w, Run(v) PROVE pc'[w] = pc[w] /\ job'[w] = job[w]
  BY <1>5, RunTasks
<1>6. CASE Run(w)
  <2>1. pc[w] # "idle" /\ Keeps(job[w], job'[w])
    BY <1>6, RunTasks
  <2>2. job'[w].op \in {"join", "text"}
    <3>1. WorkerOK(w)'
      BY TypeNext DEF TypeOK, WorkersOK
    <3>2. job'[w] \in Tasks /\ pc'[w] \in LinesOf(job'[w].op)
      BY <3>1 DEF WorkerOK
    <3>3. job'[w].op \in {"join", "text", "auth", "authReply", "joinReply"}
      BY <3>2 DEF Tasks
    <3> QED BY <3>2, <3>3 DEF LinesOf
  <2>3. job[w].op \in {"join", "text"}
    BY <2>1, <2>2 DEF Keeps
  <2>4. pc[w] \in {"send", "notify"}
    BY <1>6, <2>3, JoinLines, TextLines
  <2>5. pc[w] = "notify" => Notify(w)
    BY <1>6 DEF Run, Join, DoAutorisation, SendAnswer, Find, Enter, EmplaceEntry, Push, Load,
                Create, Replay, Resend, Subscribe, Record, ReplyJoin, LogMessage, Save,
                NotifyNext
  <2> QED BY <1>1, <2>1, <2>4, <2>5
<1> QED BY <1>2, <1>3, <1>4, <1>5, <1>6, WritersNext DEF Writers

LEMMA VisitsNext ==
  ASSUME TypeOK, [Next]_vars, NEW w \in Worker, pc[w] = "send", pc'[w] = "send",
         NEW i \in todo'[w]
  PROVE  \/ i \in todo[w] /\ subscribers'[job[w].room][i] \in {subscribers[job[w].room][i], NoConn}
         \/ \E v \in Worker :
              /\ Subscribe(v) /\ pc[v] = "subscribe" /\ job[v].op = "join"
              /\ job[v].room = job[w].room /\ i = client_id[job[v].conn]
              /\ subscribers[job[w].room][i] = NoConn
              /\ subscribers'[job[w].room][i] = job[v].conn
<1>0. todo \in [Thread -> SUBSET Id] /\ w \in Thread /\ w # IO /\ IO \in Thread
  BY NoneAssumption DEF TypeOK, LoopOK, Thread
<1>1. \A v \in Worker : v \in Thread
  BY DEF Thread
<1>r. job[w].room \in Room /\ job[w].op \in {"join", "text"}
  BY LineType, JobType DEF TypeOK
<1> DEFINE r == job[w].room
<1>2. ASSUME NEW v \in Worker, Subscribe(v)
      PROVE  \/ i \in todo[w] /\ subscribers'[r][i] = subscribers[r][i]
             \/ /\ pc[v] = "subscribe" /\ job[v].op = "join"
                /\ job[v].room = r /\ i = client_id[job[v].conn]
                /\ subscribers[r][i] = NoConn /\ subscribers'[r][i] = job[v].conn
  <2>1. pc[v] = "subscribe" /\ job[v].op = "join"
    BY <1>2, LineType DEF Subscribe, TypeOK
  <2>2. CASE subscribers[job[v].room][client_id[job[v].conn]] = NoConn
    <3>1. MeetNew(client_id[job[v].conn], job[v].room)
      BY <1>2, <2>2 DEF Subscribe
    <3>2. PICK d, q : d = client_id[job[v].conn] /\ q = job[v].room
      OBVIOUS
    <3>3. PICK behind \in SUBSET {t \in Thread : Looping(t, q)} :
            todo' = [t \in Thread |-> IF t \in behind THEN todo[t] \cup {d} ELSE todo[t]]
      BY <3>1, <3>2 DEF MeetNew
    <3>4. CASE w \in behind
      <4>1. q = r /\ (i \in todo[w] \/ i = d)
        BY <1>0, <3>3, <3>4 DEF Looping
      <4>2. i \in Id
        BY <1>0, <1>2, <3>2, <4>1, SubscribeIs
      <4>3. CASE i = d
        <5>0. subscribers[r][i] = NoConn /\ r = job[v].room /\ i = client_id[job[v].conn]
          BY <2>2, <3>2, <4>1, <4>3
        <5>1. subscribers'[r][i] = job[v].conn
          BY <1>2, <1>r, <4>2, <5>0, SubscribeIs
        <5> QED BY <2>1, <3>2, <4>1, <4>3, <5>0, <5>1
      <4>4. CASE i # d
        <5>1. subscribers'[r][i] = subscribers[r][i]
          BY <1>2, <1>r, <3>2, <4>2, <4>4, SubscribeIs
        <5> QED BY <4>1, <4>4, <5>1
      <4> QED BY <4>3, <4>4
    <3>5. CASE w \notin behind
      <4>1. i \in todo[w] /\ i \in Id
        BY <1>0, <3>3, <3>5
      <4>2. CASE q = r /\ i = d
        <5>0. subscribers[r][i] = NoConn /\ r = job[v].room /\ i = client_id[job[v].conn]
          BY <2>2, <3>2, <4>2
        <5>1. subscribers'[r][i] = job[v].conn
          BY <1>2, <1>r, <4>1, <5>0, SubscribeIs
        <5> QED BY <2>1, <3>2, <4>2, <5>0, <5>1
      <4>3. CASE ~(q = r /\ i = d)
        <5>1. subscribers'[r][i] = subscribers[r][i]
          BY <1>2, <1>r, <3>2, <4>1, <4>3, SubscribeIs
        <5> QED BY <4>1, <5>1
      <4> QED BY <4>2, <4>3
    <3> QED BY <3>4, <3>5
  <2>3. CASE subscribers[job[v].room][client_id[job[v].conn]] # NoConn
    BY <1>2, <2>3 DEF Subscribe
  <2> QED BY <2>2, <2>3
<1>3. ASSUME NEW v \in Worker, Notify(v)
      PROVE  i \in todo[w] /\ UNCHANGED subscribers
  <2>1. v # w
    BY <1>3 DEF Notify
  <2> QED BY <1>0, <1>1, <1>3, <2>1 DEF Notify, BeginLoop, channelVars
<1>4. ASSUME NEW v \in Worker, NEW j \in Id, NotifyNext(v, j)
      PROVE  i \in todo[w] /\ UNCHANGED subscribers
  BY <1>0, <1>1, <1>4 DEF NotifyNext, Deliver, channelVars
<1>5. ASSUME NEW j \in Id, NotifyLeaveNext(j) PROVE i \in todo[w] /\ UNCHANGED subscribers
  BY <1>0, <1>5 DEF NotifyLeaveNext, Deliver, channelVars
<1>6. CASE NotifyLeave
  BY <1>0, <1>6 DEF NotifyLeave, BeginLoop, channelVars
<1>7. CASE Erase
  <2>1. i \in todo[w]
    BY <1>0, <1>7 DEF Erase, MissErased
  <2>2. i \in Id /\ leaving \in Room /\ free_id \in Id
    BY <1>0, <1>7, <2>1 DEF Erase, TypeOK, FreeOK
  <2>3. subscribers'[r][i] \in {subscribers[r][i], NoConn}
    BY <1>7, <1>r, <2>2 DEF Erase, TypeOK, ChannelOK
  <2> QED BY <2>1, <2>3
<1>8. CASE UNCHANGED <<todo, subscribers>>
  BY <1>8
<1>9. UNCHANGED todo => UNCHANGED subscribers \/ (\E v \in Worker : Subscribe(v)) \/ Erase
  BY WritersNext DEF Writers
<1> HIDE DEF r
<1>10. \/ \E v \in Worker : Subscribe(v) \/ Notify(v)
       \/ \E v \in Worker, j \in Id : NotifyNext(v, j)
       \/ \E j \in Id : NotifyLeaveNext(j)
       \/ NotifyLeave \/ Erase \/ UNCHANGED <<todo, subscribers>>
  BY <1>9, WritersNext DEF DataWriters
<1> QED BY <1>2, <1>3, <1>4, <1>5, <1>6, <1>7, <1>8, <1>10 DEF r

LEMMA SameText ==
  ASSUME HistoryInv, NEW v \in Worker, NEW w \in Worker, pc[v] # "idle", pc[w] # "idle",
         job[v].op = "text", job[w].op = "text", Message(job[v]) = Message(job[w])
  PROVE  v = w
<1>1. <<"run", v>> \in Works /\ TaskOf(<<"run", v>>) = job[v]
  BY WorksAre, PlaceOf
<1>2. \A t : t.op = "text" => Message(t).from = t.conn /\ Message(t).n = t.n
  BY DEF Message, Text
<1>3. job[v].conn = job[w].conn /\ job[v].n = job[w].n
  <2>1. PICK m : m = Message(job[v]) /\ m = Message(job[w])
    OBVIOUS
  <2>2. m.from = job[v].conn /\ m.n = job[v].n
    BY <1>2, <2>1
  <2>3. m.from = job[w].conn /\ m.n = job[w].n
    BY <1>2, <2>1
  <2> QED BY <2>2, <2>3
<1>4. Same(job[v], job[w])
  BY <1>3 DEF Same
<1>5. <<"run", v>> = <<"run", w>>
  BY <1>1, <1>4, OneRuns
<1> QED BY <1>5

LEMMA HeardInvNext == ASSUME HistoryInv, [Next]_vars PROVE HeardInv'
<1> SUFFICES ASSUME NEW c \in Conn, NEW m, In(m, outbox'[c]), m.n > 0, AskedOnce(c, m.room)'
             PROVE  Once(m, outbox'[c])
  BY DEF HeardInv
<1>1. TypeOK /\ outbox[c] \in Seq(Msg)
  BY SeqTypes DEF HistoryInv
<1>2. m \in Msg /\ m.room \in Room
  <2>1. outbox'[c] \in Seq(Msg)
    BY TypeNext DEF HistoryInv, TypeOK, SendOK
  <2>2. m \in Msg
    BY <2>1 DEF In
  <2> QED BY <2>2 DEF Msg
<1>3. AskedOnce(c, m.room)
  BY <1>1, <1>2, GrowsNext DEF AskedOnce
<1>4. Once(m, outbox[c])
  <2>1. In(m, outbox[c]) => Once(m, outbox[c])
    BY <1>3 DEF HistoryInv, HeardInv
  <2> QED BY <2>1 DEF In, Once
<1>5. ASSUME NEW x \in Msg, outbox'[c] = Append(outbox[c], x), x = m => ~In(m, outbox[c])
      PROVE  Once(m, outbox'[c])
  BY <1>1, <1>4, <1>5, InAppend
<1>6. ASSUME NEW w \in Worker, Replays(w, c), outbox'[c] = Append(outbox[c], Head(history[w]))
      PROVE  Once(m, outbox'[c])
  <2>1. PICK h : h = Head(history[w])
    OBVIOUS
  <2>2. h \in Msg /\ (AskedOnce(c, h.room) /\ h.n > 0 => ~In(h, outbox[c]))
    BY <1>6, <2>1, ReplaysOld
  <2> QED BY <1>3, <1>5, <1>6, <2>1, <2>2
<1>7. ASSUME NEW w \in Worker, NEW i \in Id, Visits(w, i, m), subscribers[m.room][i] = c
      PROVE  ~In(m, outbox[c])
  <2>1. /\ pc[w] = "send" /\ job[w].op = "text" /\ i \in todo[w]
        /\ m = Message(job[w]) /\ job[w].room = m.room
    BY <1>7, RunningRoom DEF Visits
  <2> QED BY <1>3, <1>7, <2>1 DEF HistoryInv, VisitInv
<1>8. ASSUME NEW i \in Id, NEW x \in Msg, subscribers[x.room][i] = c,
             outbox'[c] = Append(outbox[c], x),
             (x.n = 0 /\ x.from = NoConn) \/ \E w \in Worker : Visits(w, i, x)
      PROVE  Once(m, outbox'[c])
  <2>1. CASE x.n = 0
    BY <1>5, <1>8, <2>1
  <2>2. CASE x # m
    BY <1>5, <1>8, <2>2
  <2>3. CASE x = m /\ \E w \in Worker : Visits(w, i, x)
    BY <1>5, <1>7, <1>8, <2>3
  <2> QED BY <1>8, <2>1, <2>2, <2>3
<1> QED BY <1>4, <1>6, <1>8, OutboxNext

LEMMA VisitInvNext == ASSUME HistoryInv, [Next]_vars PROVE VisitInv'
<1> SUFFICES ASSUME NEW w \in Worker, pc'[w] = "send", job'[w].op = "text", NEW c \in Conn,
                    NEW r, r = job'[w].room, AskedOnce(c, r)',
                    NEW i \in todo'[w], subscribers'[r][i] = c, NEW m, m = Message(job'[w])
             PROVE  ~In(m, outbox'[c])
  BY DEF VisitInv
<1>1. TypeOK /\ outbox[c] \in Seq(Msg)
  BY SeqTypes DEF HistoryInv
<1>2. /\ job[w].op = "text" /\ job[w].room = r /\ m = Message(job[w])
      /\ pc[w] = "send" \/ (pc[w] = "notify" /\ Notify(w))
  BY <1>1, SendingNext DEF Keeps
<1>3. r \in Room /\ m.room = r /\ m \in Msg /\ TextWork(m, pc[w])
  BY <1>2, RunningRoom, RunningWork
<1>4. AskedOnce(c, r)
  BY <1>1, <1>3, GrowsNext DEF AskedOnce
<1>5. CASE pc[w] = "notify" /\ Notify(w)
  BY <1>3, <1>5 DEF TextWork, Notify, sendVars
<1>6. CASE pc[w] = "send"
  <2>0. ~In(m, history_room[r]) /\ m.from \in Conn
    BY <1>3, <1>6 DEF TextWork
  <2>1. ASSUME NEW v \in Worker, Subscribe(v), pc[v] = "subscribe", job[v].op = "join",
               job[v].room = r, job[v].conn = c
        PROVE  ~In(m, outbox'[c])
    <3>1. Replayed(c, r)
      BY <1>4, <2>1, RunningWork DEF JoinWork, BeforeSubscribe
    <3>2. UNCHANGED outbox
      BY <2>1 DEF Subscribe, sendVars
    <3> QED BY <1>3, <2>0, <3>1, <3>2 DEF Replayed
  <2>2. CASE i \in todo[w] /\ subscribers[r][i] = c
    <3>1. ~In(m, outbox[c])
      BY <1>2, <1>4, <1>6, <2>2 DEF HistoryInv, VisitInv
    <3>2. ASSUME NEW x \in Msg, x # m, outbox'[c] = Append(outbox[c], x)
          PROVE  ~In(m, outbox'[c])
      BY <1>1, <3>1, <3>2, InAppend
    <3>3. ASSUME NEW v \in Worker, Replays(v, c), outbox'[c] = Append(outbox[c], Head(history[v]))
          PROVE  ~In(m, outbox'[c])
      <4>1. PICK h : h = Head(history[v])
        OBVIOUS
      <4>2. h \in Msg /\ In(h, history_room[h.room])
        BY <3>3, <4>1, ReplaysOld
      <4> QED BY <1>3, <2>0, <3>2, <3>3, <4>1, <4>2
    <3>4. ASSUME NEW v \in Worker, NEW j \in Id, Visits(v, j, m), subscribers[m.room][j] = c
          PROVE  FALSE
      <4>1. v = w
        BY <1>2, <1>6, <3>4, SameText DEF Visits
      <4>2. i # j
        BY <1>1, <3>4, <4>1 DEF Visits, NotifyNext, Deliver, TypeOK, LoopOK, Thread
      <4>3. i \in Id
        BY <1>1, <2>2 DEF TypeOK, LoopOK, Thread
      <4> QED BY <1>3, <1>4, <2>2, <3>4, <4>2, <4>3 DEF HistoryInv, OneKeyInv
    <3>5. ASSUME NEW x \in Msg, NEW j \in Id, outbox'[c] = Append(outbox[c], x),
                 subscribers[x.room][j] = c,
                 (x.n = 0 /\ x.from = NoConn) \/ \E v \in Worker : Visits(v, j, x)
          PROVE  ~In(m, outbox'[c])
      <4>1. x # m
        BY <2>0, <3>4, <3>5, NoneAssumption
      <4> QED BY <3>2, <3>5, <4>1
    <3> QED BY <3>1, <3>3, <3>5, OutboxNext
  <2>3. c # NoConn
    BY NoneAssumption
  <2> QED BY <1>1, <1>2, <1>6, <2>1, <2>2, <2>3, VisitsNext
<1> QED BY <1>2, <1>5, <1>6


LEMMA KnownInvNext == ASSUME HistoryInv, [Next]_vars PROVE KnownInv'
<1>1. TypeOK /\ TypeOK' /\ channels \subseteq channels'
  BY TypeNext, GrowsNext DEF HistoryInv
<1>2. ASSUME NEW c \in Conn PROVE told'[c] \subseteq channels' \cup {NoRoom}
  <2>1. told[c] \subseteq channels \cup {NoRoom}
    BY DEF HistoryInv, KnownInv
  <2>2. ASSUME NEW w \in Worker, SendAnswer(w)
        PROVE  told'[c] \subseteq told[c] \cup channels \cup {NoRoom}
    <3>1. CASE UNCHANGED told
      BY <3>1
    <3>2. CASE told' # told
      <4>1. pc[w] = "joinReply" /\ JoinAnswered(job[w].conn, job[w].room, job[w].ok)
        BY <2>2, <3>2 DEF SendAnswer, AuthAnswered, AnswerLost, clientVars
      <4>2. job[w] \in Pending /\ job[w].op = "joinReply"
        BY <1>1, <4>1, LineType DEF Pending, TypeOK
      <4>3. job[w].room \in channels \cup {NoRoom}
        BY <4>2 DEF HistoryInv, KnownInv
      <4>4. told'[c] \subseteq told[c] \cup {job[w].room}
        <5> DEFINE h == IF job[w].ok THEN told[job[w].conn] \cup {job[w].room} ELSE told[job[w].conn]
        <5>1. told' = [told EXCEPT ![job[w].conn] = h]
          BY <3>2, <4>1 DEF JoinAnswered, AnswerLost, clientVars
        <5>2. h \subseteq told[job[w].conn] \cup {job[w].room}
          OBVIOUS
        <5> HIDE DEF h
        <5>3. CASE c = job[w].conn
          BY <1>1, <5>1, <5>2, <5>3 DEF TypeOK, ClientOK
        <5>4. CASE c # job[w].conn
          BY <1>1, <5>1, <5>4 DEF TypeOK, ClientOK
        <5> QED BY <5>3, <5>4
      <4> QED BY <4>3, <4>4
    <3> QED BY <3>1, <3>2
  <2> QED BY <1>1, <2>1, <2>2, WritersNext DEF Writers
<1>3. ASSUME NEW c \in Conn PROVE room_id'[c] \in channels' \cup {NoRoom}
  <2>1. room_id[c] \in channels \cup {NoRoom}
    BY DEF HistoryInv, KnownInv
  <2>2. ASSUME NEW w \in Worker, Record(w) PROVE room_id'[c] \in channels \cup {NoRoom}
    <3>1. pc[w] = "record" /\ job[w].op = "join"
      BY <1>1, <2>2, LineType DEF Record, TypeOK
    <3>2. job[w].room \in channels
      BY <3>1, RunningWork DEF JoinWork
    <3> QED BY <1>1, <2>1, <2>2, <3>2 DEF Record, TypeOK, ConnOK
  <2>3. ASSUME Close PROVE room_id'[c] \in channels \cup {NoRoom}
    BY <1>1, <2>1, <2>3 DEF Close, TypeOK, ConnOK
  <2> QED BY <1>1, <2>1, <2>2, <2>3, WritersNext DEF Writers
<1>4. ASSUME NEW t \in Pending', t.op = "joinReply" PROVE t.room \in channels' \cup {NoRoom}
  <2>1. CASE t \in Pending
    BY <1>1, <1>4, <2>1 DEF HistoryInv, KnownInv
  <2>2. ASSUME NEW w \in Worker, ReplyJoin(w), t.conn = job[w].conn, t.room = room_id[t.conn]
        PROVE  t.room \in channels \cup {NoRoom}
    <3>1. job[w].conn \in Conn
      BY <1>1, <2>2, JobType DEF ReplyJoin, TypeOK
    <3> QED BY <2>2, <3>1 DEF HistoryInv, KnownInv
  <2> QED BY <1>1, <1>4, <2>1, <2>2, PendingNext
<1>5. ASSUME iopc' \in {"notify", "send", "erase"} PROVE leaving' \in channels'
  <2>1. CASE iopc' = iopc /\ leaving' = leaving
    BY <1>1, <1>5, <2>1 DEF HistoryInv, KnownInv
  <2>2. ASSUME NEW r \in Room, LeaveRoom(r) PROVE leaving' \in channels
    BY <1>5, <2>2 DEF LeaveRoom, IoGoto
  <2>3. CASE NotifyLeave \/ LogLeave \/ \E i \in Id : NotifyLeaveNext(i)
    BY <1>1, <2>3
       DEF NotifyLeave, LogLeave, NotifyLeaveNext, freeVars, IoGoto, HistoryInv, KnownInv
  <2>4. ASSUME NEW c \in Conn, HeaderReadFails(c) \/ AnswerWriteFails(c) \/ QueueWriteFails(c)
        PROVE  FALSE
    BY <1>5, <2>4 DEF HeaderReadFails, AnswerWriteFails, QueueWriteFails, FreeConnection
  <2>5. CASE Erase \/ EraseEntry \/ Forget \/ Close
    BY <1>5, <2>5 DEF Erase, EraseEntry, Forget, Close, IoGoto
  <2> QED BY <1>1, <2>1, <2>2, <2>3, <2>4, <2>5, WritersNext DEF Writers, DataWriters, Free
<1> QED BY <1>2, <1>3, <1>4, <1>5 DEF KnownInv

LEMMA SentNext ==
  ASSUME TypeOK, [Next]_vars, NEW m \in Msg, Sent(m)
  PROVE  Sent(m)'
<1> SUFFICES ASSUME m.from \in Conn PROVE m.n <= texts'[m.from]
  BY DEF Sent
<1>1. m.n \in Nat /\ m.n <= texts[m.from]
  BY DEF Msg, Sent
<1>2. texts[m.from] \in Nat /\ texts'[m.from] \in Nat /\ texts[m.from] <= texts'[m.from]
  BY GrowsNext
<1> QED BY <1>1, <1>2

LEMMA TextSent ==
  ASSUME HistoryInv, NEW w \in Worker, pc[w] # "idle", job[w].op = "text",
         NEW m, m = Message(job[w])
  PROVE  Sent(m)
<1>1. m.from \in Conn /\ m.n \in 1 .. texts[m.from]
  BY RunningWork DEF TextWork
<1>2. texts[m.from] \in Nat
  BY <1>1 DEF HistoryInv, TypeOK, ClientOK
<1> QED BY <1>1, <1>2 DEF Sent

LEMMA NobodysSent == ASSUME NEW m, m.from = NoConn PROVE Sent(m)
BY NoneAssumption DEF Sent

LEMMA SentInvNext == ASSUME HistoryInv, [Next]_vars PROVE SentInv'
<1> SUFFICES ASSUME NEW c \in Conn, NEW m, In(m, outbox'[c]) PROVE Sent(m)'
  BY DEF SentInv
<1>1. TypeOK /\ outbox[c] \in Seq(Msg)
  BY SeqTypes DEF HistoryInv
<1>2. m \in Msg
  <2>1. outbox'[c] \in Seq(Msg)
    BY TypeNext DEF HistoryInv, TypeOK, SendOK
  <2> QED BY <2>1 DEF In
<1>3. In(m, outbox[c]) => Sent(m)
  BY DEF HistoryInv, SentInv
<1>4. ASSUME NEW x \in Msg, outbox'[c] = Append(outbox[c], x), Sent(x) PROVE Sent(m)
  BY <1>1, <1>3, <1>4, InAppend
<1>5. ASSUME NEW w \in Worker, Replays(w, c), outbox'[c] = Append(outbox[c], Head(history[w]))
      PROVE  Sent(m)
  <2>1. PICK h : h = Head(history[w])
    OBVIOUS
  <2>2. h \in Msg /\ Sent(h)
    BY <1>5, <2>1, ReplaysOld
  <2> QED BY <1>4, <1>5, <2>1, <2>2
<1>6. ASSUME NEW i \in Id, NEW x \in Msg,
             (x.n = 0 /\ x.from = NoConn) \/ \E w \in Worker : Visits(w, i, x)
      PROVE  Sent(x)
  <2>1. ASSUME NEW w \in Worker, Visits(w, i, x) PROVE Sent(x)
    BY <2>1, TextSent DEF Visits
  <2> QED BY <1>6, <2>1, NobodysSent
<1>7. Sent(m)
  BY <1>2, <1>3, <1>4, <1>5, <1>6, OutboxNext
<1> QED BY <1>1, <1>2, <1>7, SentNext

\* What is kept of a room stays kept, with a message of that room that is not there.
LEMMA KeptNext ==
  ASSUME TypeOK, [Next]_vars, NEW r, NEW s \in Seq(Msg), Kept(s, r)
  PROVE  Kept(s, r)'
<1> SUFFICES ASSUME NEW m, In(m, s) PROVE m.room = r /\ Sent(m)' /\ (m.n > 0 => Once(m, s))
  BY DEF Kept
<1>1. m \in Msg /\ m.room = r /\ Sent(m) /\ (m.n > 0 => Once(m, s))
  BY DEF In, Kept
<1> QED BY <1>1, SentNext

LEMMA KeptAppend ==
  ASSUME TypeOK, [Next]_vars, NEW r, NEW s \in Seq(Msg), Kept(s, r),
         NEW x \in Msg, x.room = r, Sent(x), x.n > 0 => ~In(x, s),
         NEW a, a = Append(s, x)
  PROVE  Kept(a, r)'
<1> SUFFICES ASSUME NEW m, In(m, a) PROVE m.room = r /\ Sent(m)' /\ (m.n > 0 => Once(m, a))
  BY DEF Kept
<1>1. In(m, s) \/ m = x
  BY InAppend
<1>2. Kept(s, r)'
  BY KeptNext
<1>3. In(m, s) => m.room = r /\ Sent(m)' /\ (m.n > 0 => Once(m, s))
  BY <1>2 DEF Kept
<1>4. Sent(x)'
  BY SentNext
<1>5. m.n > 0 => Once(m, s)
  BY <1>1, <1>3 DEF In, Once
<1>6. m.n > 0 => Once(m, a)
  BY <1>5, InAppend
<1> QED BY <1>1, <1>3, <1>4, <1>6

LEMMA KeptInvNext == ASSUME HistoryInv, [Next]_vars PROVE KeptInv'
<1> SUFFICES ASSUME NEW r \in Room, NEW h, h = history_room'[r], NEW d, d = db'[r]
             PROVE  Kept(h, r)' /\ Kept(d, r)'
  BY DEF KeptInv, Kept, Sent
<1>1. TypeOK /\ history_room[r] \in Seq(Msg) /\ db[r] \in Seq(Msg)
  BY SeqTypes DEF HistoryInv
<1>2. Kept(history_room[r], r) /\ Kept(db[r], r)
  BY DEF HistoryInv, KeptInv
<1>3. PICK s, e : s = history_room[r] /\ e = db[r]
  OBVIOUS
<1>4. Kept(s, r)' /\ Kept(e, r)'
  BY <1>1, <1>2, <1>3, KeptNext
<1>5. ASSUME NEW x \in Msg, x.room = r, h = Append(s, x),
             (x.n = 0 /\ x.from = NoConn) \/ \E w \in Worker : Logs(w, x)
      PROVE  Kept(h, r)'
  <2>1. ASSUME NEW w \in Worker, Logs(w, x) PROVE Sent(x) /\ ~In(x, s)
    <3>1. TextWork(x, "send")
      BY <2>1, RunningWork DEF Logs
    <3> QED BY <1>3, <1>5, <2>1, <3>1, TextSent DEF Logs, TextWork
  <2>2. Sent(x) /\ (x.n > 0 => ~In(x, s))
    BY <1>5, <2>1, NobodysSent
  <2> QED BY <1>1, <1>2, <1>3, <1>5, <2>2, KeptAppend
<1>6. ASSUME r \in channels PROVE Kept(h, r)'
  <2>1. \/ h = s
        \/ \E x \in Msg : /\ x.room = r /\ h = Append(s, x)
                          /\ (x.n = 0 /\ x.from = NoConn) \/ \E w \in Worker : Logs(w, x)
    BY <1>3, <1>6, LoggedNext
  <2>2. CASE h = s
    BY <1>4, <2>2
  <2>3. ASSUME NEW x \in Msg, x.room = r, h = Append(s, x),
               (x.n = 0 /\ x.from = NoConn) \/ \E w \in Worker : Logs(w, x)
        PROVE  Kept(h, r)'
    BY <1>5, <2>3
  <2> QED BY <2>1, <2>2, <2>3
<1>7. ASSUME NEW w \in Worker, job[w].room = r, LoadedAt(w), h = history[w],
             history[w] \in Seq(Msg)
      PROVE  Kept(h, r)'
  <2>1. Kept(h, r)
    BY <1>7 DEF LoadedAt
  <2> QED BY <1>1, <1>7, <2>1, KeptNext
<1>8. r \notin channels => Kept(h, r)'
  BY <1>3, <1>4, <1>7, CreatedNext
<1>9. ASSUME NEW w \in Worker, NEW x \in Msg, Saves(w, x), x.room = r, d = Append(e, x)
      PROVE  Kept(d, r)'
  <2>1. TextWork(x, "save") /\ Sent(x)
    BY <1>9, RunningWork, TextSent DEF Saves
  <2>2. ~In(x, e)
    BY <1>3, <1>9, <2>1 DEF TextWork
  <2> QED BY <1>1, <1>2, <1>3, <1>9, <2>1, <2>2, KeptAppend
<1>10. Kept(d, r)'
  BY <1>3, <1>4, <1>9, SavedNext
<1> QED BY <1>6, <1>8, <1>10

\* What a join holds of the history between two of its steps.
LEMMA HoldingNext ==
  ASSUME TypeOK, [Next]_vars, NEW w \in Worker, pc'[w] \in {"create", "resend"}
  PROVE  /\ Keeps(job[w], job'[w])
         /\ \/ pc'[w] = pc[w] /\ history'[w] = history[w] /\ ~Resend(w)
            \/ pc'[w] = "create" /\ Load(w)
            \/ pc'[w] = "resend" /\ (Replay(w) \/ Resend(w))
<1> USE DEF TypeOK
<1>1. ASSUME NEW v \in Worker, v # w, Load(v) \/ Create(v) \/ Replay(v) \/ Resend(v)
      PROVE  history'[w] = history[w]
  BY <1>1 DEF Load, Create, Replay, Resend, HeldOK
<1>2. CASE ~Run(w)
  <2>1. history'[w] = history[w]
    BY <1>1, <1>2, WritersNext DEF DataWriters, Run, Join
  <2>2. ASSUME NEW c \in Conn, ReadAuth(c) \/ \E r \in Room : ReadJoin(c, r) \/ ReadText(c, r)
        PROVE  pc'[w] = pc[w] /\ job'[w] = job[w]
    BY <2>2 DEF ReadAuth, ReadJoin, ReadText, Post, workerVars
  <2>3. ASSUME NEW v \in Worker, Take(v) PROVE pc'[w] = pc[w] /\ job'[w] = job[w]
    <3>1. Head(tasks) \in Tasks
      BY <2>3 DEF Take, TasksOK
    <3>2. FirstStep(Head(tasks).op) \notin {"create", "resend"}
      BY <3>1 DEF Tasks, FirstStep
    <3> QED BY <2>3, <3>2 DEF Take, Goto, WorkersOK
  <2>4. ASSUME NEW v \in Worker, Run(v) PROVE pc'[w] = pc[w] /\ job'[w] = job[w]
    <3> HIDE DEF TypeOK
    <3> QED BY <1>2, <2>4, RunTasks
  <2>5. pc'[w] = pc[w] /\ job'[w] = job[w]
    BY <2>2, <2>3, <2>4, WritersNext DEF Writers
  <2> QED BY <1>2, <2>1, <2>5 DEF Keeps, Run, Join
<1>3. CASE Run(w)
  <2>1. Keeps(job[w], job'[w])
    <3> HIDE DEF TypeOK
    <3> QED BY <1>3, RunTasks
  <2>2. \A l : Goto(w, l) => pc'[w] = l
    BY DEF Goto, WorkersOK
  <2>3. ~(DoAutorisation(w) \/ SendAnswer(w) \/ ReplyJoin(w) \/ Save(w))
    BY <2>2 DEF DoAutorisation, SendAnswer, ReplyJoin, Save, Finish
  <2>4. ~(Enter(w) \/ EmplaceEntry(w) \/ Push(w) \/ Find(w) \/ Create(w))
    BY <2>2 DEF Enter, EmplaceEntry, Push, Find, Create, JoinNext
  <2>5. ~(Subscribe(w) \/ Notify(w) \/ LogMessage(w) \/ Record(w))
    BY <2>2 DEF Subscribe, Notify, LogMessage, Record, JoinNext
  <2>6. ASSUME NEW i \in Id, NotifyNext(w, i) PROVE FALSE
    BY <2>6 DEF NotifyNext, workerVars
  <2>7. Load(w) => pc'[w] = "create"
    BY <2>2 DEF Load
  <2>8. Replay(w) \/ Resend(w) => pc'[w] = "resend"
    BY <2>2 DEF Replay, Resend, Resume, JoinNext
  <2> QED BY <1>3, <2>1, <2>3, <2>4, <2>5, <2>6, <2>7, <2>8 DEF Run, Join
<1> QED BY <1>2, <1>3

LEMMA LoadedNext ==
  ASSUME HistoryInv, [Next]_vars, NEW w \in Worker, pc'[w] = "create"
  PROVE  LoadedAt(w)'
<1>1. /\ Keeps(job[w], job'[w]) /\ TypeOK
      /\ \/ pc[w] = "create" /\ history'[w] = history[w]
         \/ Load(w)
  BY HoldingNext DEF HistoryInv
<1>2. PICK r, h : r = job'[w].room /\ h = history'[w]
  OBVIOUS
<1> SUFFICES /\ Kept(h, r)'
             /\ r \notin channels' =>
                  /\ \A m : In(m, h) => In(m, db'[r])
                  /\ db_ptr' = "open" => \A m : In(m, db'[r]) => In(m, h) \/ m \in early'
  BY <1>2 DEF LoadedAt, Kept, Sent
<1>3. job[w].room = r /\ r \in Room /\ pc[w] \in {"create", "load"}
  <2>1. pc[w] \in {"create", "load"}
    BY <1>1 DEF Load
  <2> QED BY <1>1, <1>2, <2>1, LineType, JobType DEF Keeps, TypeOK
<1>4. db[r] \in Seq(Msg) /\ history[w] \in Seq(Msg)
  BY <1>1, <1>3, SeqTypes
<1>5. CASE Load(w)
  <2>1. h = (IF db_ptr = "open" THEN db[r] ELSE <<>>) /\ UNCHANGED dbVars
    BY <1>1, <1>2, <1>3, <1>5 DEF Load, get_history, TypeOK, HeldOK
  <2>2. Kept(db[r], r) /\ Kept(<<>>, r)
    BY <1>3, NoneIn DEF HistoryInv, KeptInv, Kept
  <2>3. Kept(h, r) /\ h \in Seq(Msg)
    BY <1>4, <2>1, <2>2
  <2>4. Kept(h, r)'
    BY <1>1, <2>3, KeptNext
  <2> QED BY <2>1, <2>4, NoneIn DEF dbVars
<1>6. CASE pc[w] = "create" /\ history'[w] = history[w]
  <2>1. /\ Kept(h, r)
        /\ r \notin channels =>
             /\ \A m : In(m, h) => In(m, db[r])
             /\ db_ptr = "open" => \A m : In(m, db[r]) => In(m, h) \/ m \in early
    BY <1>2, <1>3, <1>6 DEF HistoryInv, HeldInv, LoadedAt
  <2>2. Kept(h, r)'
    BY <1>1, <1>2, <1>4, <1>6, <2>1, KeptNext
  <2>3. ASSUME r \notin channels', NEW m, In(m, h) PROVE In(m, db'[r])
    BY <1>1, <1>3, <2>1, <2>3, GrowsNext, TableGrows
  <2>4. ASSUME r \notin channels', db_ptr' = "open", NEW m, In(m, db'[r])
        PROVE  In(m, h) \/ m \in early'
    <3>1. r \notin channels /\ db_ptr = "open" /\ early \subseteq early'
      BY <1>1, <2>4, GrowsNext
    <3>2. CASE In(m, db[r])
      BY <2>1, <3>1, <3>2
    <3>3. ASSUME NEW v \in Worker, Saves(v, m), m.room = r PROVE m \in early
      <4>1. TextWork(m, "save")
        BY <3>3, RunningWork DEF Saves
      <4>2. ~In(m, history_room[r])
        BY <1>3, <3>1, NoneIn DEF HistoryInv, LoggedInv
      <4> QED BY <3>3, <4>1, <4>2 DEF TextWork
    <3>4. ASSUME NEW v \in Worker, NEW x \in Msg, Saves(v, x), x.room = r,
                 db'[r] = Append(db[r], x)
          PROVE  In(m, db[r]) \/ m \in early
      <4>1. In(m, db[r]) \/ m = x
        BY <1>4, <2>4, <3>4, InAppend
      <4> QED BY <3>3, <3>4, <4>1
    <3> QED BY <1>3, <2>4, <3>1, <3>2, <3>4, SavedNext
  <2> QED BY <2>2, <2>3, <2>4
<1> QED BY <1>1, <1>5, <1>6

LEMMA ReplayingNext ==
  ASSUME HistoryInv, [Next]_vars, NEW w \in Worker, pc'[w] = "resend"
  PROVE  ReplayAt(w)'
<1>1. /\ Keeps(job[w], job'[w]) /\ TypeOK
      /\ \/ pc[w] = "resend" /\ history'[w] = history[w] /\ ~Resend(w)
         \/ Replay(w)
         \/ Resend(w)
  BY HoldingNext DEF HistoryInv
<1>2. PICK c, r, h : c = job'[w].conn /\ r = job'[w].room /\ h = history'[w]
  OBVIOUS
<1> SUFFICES /\ Kept(h, r)'
             /\ \A m : In(m, h) => In(m, history_room'[r])
             /\ AskedOnce(c, r)' => \A m : In(m, h) /\ m.n > 0 => ~In(m, outbox'[c])
  BY <1>2 DEF ReplayAt, Kept, Sent, AskedOnce
<1>3. /\ job[w].room = r /\ job[w].conn = c /\ job[w].op = "join"
      /\ r \in Room /\ c \in Conn /\ pc[w] \in {"replay", "resend"}
  <2>1. pc[w] \in {"replay", "resend"}
    BY <1>1 DEF Replay, Resend
  <2> QED BY <1>1, <1>2, <2>1, LineType, JobType DEF Keeps, TypeOK
<1>4. /\ outbox[c] \in Seq(Msg) /\ history_room[r] \in Seq(Msg)
      /\ history[w] \in Seq(Msg) /\ (AskedOnce(c, r)' => AskedOnce(c, r))
  BY <1>1, <1>3, SeqTypes, GrowsNext DEF AskedOnce
<1>5. CASE Replay(w)
  <2>1. h = history_room[r] /\ UNCHANGED <<history_room, outbox>> /\ pc[w] = "replay"
    BY <1>1, <1>2, <1>3, <1>5 DEF Replay, TypeOK, HeldOK, channelVars, sendVars
  <2>2. Kept(h, r)
    BY <1>3, <2>1 DEF HistoryInv, KeptInv
  <2>3. AskedOnce(c, r) => Unheard(c, r)
    BY <1>3, <2>1, RunningWork DEF JoinWork, BeforeReplay
  <2>4. \A m : In(m, h) => m.room = r
    BY <2>2 DEF Kept
  <2>5. AskedOnce(c, r) => \A m : In(m, h) => ~In(m, outbox[c])
    BY <2>3, <2>4 DEF Unheard
  <2>6. Kept(h, r)'
    BY <1>1, <1>4, <2>1, <2>2, KeptNext
  <2> QED BY <1>4, <2>1, <2>5, <2>6
<1>6. ASSUME pc[w] = "resend"
      PROVE  /\ Kept(history[w], r)
             /\ \A m : In(m, history[w]) => m.room = r /\ In(m, history_room'[r])
             /\ AskedOnce(c, r) => \A m : In(m, history[w]) /\ m.n > 0 => ~In(m, outbox[c])
  <2>1. ReplayAt(w)
    BY <1>6 DEF HistoryInv, HeldInv
  <2> QED BY <1>3, <2>1, HistoryGrows DEF ReplayAt, Kept
<1>7. CASE Resend(w)
  <2>1. /\ pc[w] = "resend" /\ history[w] # <<>> /\ h = Tail(history[w])
        /\ outbox'[c] = Append(outbox[c], Head(history[w]))
    BY <1>1, <1>2, <1>3, <1>7 DEF Resend, Hand, TypeOK, HeldOK, SendOK
  <2>2. PICK x : x = Head(history[w])
    OBVIOUS
  <2>3. /\ x \in Msg /\ h \in Seq(Msg)
        /\ \A m : In(m, history[w]) <=> m = x \/ In(m, h)
        /\ \A m : Once(m, history[w]) => Once(m, h) /\ (m = x => ~In(m, h))
    BY <1>4, <2>1, <2>2, InHead
  <2>4. Kept(h, r)
    BY <1>6, <2>1, <2>3 DEF Kept
  <2>5. Kept(h, r)'
    BY <1>1, <2>3, <2>4, KeptNext
  <2>6. ASSUME AskedOnce(c, r), NEW m, In(m, h), m.n > 0 PROVE ~In(m, outbox'[c])
    <3>1. ~In(m, outbox[c]) /\ Once(m, history[w])
      BY <1>6, <2>1, <2>3, <2>6 DEF Kept
    <3> QED BY <1>4, <2>1, <2>2, <2>3, <2>6, <3>1, InAppend
  <2> QED BY <1>4, <1>6, <2>1, <2>3, <2>5, <2>6
<1>8. CASE pc[w] = "resend" /\ history'[w] = history[w] /\ ~Resend(w)
  <2>1. Kept(h, r)'
    BY <1>1, <1>2, <1>4, <1>6, <1>8, KeptNext
  <2>2. ASSUME AskedOnce(c, r), NEW m, In(m, h), m.n > 0 PROVE ~In(m, outbox'[c])
    <3>1. ~In(m, outbox[c]) /\ m.room = r
      BY <1>2, <1>6, <1>8, <2>2
    <3>2. Unsubscribed(c, r)
      BY <1>3, <1>8, <2>2, RunningWork DEF JoinWork, BeforeSubscribe
    <3>3. ASSUME NEW x \in Msg, x # m, outbox'[c] = Append(outbox[c], x)
          PROVE  ~In(m, outbox'[c])
      BY <1>4, <3>1, <3>3, InAppend
    <3>4. ASSUME NEW v \in Worker, Replays(v, c), m = Head(history[v]) PROVE FALSE
      <4>1. job[v].op = "join" /\ job[v].room = r /\ job[v].conn = c /\ pc[v] = "resend"
        BY <1>3, <3>1, <3>4, ReplaysOld DEF Replays
      <4>2. Same(job[v], job[w])
        BY <1>3, <2>2, <4>1 DEF Same
      <4>3. <<"run", v>> \in Works /\ TaskOf(<<"run", v>>) = job[v]
        BY <4>1, WorksAre, PlaceOf
      <4>4. <<"run", v>> = <<"run", w>>
        BY <1>8, <4>2, <4>3, OneRuns
      <4>5. v = w
        BY <4>4
      <4> QED BY <1>8, <3>4, <4>5 DEF Replays
    <3>5. ASSUME NEW v \in Worker, Replays(v, c), outbox'[c] = Append(outbox[c], Head(history[v]))
          PROVE  ~In(m, outbox'[c])
      <4>1. Head(history[v]) \in Msg
        BY <1>3, <3>5, ReplaysOld
      <4> QED BY <3>3, <3>4, <3>5, <4>1
    <3>6. ASSUME NEW x \in Msg, NEW i \in Id, subscribers[x.room][i] = c,
                 outbox'[c] = Append(outbox[c], x)
          PROVE  ~In(m, outbox'[c])
      <4>1. x # m
        BY <3>1, <3>2, <3>6 DEF Unsubscribed
      <4> QED BY <3>3, <3>6, <4>1
    <3> QED BY <1>3, <3>1, <3>5, <3>6, OutboxNext
  <2> QED BY <1>2, <1>4, <1>6, <1>8, <2>1, <2>2
<1> QED BY <1>1, <1>5, <1>7, <1>8

LEMMA HeldInvNext == ASSUME HistoryInv, [Next]_vars PROVE HeldInv'
<1>1. \A w \in Worker : /\ pc'[w] = "create" => LoadedAt(w)'
                        /\ pc'[w] = "resend" => ReplayAt(w)'
  BY LoadedNext, ReplayingNext
<1> QED BY <1>1 DEF HeldInv, LoadedAt, ReplayAt, Kept, Sent, AskedOnce


\* A thread that is to save a text stays so until it saves it.
LEMMA SavingNext ==
  ASSUME TypeOK, [Next]_vars, NEW m, SavingSoon(m)
  PROVE  \/ SavingSoon(m)'
         \/ \E w \in Worker : Save(w) /\ pc[w] = "save" /\ Message(job[w]) = m
<1>1. PICK w \in Worker : pc[w] = "save" /\ job[w].op = "text" /\ Message(job[w]) = m
  BY DEF SavingSoon
<1>2. ASSUME pc'[w] = pc[w], job'[w] = job[w] PROVE SavingSoon(m)'
  <2>1. Message(job'[w]) = m
    BY <1>1, <1>2
  <2> QED BY <1>1, <1>2, <2>1 DEF SavingSoon, Message
<1>3. UNCHANGED <<tasks, pc, job>> => pc'[w] = pc[w] /\ job'[w] = job[w]
  OBVIOUS
<1>4. ASSUME NEW c \in Conn, ReadAuth(c) \/ \E r \in Room : ReadJoin(c, r) \/ ReadText(c, r)
      PROVE  pc'[w] = pc[w] /\ job'[w] = job[w]
  BY <1>4 DEF ReadAuth, ReadJoin, ReadText, Post, workerVars
<1>5. ASSUME NEW v \in Worker, Take(v) PROVE pc'[w] = pc[w] /\ job'[w] = job[w]
  BY <1>1, <1>5 DEF Take, Goto, TypeOK, WorkersOK
<1>6. ASSUME NEW v \in Worker, v # w, Run(v) PROVE pc'[w] = pc[w] /\ job'[w] = job[w]
  BY <1>6, RunTasks
<1>7. Run(w) => Save(w)
  BY <1>1 DEF Run, Join, DoAutorisation, SendAnswer, Enter, EmplaceEntry, Push, Find, Load,
              Create, Replay, Resend, Subscribe, Notify, NotifyNext, LogMessage, Record,
              ReplyJoin
<1> QED BY <1>1, <1>2, <1>3, <1>4, <1>5, <1>6, <1>7, WritersNext DEF Writers

LEMMA HistoryOfNext ==
  ASSUME HistoryInv, [Next]_vars, NEW r \in channels'
  PROVE  HistoryOf(r)'
<1> SUFFICES ASSUME NEW m, In(m, history_room'[r]), m.n > 0, db_ptr' = "open"
             PROVE  In(m, db'[r]) \/ SavingSoon(m)' \/ HasQuote(m)
  BY DEF HistoryOf, HasQuote
<1>1. TypeOK /\ r \in Room /\ db_ptr = "open"
  BY TypeNext, GrowsNext DEF HistoryInv, TypeOK, ManagerOK
<1>2. db[r] \in Seq(Msg) /\ history_room[r] \in Seq(Msg)
  BY <1>1, SeqTypes
<1>3. CASE r \notin channels
  BY <1>1, <1>3, CreatedNext DEF LoadedAt, dbVars
<1>4. ASSUME In(m, history_room[r]), r \in channels
      PROVE  In(m, db'[r]) \/ SavingSoon(m)' \/ HasQuote(m)
  <2>1. In(m, db[r]) \/ SavingSoon(m) \/ HasQuote(m)
    BY <1>1, <1>4 DEF HistoryInv, LoggedInv, HistoryOf
  <2>2. m.room = r
    BY <1>1, <1>4 DEF HistoryInv, KeptInv, Kept
  <2>3. ASSUME NEW w \in Worker, Save(w), pc[w] = "save", Message(job[w]) = m
        PROVE  In(m, db'[r]) \/ HasQuote(m)
    <3>1. m \in Msg
      BY <2>3, RunningRoom
    <3>2. CASE ~HasQuote(m)
      <4>1. db' = [db EXCEPT ![m.room] = Append(@, m)]
        BY <1>1, <2>3, <3>2 DEF Save, save_text_msg
      <4>2. db'[r] = Append(db[r], m)
        BY <1>1, <2>2, <4>1 DEF TypeOK, DbOK
      <4> QED BY <1>2, <3>1, <4>2, InAppend
    <3> QED BY <3>2
  <2> QED BY <1>1, <2>1, <2>3, TableGrows, SavingNext
<1>5. ASSUME NEW w \in Worker, Logs(w, m) PROVE SavingSoon(m)'
  <2>1. pc'[w] = "save" /\ job'[w] = job[w]
    BY <1>1, <1>5 DEF Logs, LogMessage, Goto, TypeOK, WorkersOK
  <2>2. Message(job'[w]) = m /\ job'[w].op = "text"
    BY <1>5, <2>1 DEF Logs
  <2> QED BY <2>1, <2>2 DEF SavingSoon, Message
<1>6. ASSUME NEW x \in Msg, history_room'[r] = Append(history_room[r], x),
             (x.n = 0 /\ x.from = NoConn) \/ \E w \in Worker : Logs(w, x)
      PROVE  In(m, history_room[r]) \/ SavingSoon(m)'
  <2>1. In(m, history_room[r]) \/ m = x
    BY <1>2, <1>6, InAppend
  <2>2. m = x => SavingSoon(m)'
    BY <1>5, <1>6
  <2> QED BY <2>1, <2>2
<1>7. CASE r \in channels
  BY <1>4, <1>6, <1>7, LoggedNext
<1> QED BY <1>3, <1>7

LEMMA TableOfNext ==
  ASSUME HistoryInv, [Next]_vars, NEW r \in channels'
  PROVE  TableOf(r)'
<1> SUFFICES ASSUME NEW m, In(m, db'[r]), db_ptr' = "open"
             PROVE  In(m, history_room'[r]) \/ m \in early'
  BY DEF TableOf
<1>1. TypeOK /\ r \in Room /\ db_ptr = "open" /\ early \subseteq early'
  BY TypeNext, GrowsNext DEF HistoryInv, TypeOK, ManagerOK
<1>2. db[r] \in Seq(Msg)
  BY <1>1, SeqTypes
<1>3. CASE r \notin channels
  BY <1>1, <1>3, CreatedNext DEF LoadedAt, dbVars
<1>4. CASE r \in channels
  <2>1. ASSUME In(m, db[r]) PROVE In(m, history_room[r]) \/ m \in early
    BY <1>1, <1>4, <2>1 DEF HistoryInv, LoggedInv, TableOf
  <2>2. ASSUME NEW w \in Worker, Saves(w, m), m.room = r
        PROVE  In(m, history_room[r]) \/ m \in early
    <3>1. TextWork(m, "save")
      BY <2>2, RunningWork DEF Saves
    <3> QED BY <2>2, <3>1 DEF TextWork
  <2>3. ASSUME NEW w \in Worker, NEW x \in Msg, Saves(w, x), x.room = r,
               db'[r] = Append(db[r], x)
        PROVE  In(m, history_room[r]) \/ m \in early
    <3>1. In(m, db[r]) \/ m = x
      BY <1>2, <2>3, InAppend
    <3> QED BY <2>1, <2>2, <2>3, <3>1
  <2>4. In(m, history_room[r]) \/ m \in early
    BY <1>1, <2>1, <2>3, SavedNext
  <2> QED BY <1>1, <2>4, HistoryGrows
<1> QED BY <1>3, <1>4

LEMMA LoggedInvNext == ASSUME HistoryInv, [Next]_vars PROVE LoggedInv'
<1>1. \A r \in channels' : HistoryOf(r)' /\ TableOf(r)'
  BY HistoryOfNext, TableOfNext
<1>2. ASSUME NEW r \in Room, r \notin channels' PROVE history_room'[r] = <<>>
  <2>1. r \notin channels
    BY <1>2, GrowsNext DEF HistoryInv
  <2>2. history_room[r] = <<>>
    BY <2>1 DEF HistoryInv, LoggedInv
  <2> QED BY <1>2, <2>1, <2>2, CreatedNext
<1> QED BY <1>1, <1>2 DEF LoggedInv, HistoryOf, TableOf, SavingSoon, HasQuote

LEMMA HistoryInvNext == ASSUME HistoryInv, [Next]_vars PROVE HistoryInv'
<1>1. TypeOK'
  BY TypeNext DEF HistoryInv
<1> QED BY <1>1, LoggedInvNext, UniqueInvNext, WorkInvNext, UnaskedInvNext, OneKeyInvNext,
           HeardInvNext, VisitInvNext, KnownInvNext, SentInvNext, KeptInvNext, HeldInvNext
        DEF HistoryInv

LEMMA HistoryInvInit == Init => HistoryInv
<1> SUFFICES ASSUME Init PROVE HistoryInv
  OBVIOUS
<1>1. TypeOK
  BY TypeInit
<1>2. Works = {} /\ Pending = {}
  BY DEF Init, Works, InQueue, Running, Pending
<1>3. UniqueInv /\ WorkInv
  BY <1>2 DEF UniqueInv, WorkInv
<1>4. \A c \in Conn, r \in Room : Unheard(c, r) /\ Unsubscribed(c, r)
  <2>1. \A r \in Room, i \in Id : subscribers[r][i] = NoConn
    BY DEF Init, NoSubscribers
  <2>2. \A c \in Conn : outbox[c] = <<>>
    BY DEF Init
  <2> QED BY <2>1, <2>2, NoneIn, NoneAssumption DEF Unheard, Unsubscribed
<1>5. UnaskedInv /\ OneKeyInv
  BY <1>4 DEF UnaskedInv, OneKeyInv, Unsubscribed
<1>6. HeardInv /\ SentInv
  <2>1. \A c \in Conn : outbox[c] = <<>>
    BY DEF Init
  <2> QED BY <2>1, NoneIn DEF HeardInv, SentInv
<1>7. KnownInv /\ VisitInv /\ HeldInv
  BY <1>2 DEF Init, KnownInv, VisitInv, HeldInv
<1>8. LoggedInv
  BY DEF Init, LoggedInv
<1>9. KeptInv
  <2>1. SUFFICES ASSUME NEW r \in Room PROVE Kept(<<>>, r) /\ Kept(Saved[r], r)
    BY DEF Init, KeptInv
  <2>2. Kept(<<>>, r)
    BY NoneIn DEF Kept
  <2>3. \A k \in 1 .. Len(Saved[r]) : Saved[r][k] = Text(NoConn, k, r)
    BY SavedAssumption
  <2>4. \A k \in 1 .. Len(Saved[r]) :
          Saved[r][k].n = k /\ Saved[r][k].room = r /\ Saved[r][k].from = NoConn
    <3>1. ASSUME NEW k, NEW x, x = Text(NoConn, k, r)
          PROVE  x.n = k /\ x.room = r /\ x.from = NoConn
      BY <3>1 DEF Text
    <3> QED BY <2>3, <3>1
  <2>5. \A m : Once(m, Saved[r])
    BY <2>4 DEF Once
  <2>6. \A m : In(m, Saved[r]) => m.room = r /\ Sent(m)
    BY <2>4, NobodysSent DEF In
  <2> QED BY <2>2, <2>5, <2>6 DEF Kept
<1> QED BY <1>1, <1>3, <1>5, <1>6, <1>7, <1>8, <1>9 DEF HistoryInv

--------------------------------------------------------------------------------
(* What follows from it.                                                         *)

\* Whatever joins, texts and departures run beside each other: while the database
\* is open, the history a channel replays and the table a restarted server loads
\* hold the same texts, but for those do_text_msg is still to save, those whose
\* insert has an apostrophe in it, and those that the history lacks since they were
\* sent to the room before their sender had been told it is in it.
THEOREM HistoriesAgree == Spec => []HistoryAgrees
<1>1. ASSUME HistoryInv PROVE HistoryAgrees
  <2> SUFFICES ASSUME db_ptr = "open", NEW r \in channels
               PROVE  /\ TextsIn(db[r]) \ TextsIn(history_room[r]) \subseteq early
                      /\ \A m \in TextsIn(history_room[r]) \ TextsIn(db[r]) :
                           SavingSoon(m) \/ HasQuote(m)
    BY DEF HistoryAgrees
  <2>1. HistoryOf(r) /\ TableOf(r)
    BY <1>1 DEF HistoryInv, LoggedInv, TypeOK, ManagerOK
  <2>2. \A s, m : m \in TextsIn(s) <=> In(m, s) /\ m.n > 0
    BY DEF TextsIn, In
  <2>3. \A m : In(m, db[r]) => In(m, history_room[r]) \/ m \in early
    BY <2>1 DEF TableOf
  <2>4. \A m : In(m, history_room[r]) /\ m.n > 0
                 => In(m, db[r]) \/ SavingSoon(m) \/ HasQuote(m)
    BY <2>1 DEF HistoryOf
  <2> QED BY <2>2, <2>3, <2>4
<1>2. HistoryInv /\ [Next]_vars => HistoryInv'
  BY HistoryInvNext
<1> QED BY <1>1, <1>2, HistoryInvInit, PTL DEF Spec

\* A text reaches a client that asked for its room once at most once, live or
\* replayed, since Channel::join replays before it subscribes and notification
\* sends before it appends.
THEOREM TextsHeardOnce == Spec => []AtMostOnce
<1>1. ASSUME HistoryInv PROVE AtMostOnce
  <2> SUFFICES ASSUME NEW c \in Conn, NEW m \in TextsIn(outbox[c]), Times(m.room, asked[c]) <= 1
               PROVE  Times(m, outbox[c]) = 1
    BY DEF AtMostOnce
  <2>1. In(m, outbox[c]) /\ m.n > 0
    BY DEF TextsIn, In
  <2>2. outbox[c] \in Seq(Msg) /\ asked[c] \in Seq(Room)
    BY <1>1, SeqTypes DEF HistoryInv
  <2>3. AskedOnce(c, m.room)
    BY <2>2, OnceTimes DEF AskedOnce
  <2>4. Once(m, outbox[c])
    BY <1>1, <2>1, <2>3 DEF HistoryInv, HeardInv
  <2> QED BY <2>1, <2>2, <2>4, OnceTimes
<1>2. HistoryInv /\ [Next]_vars => HistoryInv'
  BY HistoryInvNext
<1> QED BY <1>1, <1>2, HistoryInvInit, PTL DEF Spec


\* Whom a round of notification was begun for: those who had been told they are in
\* the room.
LEMMA AudienceNext ==
  ASSUME TypeOK, [Next]_vars, NEW w \in Worker, pc'[w] = "send", NEW c \in audience'[w]
  PROVE  \/ pc[w] = "send" /\ c \in audience[w]
         \/ Notify(w) /\ c \in Conn /\ job[w].room \in told[c]
<1> USE DEF TypeOK, HeldOK
<1>1. CASE Notify(w)
  BY <1>1 DEF Notify
<1>2. CASE ~Notify(w)
  <2>1. pc[w] = "send"
    BY <1>2, SendingNext
  <2>2. ASSUME NEW v \in Worker, Notify(v) \/ LogMessage(v) PROVE c \in audience[w]
    <3>1. v # w
      <4>1. LogMessage(w) => pc'[w] # "send"
        BY DEF LogMessage, Goto, WorkersOK
      <4> QED BY <1>2, <2>2, <4>1
    <3> QED BY <2>2, <3>1 DEF Notify, LogMessage
  <2> QED BY <2>1, <2>2, WritersNext DEF DataWriters
<1> QED BY <1>1, <1>2

LEMMA AudienceInvNext == ASSUME AudienceInv, TypeOK, [Next]_vars PROVE AudienceInv'
<1> SUFFICES ASSUME NEW w \in Worker, pc'[w] = "send", NEW c \in audience'[w]
             PROVE  job'[w].room \in told'[c]
  BY DEF AudienceInv
<1>1. c \in Conn
  BY TypeNext DEF TypeOK, HeldOK
<1>2. job'[w].room = job[w].room
  BY SendingNext DEF Keeps
<1>3. job[w].room \in told[c]
  BY AudienceNext DEF AudienceInv
<1> QED BY <1>1, <1>2, <1>3, GrowsNext

LEMMA VisitedNext ==
  ASSUME TypeOK, [Next]_vars, NEW w \in Worker, pc[w] = "send", pc'[w] = "send",
         NEW i \in todo[w], i \notin todo'[w]
  PROVE  NotifyNext(w, i) \/ (Erase /\ free_id = i)
<1>0. todo \in [Thread -> SUBSET Id] /\ w \in Thread /\ w # IO /\ IO \in Thread
  BY NoneAssumption DEF TypeOK, LoopOK, Thread
<1>1. ASSUME NEW v \in Worker, Subscribe(v) PROVE i \in todo'[w]
  <2>1. CASE MeetNew(client_id[job[v].conn], job[v].room)
    BY <1>0, <2>1 DEF MeetNew
  <2>2. CASE UNCHANGED todo
    BY <2>2
  <2> QED BY <1>1, <2>1, <2>2 DEF Subscribe
<1>2. ASSUME NEW v \in Worker, Notify(v) PROVE i \in todo'[w]
  BY <1>0, <1>2 DEF Notify, BeginLoop
<1>3. ASSUME NEW v \in Worker, NEW j \in Id, NotifyNext(v, j) PROVE NotifyNext(w, i)
  BY <1>0, <1>3 DEF NotifyNext, Deliver
<1>4. ASSUME NEW j \in Id, NotifyLeaveNext(j) PROVE i \in todo'[w]
  BY <1>0, <1>4 DEF NotifyLeaveNext, Deliver
<1>5. NotifyLeave => i \in todo'[w]
  BY <1>0 DEF NotifyLeave, BeginLoop
<1>6. Erase => free_id = i
  BY <1>0 DEF Erase, MissErased
<1> QED BY <1>1, <1>2, <1>3, <1>4, <1>5, <1>6, WritersNext DEF DataWriters

LEMMA ReachInvNext ==
  ASSUME OneConnectionEach, Inv, HistoryInv, AudienceInv, ReachInv, [Next]_vars
  PROVE  ReachInv'
<1> SUFFICES ASSUME NEW w \in Worker, pc'[w] = "send", job'[w].op = "text",
                    NEW c \in audience'[w], Serving(c)', NEW m, m = Message(job'[w]),
                    NEW a, a = AccountOf[c]
             PROVE  /\ a \in todo'[w] <=> ~In(m, outbox'[c])
                    /\ Once(m, outbox'[c])
  BY DEF ReachInv
<1>1. TypeOK /\ c \in Conn
  BY TypeNext DEF HistoryInv, TypeOK, HeldOK
<1>2. /\ job[w].op = "text" /\ m = Message(job[w]) /\ pc[w] \in {"notify", "send"}
      /\ outbox[c] \in Seq(Msg)
  BY <1>1, SendingNext, SeqTypes DEF Keeps
<1>3. m \in Msg /\ m.room \in Room /\ m.room = job[w].room /\ TextWork(m, pc[w])
  BY <1>2, RunningRoom, RunningWork
<1>4. m.room \in told[c]
  BY <1>1, <1>3, AudienceNext DEF AudienceInv
<1>5. Serving(c) /\ OwnId(c) /\ a \in Account /\ a \in Id
  BY <1>1, <1>4, Served DEF LetIn, OwnId, Id
<1>6. subscribers[m.room][a] = c /\ subscribers'[m.room][a] = c
  <2>1. InRoomAt(c, m.room)
    BY <1>1, <1>4, <1>5 DEF Inv, ToldInv
  <2>2. InRoomAt(c, m.room)'
    BY <1>1, <1>5, <2>1, RoomNext
  <2> QED BY <2>1, <2>2 DEF InRoomAt
<1>7. \A i \in Id : subscribers[m.room][i] = c => i = a
  BY <1>1, <1>3, <1>5 DEF Inv, KeyInv, StrayInv
<1>n. c # NoConn
  BY <1>1, NoneAssumption
<1>8. CASE Notify(w)
  <2>1. a \in todo'[w] /\ UNCHANGED outbox /\ pc[w] = "notify"
    BY <1>1, <1>3, <1>5, <1>6, <1>8, <1>n
       DEF Notify, BeginLoop, sendVars, TypeOK, LoopOK, Thread
  <2>2. ~In(m, outbox[c])
    BY <1>1, <1>3, <2>1 DEF TextWork
  <2> QED BY <2>1, <2>2 DEF In, Once
<1>9. CASE ~Notify(w)
  <2>1. pc[w] = "send" /\ c \in audience[w]
    BY <1>1, <1>9, AudienceNext
  <2>2. (a \in todo[w] <=> ~In(m, outbox[c])) /\ Once(m, outbox[c])
    BY <1>2, <1>5, <2>1 DEF ReachInv
  <2>3. ~In(m, history_room[m.room]) /\ m.from \in Conn
    BY <1>3, <2>1 DEF TextWork
  <2>4. CASE NotifyNext(w, a)
    <3>1. a \in todo[w] /\ Hand(subscribers[m.room][a], m)
          /\ todo' = [todo EXCEPT ![w] = todo[w] \ {a}]
      BY <1>2, <2>4 DEF NotifyNext, Deliver
    <3>2. a \notin todo'[w]
      BY <1>1, <3>1 DEF TypeOK, LoopOK, Thread
    <3>3. outbox'[c] = Append(outbox[c], m)
      BY <1>1, <1>6, <3>1 DEF Hand, TypeOK, SendOK
    <3> QED BY <1>2, <1>3, <2>2, <3>1, <3>2, <3>3, InAppend
  <2>5. CASE ~NotifyNext(w, a)
    <3>1. a \in todo[w] => a \in todo'[w]
      <4>1. ASSUME Erase PROVE free_id # a
        BY <1>1, <1>5, <4>1, FreeIdOther DEF Erase, Serving
      <4> QED BY <1>1, <2>1, <2>5, <4>1, VisitedNext
    <3>2. a \in todo'[w] => a \in todo[w]
      BY <1>1, <1>3, <1>6, <1>n, <2>1, VisitsNext
    <3>3. ASSUME NEW x \in Msg, x # m, outbox'[c] = Append(outbox[c], x)
          PROVE  (In(m, outbox'[c]) <=> In(m, outbox[c])) /\ Once(m, outbox'[c])
      BY <1>2, <2>2, <3>3, InAppend
    <3>4. ASSUME NEW v \in Worker, Replays(v, c), outbox'[c] = Append(outbox[c], Head(history[v]))
          PROVE  (In(m, outbox'[c]) <=> In(m, outbox[c])) /\ Once(m, outbox'[c])
      <4>1. PICK h : h = Head(history[v])
        OBVIOUS
      <4>2. h \in Msg /\ In(h, history_room[h.room])
        BY <1>1, <3>4, <4>1, ReplaysOld
      <4> QED BY <2>3, <3>3, <3>4, <4>1, <4>2
    <3>5. ASSUME NEW v \in Worker, NEW i \in Id, Visits(v, i, m), subscribers[m.room][i] = c
          PROVE  FALSE
      <4>1. v = w
        BY <1>2, <2>1, <3>5, SameText DEF Visits
      <4> QED BY <1>7, <2>5, <3>5, <4>1 DEF Visits
    <3>6. ASSUME NEW x \in Msg, NEW i \in Id, outbox'[c] = Append(outbox[c], x),
                 subscribers[x.room][i] = c,
                 (x.n = 0 /\ x.from = NoConn) \/ \E v \in Worker : Visits(v, i, x)
          PROVE  (In(m, outbox'[c]) <=> In(m, outbox[c])) /\ Once(m, outbox'[c])
      <4>1. x # m
        BY <2>3, <3>5, <3>6, NoneAssumption
      <4> QED BY <3>3, <3>6, <4>1
    <3>7. (In(m, outbox'[c]) <=> In(m, outbox[c])) /\ Once(m, outbox'[c])
      BY <1>1, <2>2, <3>4, <3>6, OutboxNext
    <3> QED BY <2>2, <3>1, <3>2, <3>7
  <2> QED BY <2>4, <2>5
<1> QED BY <1>8, <1>9

\* When each user has one connection and one id, whoever had been told it is in the
\* room when the loop of notification began has got the text once when the loop
\* ends, although the loop runs without the lock beside joins, departures, replays
\* and other loops.
THEOREM TextReachesAll == ASSUME OneConnectionEach PROVE Spec => []TextReachesMembers
<1> DEFINE I == Inv /\ HistoryInv /\ AudienceInv /\ ReachInv
<1>1. Init => I
  BY InvInit, HistoryInvInit DEF Init, AudienceInv, ReachInv
<1>2. I /\ [Next]_vars => I'
  <2> SUFFICES ASSUME I, [Next]_vars PROVE I'
    OBVIOUS
  <2>1. Inv' /\ HistoryInv'
    BY InvNext, HistoryInvNext
  <2>2. AudienceInv'
    BY AudienceInvNext DEF HistoryInv
  <2>3. ReachInv'
    BY ReachInvNext
  <2> QED BY <2>1, <2>2, <2>3
<1>3. I => TextReachesMembers
  <2> SUFFICES ASSUME I, NEW w \in Worker, pc[w] = "send", job[w].op = "text", todo[w] = {},
                      NEW c \in audience[w], Serving(c)
               PROVE  Times(Message(job[w]), outbox[c]) = 1
    BY DEF TextReachesMembers
  <2>1. In(Message(job[w]), outbox[c]) /\ Once(Message(job[w]), outbox[c])
    BY DEF ReachInv
  <2>2. outbox[c] \in Seq(Msg)
    BY SeqTypes DEF HistoryInv, TypeOK, HeldOK
  <2> QED BY <2>1, <2>2, OnceTimes
<1> HIDE DEF I
<1> QED BY <1>1, <1>2, <1>3, PTL DEF Spec
================================================================================
