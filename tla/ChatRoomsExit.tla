----------------------------- MODULE ChatRoomsExit -----------------------------
(* The proof that free_connection leaves nothing behind of a client that asked   *)
(* for one room after the other and left after its joins were answered, when     *)
(* each user has one connection.                                                 *)
EXTENDS ChatRoomsHistory

\* The places of the joins of a client, its answers' included.
IsJoin(t, c) == t.op \in {"join", "joinReply"} /\ t.conn = c
Joining(c) ==
  {<<"queue", k>> : k \in {j \in 1 .. Len(tasks) : IsJoin(tasks[j], c)}}
  \cup {<<"run", w>> : w \in {v \in Worker : pc[v] # "idle" /\ IsJoin(job[v], c)}}

\* A join asked for and not answered is in at most one place, and a client that
\* waits for each of its answers has at most one.
CountInv ==
  \A c \in Conn : /\ IsFiniteSet(Joining(c))
                  /\ Cardinality(Joining(c)) + answered[c] <= Len(asked[c])
HastyInv == \A c \in Conn \ hasty : Len(asked[c]) <= answered[c] + 1

\* Only a connection whose client is gone is freed, and it is read until then.
GoneInv ==
  /\ \A c \in open : c \in reading \/ freeing = c
  /\ \A c \in Conn : client[c] = "off" => c \notin reading /\ asked[c] = <<>>
  /\ \A c \in Conn :
       c \in werr \/ freeing = c \/ (c \notin open /\ client[c] # "off") => client[c] = "gone"

\* A client asks for nothing before it has signed in.
AskedInv ==
  /\ \A c \in Conn : client[c] = "new" => asked[c] = <<>>
  /\ \A t \in Pending : t.op = "auth" => asked[t.conn] = <<>>

\* A client that asked for nothing is in no table.
NothingInv ==
  \A c \in Conn : asked[c] = <<>> /\ AccountOf[c] # -1 =>
    AccountOf[c] \notin entries /\ AccountOf[c] \notin clientid_to_login

\* A thread's iterator points to an entry, and rooms are in an entry.
EntryInv ==
  /\ \A w \in Worker : it[w] # NoId => it[w] \in entries
  /\ \A i \in Id \ entries : client_in_rooms[i] = {}

\* How far a join of such a client has got with the list of its rooms.
Listed == {"find", "load", "create", "replay", "resend", "subscribe"}
EnterAt(w, i) ==
  /\ pc[w] = "emplace" => i \notin entries
  /\ pc[w] = "push" => it[w] = i
  /\ pc[w] \in Listed => job[w].room \in client_in_rooms[i]
EnterInv ==
  \A w \in Worker :
    /\ pc[w] # "idle" /\ job[w].op = "join"
    /\ Serving(job[w].conn) /\ job[w].conn \notin hasty
    => EnterAt(w, AccountOf[job[w].conn])

\* While its socket is open, a client that asked is known by its user's id only,
\* and if it waits for its answers, in the rooms the manager has for that id.
OpenInv ==
  \A c \in open :
    /\ asked[c] # <<>> => OwnId(c) /\ (freeing = c => free_id = AccountOf[c])
    /\ \A r \in Room, i \in Id : subscribers[r][i] = c =>
         /\ i = AccountOf[c] /\ r \in channels
         /\ freeing # c /\ c \notin hasty => r \in client_in_rooms[i]

\* What is left to do for a client that left after its joins were answered.
Left(c) == client[c] = "gone" /\ ~Waiting(c) /\ c \notin hasty
LeavingAt(c) ==
  /\ iopc = "close" => Cleared(c)
  /\ iopc = "forget" => rest = {} /\ AccountOf[c] \notin entries
  /\ iopc # "close" => \A r \in Room : subscribers[r][AccountOf[c]] = c => r \in rest
LeftInv ==
  \A c \in Conn : Left(c) =>
    /\ c \notin open => Cleared(c)
    /\ c \in open /\ freeing = c /\ asked[c] # <<>> => LeavingAt(c)

ExitInv ==
  /\ CountInv /\ HastyInv /\ GoneInv /\ AskedInv /\ NothingInv /\ EntryInv /\ EnterInv
  /\ OpenInv /\ LeftInv

--------------------------------------------------------------------------------
(* A step moves the joins of a client about, and makes none but a join it asks.  *)

LEMMA JoiningAre ==
  ASSUME NEW c, NEW p
  PROVE  p \in Joining(c) <=>
           \/ \E k \in 1 .. Len(tasks) : p = <<"queue", k>> /\ IsJoin(tasks[k], c)
           \/ \E w \in Worker : p = <<"run", w>> /\ pc[w] # "idle" /\ IsJoin(job[w], c)
BY DEF Joining

LEMMA JoiningAreNext ==
  ASSUME NEW c, NEW p
  PROVE  p \in Joining(c)' <=>
           \/ \E k \in 1 .. Len(tasks') : p = <<"queue", k>> /\ IsJoin(tasks'[k], c)
           \/ \E w \in Worker : p = <<"run", w>> /\ pc'[w] # "idle" /\ IsJoin(job'[w], c)
BY DEF Joining, IsJoin

LEMMA JoiningPending ==
  ASSUME NEW c
  PROVE  (\E t \in Pending : IsJoin(t, c)) <=> Joining(c) # {}
<1>1. ASSUME NEW t \in Pending, IsJoin(t, c) PROVE Joining(c) # {}
  <2>1. \/ \E k \in 1 .. Len(tasks) : t = tasks[k]
        \/ \E w \in Worker : pc[w] # "idle" /\ t = job[w]
    BY DEF Pending
  <2>2. \E p : p \in Joining(c)
    BY <1>1, <2>1, JoiningAre
  <2> QED BY <2>2
<1>2. ASSUME NEW p \in Joining(c) PROVE \E t \in Pending : IsJoin(t, c)
  BY JoiningAre DEF Pending
<1> QED BY <1>1, <1>2

LEMMA JoiningAppend ==
  ASSUME TasksOK, NEW c, NEW u, u \in Tasks, tasks' = Append(tasks, u), UNCHANGED <<pc, job>>
  PROVE  Joining(c)' \subseteq Joining(c) \cup (IF IsJoin(u, c) THEN {<<"queue", Len(tasks')>>} ELSE {})
<1>1. /\ Len(tasks') = Len(tasks) + 1 /\ Len(tasks) \in Nat
      /\ \A k \in 1 .. Len(tasks) : tasks'[k] = tasks[k]
      /\ tasks'[Len(tasks')] = u
  BY DEF TasksOK
<1>2. ASSUME NEW k \in 1 .. Len(tasks'), IsJoin(tasks'[k], c)
      PROVE  <<"queue", k>> \in Joining(c) \/ (IsJoin(u, c) /\ k = Len(tasks'))
  BY <1>1, <1>2, JoiningAre
<1>3. ASSUME NEW w \in Worker, pc'[w] # "idle", IsJoin(job'[w], c)
      PROVE  <<"run", w>> \in Joining(c)
  BY <1>3, JoiningAre
<1> QED BY <1>2, <1>3, JoiningAreNext

\* The thread that takes a task has it from the head of the queue.
LEMMA JoiningTake ==
  ASSUME TypeOK, NEW w \in Worker, Take(w), NEW c
  PROVE  \E f \in Injection(Joining(c)', Joining(c)) : TRUE
<1> DEFINE B(p) == IF p = <<"run", w>> THEN <<"queue", 1>>
                   ELSE IF p[1] = "queue" THEN <<"queue", p[2] + 1>> ELSE p
           back == [p \in Joining(c)' |-> B(p)]
<1>1. /\ Len(tasks) \in Nat /\ 1 \in 1 .. Len(tasks)
      /\ \A k \in 1 .. Len(tasks') : k + 1 \in 1 .. Len(tasks) /\ tasks'[k] = tasks[k + 1]
      /\ Len(tasks') \in Nat
      /\ job'[w] = tasks[1]
      /\ \A v \in Worker : v # w => pc'[v] = pc[v] /\ job'[v] = job[v]
  BY DEF Take, Goto, TypeOK, TasksOK, WorkersOK
<1>2. ASSUME NEW k \in 1 .. Len(tasks'), IsJoin(tasks'[k], c)
      PROVE  B(<<"queue", k>>) = <<"queue", k + 1>> /\ <<"queue", k + 1>> \in Joining(c)
  BY <1>1, <1>2, JoiningAre
<1>3. ASSUME IsJoin(job'[w], c)
      PROVE  B(<<"run", w>>) = <<"queue", 1>> /\ <<"queue", 1>> \in Joining(c)
  BY <1>1, <1>3, JoiningAre
<1>4. ASSUME NEW v \in Worker, v # w, pc'[v] # "idle", IsJoin(job'[v], c)
      PROVE  B(<<"run", v>>) = <<"run", v>> /\ <<"run", v>> \in Joining(c)
  BY <1>1, <1>4, JoiningAre
<1>5. ASSUME NEW p \in Joining(c)'
      PROVE  /\ B(p) \in Joining(c)
             /\ \/ \E k \in 1 .. Len(tasks') : p = <<"queue", k>> /\ B(p) = <<"queue", k + 1>>
                \/ p = <<"run", w>> /\ B(p) = <<"queue", 1>>
                \/ \E v \in Worker : p = <<"run", v>> /\ B(p) = p
  <2>1. CASE \E k \in 1 .. Len(tasks') : p = <<"queue", k>> /\ IsJoin(tasks'[k], c)
    <3>1. PICK k \in 1 .. Len(tasks') : p = <<"queue", k>> /\ IsJoin(tasks'[k], c)
      BY <2>1
    <3> HIDE DEF B
    <3> QED BY <1>2, <3>1
  <2>2. CASE \E v \in Worker : p = <<"run", v>> /\ pc'[v] # "idle" /\ IsJoin(job'[v], c)
    <3>1. PICK v \in Worker : p = <<"run", v>> /\ pc'[v] # "idle" /\ IsJoin(job'[v], c)
      BY <2>2
    <3> HIDE DEF B
    <3> QED BY <1>3, <1>4, <3>1
  <2> QED BY <2>1, <2>2, JoiningAreNext
<1>6. \A p, q \in Joining(c)' : B(p) = B(q) => p = q
  <2> HIDE DEF B
  <2>1. \A k \in 1 .. Len(tasks') : k + 1 # 1
    OBVIOUS
  <2>2. SUFFICES ASSUME NEW p \in Joining(c)', NEW q \in Joining(c)', B(p) = B(q) PROVE p = q
    OBVIOUS
  <2>3. CASE \E k \in 1 .. Len(tasks') : p = <<"queue", k>> /\ B(p) = <<"queue", k + 1>>
    BY <1>5, <2>1, <2>2, <2>3
  <2>4. CASE p = <<"run", w>> /\ B(p) = <<"queue", 1>>
    BY <1>5, <2>1, <2>2, <2>4
  <2>5. CASE \E v \in Worker : p = <<"run", v>> /\ B(p) = p
    BY <1>5, <2>2, <2>5
  <2> QED BY <1>5, <2>3, <2>4, <2>5
<1>7. \A p \in Joining(c)' : back[p] = B(p)
  OBVIOUS
<1>8. back \in [Joining(c)' -> Joining(c)]
  <2> HIDE DEF B
  <2> QED BY <1>5
<1> HIDE DEF back, B
<1>9. back \in Injection(Joining(c)', Joining(c))
  BY <1>6, <1>7, <1>8 DEF Injection, IsInjective
<1> QED BY <1>9

\* So has the answer of a join from the thread that ran it.
LEMMA JoiningReply ==
  ASSUME TypeOK, NEW w \in Worker, ReplyJoin(w), NEW c
  PROVE  \E f \in Injection(Joining(c)', Joining(c)) : TRUE
<1> DEFINE u == Task("joinReply", job[w].conn, room_id[job[w].conn], 0, job[w].ok)
<1>1. /\ job[w].op = "join" /\ pc[w] = "reply"
      /\ u \in Tasks /\ u.conn = job[w].conn
  <2>1. job[w].conn \in Conn /\ job[w].ok \in BOOLEAN /\ job[w].op = "join"
    BY JobType, LineType DEF ReplyJoin, TypeOK
  <2>2. room_id[job[w].conn] \in Room \cup {NoRoom}
    BY <2>1 DEF TypeOK, ConnOK
  <2>3. u \in Tasks
    BY <2>1, <2>2, TaskType
  <2> QED BY <2>1, <2>3 DEF Task, ReplyJoin
<1> HIDE DEF u
<1>2. Finish(w, <<u>>)
  BY DEF ReplyJoin, u
<1>3. /\ tasks' = Append(tasks, u)
      /\ pc'[w] = "idle" /\ \A v \in Worker : v # w => pc'[v] = pc[v] /\ job'[v] = job[v]
  BY <1>1, <1>2 DEF Finish, Goto, TypeOK, TasksOK, WorkersOK
<1>4. /\ Len(tasks') = Len(tasks) + 1 /\ Len(tasks) \in Nat
      /\ \A k \in 1 .. Len(tasks) : tasks'[k] = tasks[k]
      /\ tasks'[Len(tasks')] = u
  BY <1>1, <1>3 DEF TypeOK, TasksOK
<1> DEFINE l == <<"queue", Len(tasks')>>
           back == [p \in Joining(c)' |-> IF p = l THEN <<"run", w>> ELSE p]
<1>5. ASSUME NEW k \in 1 .. Len(tasks'), IsJoin(tasks'[k], c)
      PROVE  IF <<"queue", k>> = l THEN <<"run", w>> \in Joining(c) ELSE <<"queue", k>> \in Joining(c)
  <2>1. CASE k = Len(tasks')
    <3>1. IsJoin(job[w], c)
      BY <1>1, <1>4, <1>5, <2>1 DEF IsJoin
    <3>2. <<"run", w>> \in Joining(c)
      BY <1>1, <3>1, JoiningAre
    <3> QED BY <2>1, <3>2
  <2>2. CASE k # Len(tasks')
    <3>1. <<"queue", k>> \in Joining(c)
      BY <1>4, <1>5, <2>2, JoiningAre
    <3> QED BY <2>2, <3>1
  <2> QED BY <2>1, <2>2
<1>6. ASSUME NEW v \in Worker, pc'[v] # "idle", IsJoin(job'[v], c)
      PROVE  <<"run", v>> \in Joining(c) /\ v # w
  BY <1>3, <1>6, JoiningAre
<1>7. \A p \in Joining(c)' :
        /\ p # <<"run", w>>
        /\ back[p] = IF p = l THEN <<"run", w>> ELSE p
        /\ back[p] \in Joining(c)
  BY <1>5, <1>6, JoiningAreNext
<1>8. back \in [Joining(c)' -> Joining(c)]
  BY <1>7
<1> HIDE DEF back, l
<1>9. back \in Injection(Joining(c)', Joining(c))
  BY <1>7, <1>8 DEF Injection, IsInjective
<1> QED BY <1>9

LEMMA JoiningKept ==
  ASSUME NEW c, Joining(c)' \subseteq Joining(c)
  PROVE  \E f \in Injection(Joining(c)', Joining(c)) : TRUE
<1> DEFINE f == [p \in Joining(c)' |-> p]
<1>1. f \in Injection(Joining(c)', Joining(c))
  BY DEF Injection, IsInjective
<1> QED BY <1>1

LEMMA JoiningRun ==
  ASSUME TypeOK, NEW w \in Worker, Run(w), ~ReplyJoin(w), NEW c
  PROVE  /\ Joining(c)' \subseteq Joining(c)
         /\ SendAnswer(w) /\ pc[w] = "joinReply" /\ job[w].conn = c =>
              <<"run", w>> \in Joining(c) \ Joining(c)'
<1>0. tasks \in Seq(Tasks) /\ WorkersOK
  BY DEF TypeOK, TasksOK
<1>1. ASSUME NEW k \in 1 .. Len(tasks'), IsJoin(tasks'[k], c) PROVE <<"queue", k>> \in Joining(c)
  <2>1. CASE UNCHANGED tasks
    BY <1>1, <2>1, JoiningAre
  <2>2. ASSUME NEW u \in Tasks, tasks' = Append(tasks, u), u.op = "authReply"
        PROVE  <<"queue", k>> \in Joining(c)
    <3>1. ~IsJoin(u, c)
      BY <2>2 DEF IsJoin
    <3>2. k \in 1 .. Len(tasks) /\ tasks[k] = tasks'[k]
      BY <1>0, <1>1, <2>2, <3>1
    <3> QED BY <1>1, <3>2, JoiningAre
  <2>3. CASE DoAutorisation(w)
    <3>1. PICK i : Finish(w, <<Task("authReply", job[w].conn, NoRoom, 0, i # -1)>>)
      BY <2>3 DEF DoAutorisation
    <3> DEFINE u == Task("authReply", job[w].conn, NoRoom, 0, i # -1)
    <3>2. job[w].conn \in Conn /\ (i # -1) \in BOOLEAN
      BY <1>0, <2>3, JobType DEF DoAutorisation
    <3>3. u \in Tasks /\ u.op = "authReply" /\ Finish(w, <<u>>)
      BY <3>1, <3>2, TaskType DEF Task
    <3> HIDE DEF u
    <3>4. tasks' = Append(tasks, u)
      BY <1>0, <3>3 DEF Finish
    <3> QED BY <2>2, <3>3, <3>4
  <2>4. SendAnswer(w) \/ Save(w) => UNCHANGED tasks
    BY <1>0 DEF SendAnswer, Save, Finish
  <2>5. Lined(w) => UNCHANGED tasks
    BY LinedGoto
  <2> QED BY <2>1, <2>3, <2>4, <2>5, RunIs
<1>2. ASSUME NEW v \in Worker, pc'[v] # "idle", IsJoin(job'[v], c)
      PROVE  <<"run", v>> \in Joining(c)
  <2>1. pc[v] # "idle" /\ Keeps(job[v], job'[v])
    BY <1>2, RunTasks DEF Keeps
  <2> QED BY <1>2, <2>1, JoiningAre DEF IsJoin, Keeps
<1>3. ASSUME SendAnswer(w), pc[w] = "joinReply", job[w].conn = c
      PROVE  <<"run", w>> \in Joining(c) /\ <<"run", w>> \notin Joining(c)'
  <2>1. job[w].op = "joinReply"
    BY <1>0, <1>3, LineType
  <2>2. <<"run", w>> \in Joining(c)
    BY <1>3, <2>1, JoiningAre DEF IsJoin
  <2>3. pc'[w] = "idle"
    BY <1>0, <1>3 DEF SendAnswer, Finish, Goto, WorkersOK
  <2> QED BY <2>2, <2>3, JoiningAreNext
<1> QED BY <1>1, <1>2, <1>3, JoiningAreNext

\* A step asks for a join, answers one, or leaves a client's joins no more than
\* they were.
LEMMA JoiningNext ==
  ASSUME TypeOK, [Next]_vars, NEW c \in Conn
  PROVE  \/ /\ \E r \in Room : ReadJoin(c, r)
            /\ Joining(c)' \subseteq Joining(c) \cup {<<"queue", Len(tasks')>>}
         \/ /\ \E w \in Worker : /\ SendAnswer(w) /\ pc[w] = "joinReply" /\ job[w].conn = c
                                 /\ <<"run", w>> \in Joining(c) \ Joining(c)'
            /\ Joining(c)' \subseteq Joining(c)
         \/ /\ ~\E w \in Worker : SendAnswer(w) /\ pc[w] = "joinReply" /\ job[w].conn = c
            /\ \E f \in Injection(Joining(c)', Joining(c)) : TRUE
<1> DEFINE Answering == \E w \in Worker : SendAnswer(w) /\ pc[w] = "joinReply" /\ job[w].conn = c
           Moves == \E f \in Injection(Joining(c)', Joining(c)) : TRUE
           Asks == /\ \E r \in Room : ReadJoin(c, r)
                   /\ Joining(c)' \subseteq Joining(c) \cup {<<"queue", Len(tasks')>>}
           Answers == /\ \E w \in Worker : /\ SendAnswer(w) /\ pc[w] = "joinReply" /\ job[w].conn = c
                                           /\ <<"run", w>> \in Joining(c) \ Joining(c)'
                      /\ Joining(c)' \subseteq Joining(c)
<1> HIDE DEF Moves
<1>1. CASE Answering
  <2>1. PICK w \in Worker : SendAnswer(w) /\ pc[w] = "joinReply" /\ job[w].conn = c
    BY <1>1
  <2>2. Run(w) /\ ~ReplyJoin(w)
    BY <2>1 DEF Run, ReplyJoin
  <2> QED BY <2>1, <2>2, JoiningRun
<1>2. CASE ~Answering
  <2> HIDE DEF Answering
  <2>1. ASSUME UNCHANGED <<tasks, pc, job>> PROVE Moves
    <3>1. Joining(c)' \subseteq Joining(c)
      BY <2>1 DEF Joining, IsJoin
    <3> QED BY <3>1, JoiningKept DEF Moves
  <2>2. ASSUME NEW d \in Conn, NEW u \in Tasks, ~IsJoin(u, c), tasks' = Append(tasks, u),
               UNCHANGED <<pc, job>>
        PROVE  Moves
    <3>1. Joining(c)' \subseteq Joining(c)
      BY <2>2, JoiningAppend DEF TypeOK
    <3> QED BY <3>1, JoiningKept DEF Moves
  <2>3. ASSUME NEW d \in Conn, ReadAuth(d) PROVE Moves
    <3> DEFINE u == Task("auth", d, NoRoom, 0, TRUE)
    <3>1. tasks' = Append(tasks, u) /\ UNCHANGED <<pc, job>>
      BY <2>3 DEF ReadAuth, Post, workerVars
    <3>2. u \in Tasks /\ ~IsJoin(u, c)
      BY TaskType DEF Task, IsJoin
    <3> HIDE DEF u
    <3> QED BY <2>2, <3>1, <3>2
  <2>4. ASSUME NEW d \in Conn, NEW r \in Room, ReadText(d, r) PROVE Moves
    <3> DEFINE u == Task("text", d, r, texts[d] + 1, TRUE)
    <3>1. tasks' = Append(tasks, u) /\ UNCHANGED <<pc, job>>
      BY <2>4 DEF ReadText, Post, workerVars
    <3>2. texts[d] + 1 \in Nat
      BY DEF TypeOK, ClientOK
    <3>3. u \in Tasks /\ ~IsJoin(u, c)
      BY <3>2, TaskType DEF Task, IsJoin
    <3> HIDE DEF u
    <3> QED BY <2>2, <3>1, <3>3
  <2>5. ASSUME NEW d \in Conn, NEW r \in Room, ReadJoin(d, r) PROVE Asks \/ Moves
    <3> DEFINE u == Task("join", d, r, 0, TRUE)
    <3>1. tasks' = Append(tasks, u) /\ UNCHANGED <<pc, job>>
      BY <2>5 DEF ReadJoin, Post, workerVars
    <3>2. u \in Tasks /\ u.conn = d
      BY TaskType DEF Task
    <3> HIDE DEF u
    <3>3. CASE d = c
      <4>1. Joining(c)' \subseteq Joining(c) \cup {<<"queue", Len(tasks')>>}
        BY <3>1, <3>2, JoiningAppend DEF TypeOK
      <4> QED BY <2>5, <3>3, <4>1
    <3>4. CASE d # c
      BY <2>2, <3>1, <3>2, <3>4 DEF IsJoin
    <3> QED BY <3>3, <3>4
  <2>6. ASSUME NEW w \in Worker, Take(w) PROVE Moves
    BY <2>6, JoiningTake DEF Moves
  <2>7. ASSUME NEW w \in Worker, Run(w) PROVE Moves
    BY <2>7, JoiningReply, JoiningRun, JoiningKept DEF Moves
  <2>8. Asks \/ Moves
    <3> HIDE DEF Asks
    <3> QED BY <2>1, <2>3, <2>4, <2>5, <2>6, <2>7, <1>2, WritersNext DEF Writers
  <2> QED BY <1>2, <2>8 DEF Answering, Moves
<1> QED BY <1>1, <1>2

\* Fewer joins wait in fewer places.
LEMMA FewerPlaces ==
  ASSUME NEW n \in Nat, NEW j \in Nat, NEW a \in Nat, NEW b \in {a, a + 1},
         NEW k \in Nat, NEW l \in {k, k + 1},
         j + a <= k, n <= j - 1 \/ (n <= j /\ b = a)
  PROVE  n + b <= l
OBVIOUS

LEMMA CountInvNext == ASSUME TypeOK, CountInv, [Next]_vars PROVE CountInv'
<1> SUFFICES ASSUME NEW c \in Conn
             PROVE  /\ IsFiniteSet(Joining(c)')
                    /\ Cardinality(Joining(c)') + answered'[c] <= Len(asked'[c])
  BY DEF CountInv
<1> DEFINE J == Joining(c)
           N == Joining(c)'
           l == <<"queue", Len(tasks')>>
<1>1. /\ IsFiniteSet(J) /\ Cardinality(J) \in Nat
      /\ Cardinality(J) + answered[c] <= Len(asked[c])
      /\ answered[c] \in Nat /\ asked[c] \in Seq(Room)
  BY FS_CardinalityType DEF CountInv, TypeOK, ClientOK
<1>2. answered'[c] = answered[c] \/ \E w \in Worker :
        /\ SendAnswer(w) /\ pc[w] = "joinReply" /\ job[w].conn = c
        /\ answered'[c] = answered[c] + 1
  <2>1. ASSUME NEW w \in Worker, SendAnswer(w)
        PROVE  \/ answered'[c] = answered[c]
               \/ pc[w] = "joinReply" /\ job[w].conn = c /\ answered'[c] = answered[c] + 1
    BY <2>1 DEF SendAnswer, AuthAnswered, JoinAnswered, AnswerLost, clientVars, TypeOK, ClientOK
  <2> QED BY <2>1, WritersNext DEF DataWriters
<1>3. asked'[c] = asked[c] \/ \E r \in Room : asked'[c] = Append(asked[c], r)
  BY WritersNext DEF DataWriters, ReadJoin, TypeOK, ClientOK
<1>4. Len(asked[c]) \in Nat /\ Len(asked'[c]) \in {Len(asked[c]), Len(asked[c]) + 1}
  BY <1>1, <1>3
<1>5. CASE (\E r \in Room : ReadJoin(c, r)) /\ N \subseteq J \cup {l}
  <2>1. answered'[c] = answered[c] /\ Len(asked'[c]) = Len(asked[c]) + 1
    BY <1>1, <1>5 DEF ReadJoin, Post, TypeOK, ClientOK
  <2>2. IsFiniteSet(J \cup {l}) /\ Cardinality(J \cup {l}) <= Cardinality(J) + 1
    <3> HIDE DEF J, l
    <3>1. /\ IsFiniteSet(J \cup {l})
          /\ Cardinality(J \cup {l}) = IF l \in J THEN Cardinality(J) ELSE Cardinality(J) + 1
      BY <1>1, FS_AddElement
    <3> QED BY <1>1, <3>1
  <2>3. IsFiniteSet(N) /\ Cardinality(N) \in Nat
    <3> HIDE DEF J, N, l
    <3> QED BY <1>5, <2>2, FS_Subset, FS_CardinalityType
  <2>4. Cardinality(N) <= Cardinality(J \cup {l}) /\ Cardinality(J \cup {l}) \in Nat
    <3> HIDE DEF J, N, l
    <3> QED BY <1>5, <2>2, FS_Subset, FS_CardinalityType
  <2> HIDE DEF J, N, l
  <2>5. Cardinality(N) <= Cardinality(J) + 1
    BY <1>1, <2>2, <2>3, <2>4
  <2>6. Cardinality(N) + answered'[c] <= Len(asked'[c])
    BY <1>1, <1>4, <2>1, <2>3, <2>5
  <2> QED BY <2>3, <2>6 DEF N
<1>6. ASSUME NEW p, p \in J \ N, N \subseteq J
      PROVE  IsFiniteSet(N) /\ Cardinality(N) + answered'[c] <= Len(asked'[c])
  <2> HIDE DEF J, N, l
  <2>1. IsFiniteSet(J \ {p}) /\ Cardinality(J \ {p}) = Cardinality(J) - 1
    BY <1>1, <1>6, FS_RemoveElement
  <2>2. N \in SUBSET (J \ {p})
    BY <1>6
  <2>3. IsFiniteSet(N) /\ Cardinality(N) <= Cardinality(J \ {p}) /\ Cardinality(N) \in Nat
    BY <2>1, <2>2, FS_Subset, FS_CardinalityType
  <2>4. answered'[c] \in {answered[c], answered[c] + 1} /\ Len(asked'[c]) >= Len(asked[c])
    BY <1>2, <1>4
  <2>5. Cardinality(N) <= Cardinality(J) - 1
    BY <2>1, <2>3
  <2> QED BY <1>1, <1>4, <2>3, <2>4, <2>5, FewerPlaces
<1>7. ASSUME ~\E w \in Worker : SendAnswer(w) /\ pc[w] = "joinReply" /\ job[w].conn = c,
             NEW f \in Injection(N, J)
      PROVE  IsFiniteSet(N) /\ Cardinality(N) + answered'[c] <= Len(asked'[c])
  <2>1. answered'[c] = answered[c]
    BY <1>2, <1>7
  <2> HIDE DEF J, N, l
  <2>2. IsFiniteSet(N) /\ Cardinality(N) <= Cardinality(J)
    BY <1>1, <1>7, FS_Injection
  <2>3. Cardinality(N) \in Nat
    BY <2>2, FS_CardinalityType
  <2> QED BY <1>1, <1>4, <2>1, <2>2, <2>3, FewerPlaces
<1>8. \/ (\E r \in Room : ReadJoin(c, r)) /\ N \subseteq J \cup {l}
      \/ (\E p : p \in J \ N) /\ N \subseteq J
      \/ /\ ~\E w \in Worker : SendAnswer(w) /\ pc[w] = "joinReply" /\ job[w].conn = c
         /\ \E f \in Injection(N, J) : TRUE
  BY JoiningNext
<1> QED BY <1>5, <1>6, <1>7, <1>8

\* A client whose joins were answered has none left with the pool.
LEMMA NoneJoining ==
  ASSUME TypeOK, CountInv, NEW c \in Conn, ~Waiting(c)
  PROVE  Joining(c) = {}
<1>1. /\ IsFiniteSet(Joining(c)) /\ Cardinality(Joining(c)) \in Nat
      /\ Cardinality(Joining(c)) + answered[c] <= Len(asked[c])
      /\ answered[c] \in Nat /\ Len(asked[c]) \in Nat
  BY FS_CardinalityType DEF CountInv, TypeOK, ClientOK
<1>2. answered[c] >= Len(asked[c])
  BY <1>1 DEF Waiting
<1>3. Cardinality(Joining(c)) = 0
  BY <1>1, <1>2
<1> QED BY <1>1, <1>3, FS_EmptySet

LEMMA HastyGrows == ASSUME [Next]_vars PROVE hasty \subseteq hasty'
<1>1. ASSUME NEW c \in Conn, NEW r \in Room, ReadJoin(c, r) PROVE hasty \subseteq hasty'
  BY <1>1 DEF ReadJoin
<1> QED BY <1>1, WritersNext DEF DataWriters

\* A client that is not hasty has one join at a time.
LEMMA OneJoins ==
  ASSUME TypeOK, CountInv, HastyInv, NEW c \in Conn \ hasty,
         NEW p \in Joining(c), NEW q \in Joining(c)
  PROVE  p = q
<1> SUFFICES ASSUME p # q PROVE FALSE
  OBVIOUS
<1>1. /\ IsFiniteSet(Joining(c)) /\ Cardinality(Joining(c)) \in Nat
      /\ Cardinality(Joining(c)) + answered[c] <= Len(asked[c])
      /\ Len(asked[c]) <= answered[c] + 1
      /\ answered[c] \in Nat /\ Len(asked[c]) \in Nat
  BY FS_CardinalityType DEF CountInv, HastyInv, TypeOK, ClientOK
<1>2. Cardinality({p, q}) = 2
  <2>1. Cardinality({p}) = 1 /\ IsFiniteSet({p})
    BY FS_Singleton
  <2>2. Cardinality({p} \cup {q}) = Cardinality({p}) + 1
    BY <2>1, FS_AddElement
  <2>3. {p, q} = {p} \cup {q}
    OBVIOUS
  <2> QED BY <2>1, <2>2, <2>3
<1>3. {p, q} \subseteq Joining(c)
  OBVIOUS
<1>4. Cardinality({p, q}) <= Cardinality(Joining(c))
  BY <1>1, <1>3, FS_Subset
<1> QED BY <1>1, <1>2, <1>4

--------------------------------------------------------------------------------
(* The invariant, part by part.                                                  *)

LEMMA HastyInvNext == ASSUME TypeOK, HastyInv, [Next]_vars PROVE HastyInv'
<1> SUFFICES ASSUME NEW c \in Conn, c \notin hasty'
             PROVE  Len(asked'[c]) <= answered'[c] + 1
  BY DEF HastyInv
<1>1. answered[c] \in Nat /\ asked[c] \in Seq(Room) /\ Len(asked[c]) \in Nat
  BY DEF TypeOK, ClientOK
<1>2. answered'[c] \in {answered[c], answered[c] + 1}
  <2>1. ASSUME NEW w \in Worker, SendAnswer(w)
        PROVE  answered'[c] \in {answered[c], answered[c] + 1}
    BY <2>1 DEF SendAnswer, AuthAnswered, JoinAnswered, AnswerLost, clientVars, TypeOK, ClientOK
  <2> QED BY <2>1, WritersNext DEF DataWriters
<1>3. ASSUME UNCHANGED asked, hasty \subseteq hasty' PROVE Len(asked'[c]) <= answered'[c] + 1
  <2>1. Len(asked[c]) <= answered[c] + 1
    BY <1>3 DEF HastyInv
  <2> QED BY <1>1, <1>2, <1>3, <2>1
<1>4. ASSUME NEW d \in Conn, NEW r \in Room, ReadJoin(d, r)
      PROVE  Len(asked'[c]) <= answered'[c] + 1
  <2>1. c \notin hasty /\ answered'[c] = answered[c] /\ Len(asked[c]) <= answered[c] + 1
    BY <1>4 DEF ReadJoin, Post, HastyInv
  <2>2. CASE d = c
    <3>1. ~Waiting(c) /\ Len(asked'[c]) = Len(asked[c]) + 1
      BY <1>1, <1>4, <2>2 DEF ReadJoin, TypeOK, ClientOK
    <3> QED BY <1>1, <2>1, <3>1 DEF Waiting
  <2>3. CASE d # c
    <3>1. asked'[c] = asked[c]
      BY <1>4, <2>3 DEF ReadJoin
    <3> QED BY <2>1, <3>1
  <2> QED BY <2>2, <2>3
<1> QED BY <1>3, <1>4, WritersNext DEF DataWriters

\* A client that has gone stays gone, and one not accepted yet asks for nothing.
LEMMA ClientNext ==
  ASSUME Inv, GoneInv, [Next]_vars, NEW c \in Conn
  PROVE  /\ client[c] = "gone" => client'[c] = "gone" /\ answered'[c] = answered[c]
         /\ client[c] = "gone" => asked'[c] = asked[c]
         /\ client[c] # "gone" /\ client'[c] = "gone" =>
              c \in open /\ UNCHANGED <<open, freeing>>
         /\ client[c] = "off" /\ client'[c] # "off" => Accept(c)
<1> USE DEF Inv, TypeOK, ClientOK
<1>1. ASSUME NEW d \in Conn, Accept(d) \/ ReadAuth(d) \/ ClientLeaves(d)
      PROVE  /\ client[c] = "gone" => client'[c] = "gone"
             /\ client[c] # "gone" /\ client'[c] = "gone" =>
                  client[c] # "off" /\ UNCHANGED <<open, freeing>>
             /\ client[c] = "off" /\ client'[c] # "off" => Accept(c)
  BY <1>1 DEF Accept, ReadAuth, ClientLeaves, connVars, freeVars
<1>2. ASSUME NEW w \in Worker, SendAnswer(w)
      PROVE  /\ client[c] = "gone" => client'[c] = "gone" /\ answered'[c] = answered[c]
             /\ client'[c] # client[c] => client[c] # "off" /\ UNCHANGED <<open, freeing>>
  <2>1. job[w].conn \in Conn /\ client[job[w].conn] # "off"
    BY <1>2, RunningPending DEF SendAnswer, OffInv
  <2>2. client[c] = "gone" => client'[c] = "gone" /\ answered'[c] = answered[c]
    BY <1>2, <2>1
       DEF SendAnswer, AuthAnswered, JoinAnswered, AnswerLost, Unwritable, clientVars
  <2>3. client'[c] # client[c] => job[w].conn = c
    BY <1>2, <2>1 DEF SendAnswer, AuthAnswered, JoinAnswered, AnswerLost, clientVars
  <2>4. UNCHANGED <<open, freeing>>
    BY <1>2 DEF SendAnswer, freeVars
  <2> QED BY <2>1, <2>2, <2>3, <2>4
<1>3. ASSUME NEW d \in Conn, NEW r \in Room, ReadJoin(d, r)
      PROVE  client[c] = "gone" => asked'[c] = asked[c]
  BY <1>3 DEF ReadJoin
<1>4. client[c] # "gone" /\ client[c] # "off" => c \in open
  BY DEF GoneInv
<1> HIDE DEF Inv, TypeOK, ClientOK
<1>5. client[c] = "gone" => answered'[c] = answered[c] /\ asked'[c] = asked[c]
  BY <1>2, <1>3, WritersNext DEF DataWriters
<1> QED BY <1>1, <1>2, <1>4, <1>5, WritersNext DEF Writers

LEMMA GoneInvNext ==
  ASSUME Inv, HistoryInv, GoneInv, [Next]_vars
  PROVE  GoneInv'
<1> USE DEF Inv, TypeOK, ConnOK, FreeOK
<1>1. ASSUME NEW c \in open' PROVE c \in reading' \/ freeing' = c
  <2>1. ASSUME NEW d \in Conn, Accept(d) PROVE c \in reading' \/ freeing' = c
    BY <2>1 DEF Accept, GoneInv, freeVars
  <2>2. ASSUME NEW d \in Conn, FreeConnection(d), freeing = NoConn, reading' \in {reading, reading \ {d}},
               UNCHANGED open
        PROVE  c \in reading' \/ freeing' = c
    <3>1. c \in Conn /\ c # NoConn
      BY <2>2, NoneAssumption
    <3> QED BY <2>2, <3>1 DEF FreeConnection, GoneInv
  <2>3. ASSUME NEW d \in Conn, HeaderReadFails(d) \/ AnswerWriteFails(d) \/ QueueWriteFails(d)
        PROVE  FreeConnection(d) /\ freeing = NoConn /\ reading' \in {reading, reading \ {d}}
               /\ UNCHANGED open
    BY <2>3 DEF HeaderReadFails, AnswerWriteFails, QueueWriteFails, connVars
  <2>4. ASSUME Free PROVE c \in reading' \/ freeing' = c
    <3>1. CASE Close
      BY <3>1 DEF Close, GoneInv
    <3>2. CASE ~Close
      BY <2>4, <3>2
         DEF Free, LeaveRoom, NotifyLeave, NotifyLeaveNext, LogLeave, Erase, EraseEntry, Forget,
                 IoGoto, freeVars, connVars, GoneInv
    <3> QED BY <3>1, <3>2
  <2>5. ASSUME UNCHANGED <<iopc, freeing, free_id>>, ~\E d \in Conn : Accept(d) \/ HeaderReadFails(d)
        PROVE  c \in reading' \/ freeing' = c
    <3>1. UNCHANGED reading
      BY <2>5, WritersNext DEF DataWriters
    <3>2. c \in open
      BY <2>5, WritersNext DEF Writers, Close
    <3> QED BY <2>5, <3>1, <3>2 DEF GoneInv
  <2>6. \/ UNCHANGED <<iopc, freeing, free_id>>
        \/ \E d \in Conn : HeaderReadFails(d) \/ AnswerWriteFails(d) \/ QueueWriteFails(d)
        \/ Free
    BY WritersNext DEF Writers
  <2> HIDE DEF Inv, TypeOK, ConnOK, FreeOK
  <2> QED BY <2>1, <2>2, <2>3, <2>4, <2>5, <2>6
<1>2. ASSUME NEW c \in Conn, client'[c] = "off" PROVE c \notin reading' /\ asked'[c] = <<>>
  <2>1. client[c] = "off"
    BY <1>2, ServingNext
  <2>2. c \notin reading /\ asked[c] = <<>>
    BY <2>1 DEF GoneInv
  <2>3. ASSUME NEW d \in Conn, Accept(d) \/ HeaderReadFails(d) PROVE c \notin reading'
    BY <1>2, <2>2, <2>3 DEF Accept, HeaderReadFails, ClientOK
  <2>4. ASSUME NEW d \in Conn, NEW r \in Room, ReadJoin(d, r) PROVE asked'[c] = asked[c]
    BY <2>1, <2>4 DEF ReadJoin, ClientOK
  <2> QED BY <2>2, <2>3, <2>4, WritersNext DEF DataWriters
<1>3. ASSUME NEW c \in Conn, c \in werr' \/ freeing' = c \/ (c \notin open' /\ client'[c] # "off")
      PROVE  client'[c] = "gone"
  <2>0. client[c] = "gone" => client'[c] = "gone"
    BY ClientNext
  <2>1. ASSUME c \in werr', c \notin werr PROVE client[c] = "gone"
    <3>1. PICK w \in Worker : SendAnswer(w)
      BY <2>1, WritersNext DEF DataWriters, AnswerWriteFails
    <3>2. job[w].conn \in Conn /\ client[job[w].conn] # "off"
      BY <3>1, RunningPending DEF SendAnswer, OffInv
    <3>3. job[w].conn = c /\ Unwritable(c)
      BY <2>1, <3>1 DEF SendAnswer, AuthAnswered, JoinAnswered, AnswerLost
    <3> QED BY <3>2, <3>3 DEF Unwritable, GoneInv
  <2>2. ASSUME freeing' = c, freeing # c PROVE client[c] = "gone"
    <3>1. ~Free
      <4>1. Close => freeing' # c
        BY NoneAssumption DEF Close
      <4>2. Free /\ ~Close => freeing' = freeing
        BY DEF Free, LeaveRoom, NotifyLeave, NotifyLeaveNext, LogLeave, Erase, EraseEntry, Forget,
                 IoGoto, freeVars
      <4> QED BY <2>2, <4>1, <4>2
    <3>2. PICK d \in Conn : HeaderReadFails(d) \/ AnswerWriteFails(d) \/ QueueWriteFails(d)
      BY <2>2, <3>1, WritersNext DEF Writers
    <3>3. d = c
      BY <2>2, <3>2 DEF HeaderReadFails, AnswerWriteFails, QueueWriteFails, FreeConnection
    <3>4. CASE HeaderReadFails(c)
      BY <3>4 DEF HeaderReadFails, Unwritable, GoneInv
    <3>5. CASE AnswerWriteFails(c)
      BY <3>5 DEF AnswerWriteFails, GoneInv
    <3>6. CASE QueueWriteFails(c)
      <4>1. outbox[c] # <<>> /\ Unwritable(c) /\ outbox[c] \in Seq(Msg)
        BY <3>6, SeqTypes DEF QueueWriteFails
      <4>2. 1 \in 1 .. Len(outbox[c]) /\ outbox[c][1].room \in Room
        <5>1. 1 \in 1 .. Len(outbox[c]) /\ outbox[c][1] \in Msg
          BY <4>1
        <5> QED BY <5>1 DEF Msg
      <4>3. In(outbox[c][1].room, asked[c])
        <5>1. In(outbox[c][1], outbox[c])
          BY <4>2 DEF In
        <5> QED BY <4>2, <5>1 DEF HistoryInv, UnaskedInv, Unheard
      <4>4. asked[c] # <<>>
        BY <4>3 DEF In
      <4> QED BY <4>1, <4>4 DEF Unwritable, GoneInv
    <3> QED BY <3>2, <3>3, <3>4, <3>5, <3>6
  <2>3. ASSUME c \notin open', client'[c] # "off" PROVE client[c] = "gone"
    <3>1. CASE c \in open
      <4>1. Close /\ freeing = c
        BY <2>3, <3>1, WritersNext DEF Writers, Accept, Close
      <4> QED BY <4>1 DEF GoneInv
    <3>2. CASE c \notin open
      <4>1. client[c] # "off"
        BY <2>3, ClientNext DEF Accept
      <4> QED BY <3>2, <4>1 DEF GoneInv
    <3> QED BY <3>1, <3>2
  <2>4. c \in werr \/ freeing = c => client[c] = "gone"
    BY DEF GoneInv
  <2> QED BY <1>3, <2>0, <2>1, <2>2, <2>3, <2>4
<1> HIDE DEF Inv, TypeOK, ConnOK, FreeOK
<1> QED BY <1>1, <1>2, <1>3 DEF GoneInv

\* Whoever runs a join under a user's id is the user's connection, and a user
\* who asked for nothing runs none.
LEMMA OwnJoin ==
  ASSUME OneConnectionEach, Inv, NEW w \in Worker, pc[w] # "idle", job[w].op = "join",
         NEW c \in Conn, AccountOf[c] # -1, client_id[job[w].conn] = AccountOf[c]
  PROVE  job[w].conn = c /\ Joining(c) # {}
<1>1. job[w].conn \in Conn
  BY RunningPending DEF Inv
<1>2. AccountOf[c] \in Account /\ AccountOf[c] \notin Garbage
  BY IdAssumption DEF OneConnectionEach
<1>3. client_id[job[w].conn] \in IdOf(job[w].conn)
  BY <1>1 DEF Inv, IdInv
<1>4. job[w].conn = c
  BY <1>1, <1>2, <1>3 DEF IdOf, OneConnectionEach
<1>5. <<"run", w>> \in Joining(c)
  BY <1>4, JoiningAre DEF IsJoin
<1> QED BY <1>4, <1>5

\* A client with no join under way is in no more tables after a step.
LEMMA TablesNext ==
  ASSUME OneConnectionEach, Inv, [Next]_vars, NEW c \in Conn,
         ~\E w \in Worker : pc[w] # "idle" /\ job[w].op = "join" /\ job[w].conn = c
  PROVE  /\ \A r \in Room, i \in Id : subscribers'[r][i] = c => subscribers[r][i] = c
         /\ AccountOf[c] # -1 =>
              /\ AccountOf[c] \in entries' => AccountOf[c] \in entries
              /\ AccountOf[c] \in clientid_to_login' => AccountOf[c] \in clientid_to_login
<1> USE DEF Inv, TypeOK, ManagerOK, ChannelOK
<1>1. ASSUME NEW r \in Room, NEW i \in Id, subscribers'[r][i] = c PROVE subscribers[r][i] = c
  <2>1. ASSUME NEW w \in Worker, Subscribe(w) PROVE subscribers[r][i] = c
    <3>1. job[w].conn # c
      BY <2>1, LineType DEF Subscribe
    <3> QED BY <1>1, <2>1, <3>1, SubscribeIs
  <2>2. ASSUME Erase PROVE subscribers[r][i] = c
    BY <1>1, <2>2, NoneAssumption DEF Erase
  <2> QED BY <1>1, <2>1, <2>2, WritersNext DEF Writers
<1>2. ASSUME AccountOf[c] # -1, AccountOf[c] \in entries' PROVE AccountOf[c] \in entries
  <2>1. ASSUME NEW w \in Worker, EmplaceEntry(w) PROVE AccountOf[c] \in entries
    <3>1. pc[w] # "idle" /\ job[w].op = "join"
      BY <2>1, LineType DEF EmplaceEntry
    <3>2. client_id[job[w].conn] # AccountOf[c]
      BY <1>2, <3>1, OwnJoin
    <3> QED BY <1>2, <2>1, <3>2 DEF EmplaceEntry
  <2>2. EraseEntry => AccountOf[c] \in entries
    BY <1>2 DEF EraseEntry
  <2> QED BY <1>2, <2>1, <2>2, WritersNext DEF DataWriters
<1>3. ASSUME AccountOf[c] # -1, AccountOf[c] \in clientid_to_login'
      PROVE  AccountOf[c] \in clientid_to_login
  <2>1. ASSUME NEW w \in Worker, Record(w) PROVE AccountOf[c] \in clientid_to_login
    <3>1. pc[w] # "idle" /\ job[w].op = "join"
      BY <2>1, LineType DEF Record
    <3>2. client_id[job[w].conn] # AccountOf[c]
      BY <1>3, <3>1, OwnJoin
    <3> QED BY <1>3, <2>1, <3>2 DEF Record
  <2> QED BY <1>3, <2>1, WritersNext DEF DataWriters, Forget
<1> QED BY <1>1, <1>2, <1>3

LEMMA NoJoinRuns ==
  ASSUME HistoryInv, NEW c \in Conn, asked[c] = <<>> \/ Joining(c) = {}
  PROVE  ~\E w \in Worker : pc[w] # "idle" /\ job[w].op = "join" /\ job[w].conn = c
<1> SUFFICES ASSUME NEW w \in Worker, pc[w] # "idle", job[w].op = "join", job[w].conn = c
             PROVE  FALSE
  OBVIOUS
<1>1. JoinWork(c, job[w].room, pc[w])
  BY RunningWork
<1>2. asked[c] # <<>>
  BY <1>1 DEF JoinWork, In
<1>3. <<"run", w>> \in Joining(c)
  BY JoiningAre DEF IsJoin
<1> QED BY <1>2, <1>3

LEMMA AskedNext ==
  ASSUME TypeOK, [Next]_vars, NEW c \in Conn
  PROVE  asked'[c] = asked[c] \/ (asked'[c] # <<>> /\ \E r \in Room : ReadJoin(c, r))
<1>1. ASSUME NEW d \in Conn, NEW r \in Room, ReadJoin(d, r)
      PROVE  asked'[c] = asked[c] \/ (asked'[c] # <<>> /\ ReadJoin(c, r))
  <2>1. asked'[c] = asked[c] \/ (d = c /\ asked'[c] = Append(asked[c], r))
    BY <1>1 DEF ReadJoin, TypeOK, ClientOK
  <2>2. asked[c] \in Seq(Room)
    BY DEF TypeOK, ClientOK
  <2>3. Append(asked[c], r) # <<>>
    <3>1. Len(Append(asked[c], r)) = Len(asked[c]) + 1 /\ Len(asked[c]) \in Nat
      BY <2>2
    <3> QED BY <3>1
  <2> QED BY <1>1, <2>1, <2>3
<1> QED BY <1>1, WritersNext DEF DataWriters

LEMMA NothingInvNext ==
  ASSUME OneConnectionEach, Inv, HistoryInv, NothingInv, [Next]_vars
  PROVE  NothingInv'
<1> SUFFICES ASSUME NEW c \in Conn, asked'[c] = <<>>, AccountOf[c] # -1
             PROVE  AccountOf[c] \notin entries' /\ AccountOf[c] \notin clientid_to_login'
  BY DEF NothingInv
<1>1. asked[c] = <<>>
  BY AskedNext DEF Inv
<1>2. AccountOf[c] \notin entries /\ AccountOf[c] \notin clientid_to_login
  BY <1>1 DEF NothingInv
<1>3. ~\E w \in Worker : pc[w] # "idle" /\ job[w].op = "join" /\ job[w].conn = c
  BY <1>1, NoJoinRuns
<1> QED BY <1>2, <1>3, TablesNext

\* The connection being freed changes when a free_connection starts or ends.
LEMMA FreeingNext ==
  ASSUME TypeOK, [Next]_vars
  PROVE  \/ \E d \in Conn : /\ FreeConnection(d) /\ iopc = "idle" /\ freeing = NoConn
                            /\ UNCHANGED <<open, subscribers, entries, clientid_to_login, channels>>
         \/ UNCHANGED <<freeing, free_id>>
         \/ Close
<1>1. ASSUME NEW d \in Conn, HeaderReadFails(d) \/ AnswerWriteFails(d) \/ QueueWriteFails(d)
      PROVE  /\ FreeConnection(d) /\ iopc = "idle" /\ freeing = NoConn
             /\ UNCHANGED <<open, subscribers, entries, clientid_to_login, channels>>
  BY <1>1 DEF HeaderReadFails, AnswerWriteFails, QueueWriteFails, connVars, managerVars,
              channelVars, TypeOK, FreeOK
<1>2. ASSUME Free, ~Close PROVE UNCHANGED <<freeing, free_id>>
  BY <1>2 DEF Free, LeaveRoom, NotifyLeave, NotifyLeaveNext, LogLeave, Erase, EraseEntry, Forget,
                 IoGoto, freeVars
<1> QED BY <1>1, <1>2, WritersNext DEF Writers

\* A connection open after a step was so before, or is new and in no table.
LEMMA OpenNext ==
  ASSUME Inv, HistoryInv, GoneInv, [Next]_vars, NEW c \in open'
  PROVE  /\ c \in Conn
         /\ \/ c \in open /\ (freeing = c => freeing' = c)
            \/ asked[c] = <<>> /\ UNCHANGED <<asked, subscribers>>
<1> USE DEF Inv, TypeOK, ConnOK
<1>1. ASSUME c \notin open PROVE c \in Conn /\ asked[c] = <<>> /\ UNCHANGED <<asked, subscribers>>
  <2>1. PICK d \in Conn : Accept(d)
    BY <1>1, WritersNext DEF Writers, Close
  <2>2. c = d /\ client[d] = "off"
    BY <1>1, <2>1 DEF Accept
  <2> QED BY <2>1, <2>2 DEF Accept, GoneInv, channelVars
<1>2. ASSUME c \in open, freeing = c PROVE freeing' = c
  <2>1. c # NoConn
    BY <1>2, NoneAssumption
  <2>2. ~Close
    BY <1>2 DEF Close
  <2> QED BY <1>2, <2>1, <2>2, FreeingNext
<1> QED BY <1>1, <1>2

LEMMA AskedOwn ==
  ASSUME Inv, HistoryInv, OpenInv, NEW c \in open, NEW r \in Room, NEW i \in Id, subscribers[r][i] = c
  PROVE  asked[c] # <<>> /\ OwnId(c)
<1>1. c \in Conn
  BY DEF Inv, TypeOK, ConnOK
<1>2. In(r, asked[c])
  BY <1>1 DEF HistoryInv, UnaskedInv, Unsubscribed
<1>3. asked[c] # <<>>
  BY <1>2 DEF In
<1> QED BY <1>3 DEF OpenInv

LEMMA AskedInvNext ==
  ASSUME Inv, GoneInv, AskedInv, [Next]_vars
  PROVE  AskedInv'
<1>0. TypeOK
  BY DEF Inv
<1>1. ASSUME NEW c \in Conn, client'[c] = "new" PROVE asked'[c] = <<>>
  <2>1. client[c] \in {"off", "new"}
    BY <1>1, ServingNext
  <2>2. asked[c] = <<>>
    BY <2>1 DEF GoneInv, AskedInv
  <2>3. \A r \in Room : ~ReadJoin(c, r)
    BY <2>1 DEF ReadJoin
  <2> QED BY <1>0, <2>2, <2>3, AskedNext
<1>2. ASSUME NEW t \in Pending', t.op = "auth" PROVE asked'[t.conn] = <<>>
  <2>1. CASE t \in Pending
    <3>1. t.conn \in Conn /\ asked[t.conn] = <<>> /\ ~LetIn(t.conn)
      BY <1>0, <1>2, <2>1, PendingConn DEF AskedInv, Inv, SigningInv
    <3>2. \A r \in Room : ~ReadJoin(t.conn, r)
      BY <3>1 DEF ReadJoin, LetIn
    <3> QED BY <1>0, <3>1, <3>2, AskedNext
  <2>2. CASE t \notin Pending
    <3>1. t.conn \in Conn /\ ReadAuth(t.conn)
      BY <1>0, <1>2, <2>2, PendingNext
    <3> QED BY <3>1 DEF ReadAuth, AskedInv
  <2> QED BY <2>1, <2>2
<1> QED BY <1>1, <1>2 DEF AskedInv

LEMMA EntryInvNext == ASSUME TypeOK, EntryInv, [Next]_vars PROVE EntryInv'
<1> USE DEF TypeOK, ManagerOK, HeldOK, FreeOK
<1>1. CASE EraseEntry
  <2>1. ASSUME NEW v \in Worker, it'[v] # NoId PROVE it'[v] \in entries'
    BY <1>1, <2>1 DEF EraseEntry, EntryInv
  <2>2. ASSUME NEW i \in Id, i \notin entries' PROVE client_in_rooms'[i] = {}
    BY <1>1, <2>2 DEF EraseEntry, EntryInv
  <2> QED BY <2>1, <2>2 DEF EntryInv
<1>2. ASSUME NEW w \in Worker, Enter(w) PROVE EntryInv'
  <2>1. UNCHANGED <<entries, client_in_rooms>>
    BY <1>2 DEF Enter, managerVars
  <2>2. ASSUME NEW v \in Worker, it'[v] # NoId PROVE it'[v] \in entries'
    <3>1. it'[v] = it[v] \/ it'[v] \in entries
      BY <1>2 DEF Enter
    <3> QED BY <2>1, <2>2, <3>1 DEF EntryInv
  <2> QED BY <2>1, <2>2 DEF EntryInv
<1>3. ASSUME NEW w \in Worker, EmplaceEntry(w) PROVE EntryInv'
  <2>1. entries \subseteq entries' /\ UNCHANGED client_in_rooms
    BY <1>3 DEF EmplaceEntry
  <2>2. ASSUME NEW v \in Worker, it'[v] # NoId PROVE it'[v] \in entries'
    <3>1. it'[v] = it[v] \/ it'[v] \in entries'
      BY <1>3 DEF EmplaceEntry
    <3> QED BY <2>1, <2>2, <3>1 DEF EntryInv
  <2> QED BY <2>1, <2>2 DEF EntryInv
<1>4. ASSUME NEW w \in Worker, Push(w) PROVE EntryInv'
  <2>1. UNCHANGED entries /\ it' = [it EXCEPT ![w] = NoId]
    BY <1>4 DEF Push
  <2>2. ASSUME NEW i \in Id \ entries PROVE client_in_rooms'[i] = client_in_rooms[i]
    <3>1. it[w] # NoId => it[w] # i
      BY DEF EntryInv
    <3> QED BY <1>4, <3>1 DEF Push
  <2> QED BY <2>1, <2>2 DEF EntryInv
<1>5. CASE UNCHANGED <<it, entries, client_in_rooms>>
  BY <1>5 DEF EntryInv
<1>6. \/ UNCHANGED <<it, entries, client_in_rooms>>
      \/ \E w \in Worker : Enter(w) \/ EmplaceEntry(w) \/ Push(w)
      \/ EraseEntry
  BY WritersNext DEF DataWriters
<1> QED BY <1>1, <1>2, <1>3, <1>4, <1>5, <1>6

\* The list of a user in service loses no room.
LEMMA ListNext ==
  ASSUME OneConnectionEach, Inv, [Next]_vars, NEW c \in Conn,
         AccountOf[c] \in Account, freeing # c
  PROVE  /\ client_in_rooms[AccountOf[c]] \subseteq client_in_rooms'[AccountOf[c]]
         /\ EraseEntry => free_id # AccountOf[c]
<1> DEFINE i == AccountOf[c]
<1>0. i \in Id
  BY DEF Id
<1>1. ASSUME EraseEntry PROVE free_id # i
  BY <1>1, FreeIdOther DEF EraseEntry
<1>2. ASSUME EraseEntry PROVE client_in_rooms'[i] = client_in_rooms[i]
  BY <1>0, <1>1, <1>2 DEF EraseEntry, Inv, TypeOK, ManagerOK
<1>3. ASSUME NEW w \in Worker, Push(w) PROVE client_in_rooms[i] \subseteq client_in_rooms'[i]
  BY <1>0, <1>3 DEF Push, Inv, TypeOK, ManagerOK
<1> QED BY <1>1, <1>2, <1>3, WritersNext DEF DataWriters

\* No other thread runs a join of the user.
LEMMA OthersJoin ==
  ASSUME OneConnectionEach, Inv, CountInv, HastyInv, NEW w \in Worker, NEW v \in Worker,
         pc[w] # "idle", job[w].op = "join", job[w].conn \notin hasty,
         AccountOf[job[w].conn] # -1,
         pc[v] # "idle", job[v].op = "join", v # w
  PROVE  client_id[job[v].conn] # AccountOf[job[w].conn]
<1> SUFFICES ASSUME client_id[job[v].conn] = AccountOf[job[w].conn] PROVE FALSE
  OBVIOUS
<1>1. job[w].conn \in Conn /\ TypeOK
  BY RunningPending DEF Inv
<1>2. job[v].conn = job[w].conn
  BY <1>1, OwnJoin
<1>3. <<"run", v>> \in Joining(job[w].conn) /\ <<"run", w>> \in Joining(job[w].conn)
  BY <1>2, JoiningAre DEF IsJoin
<1>4. <<"run", v>> = <<"run", w>>
  BY <1>1, <1>3, OneJoins
<1> QED BY <1>4

LEMMA EnterInvNext ==
  ASSUME OneConnectionEach, Inv, CountInv, HastyInv, EnterInv, [Next]_vars
  PROVE  EnterInv'
<1> SUFFICES ASSUME NEW w \in Worker, NEW c, NEW r, c = job'[w].conn, r = job'[w].room,
                    pc'[w] # "idle", job'[w].op = "join", Serving(c)', c \notin hasty'
             PROVE  EnterAt(w, AccountOf[c])'
  BY DEF EnterInv, EnterAt, Serving
<1> DEFINE i == AccountOf[c]
<1>1. CASE pc'[w] = "enter"
  BY <1>1 DEF EnterAt, Listed
<1>2. CASE pc'[w] # "enter"
  <2>1. /\ pc[w] # "idle" /\ job[w].op = "join" /\ c = job[w].conn /\ r = job[w].room
        /\ pc'[w] = pc[w] \/ Lined(w)
    BY <1>2, JoinStep
  <2>2. c \in Conn /\ r \in Room /\ Serving(c) /\ OwnId(c)
    BY <2>1, ServedJoin
  <2>3. i \in Account /\ client_id[c] = i /\ i \in Id /\ i # -1 /\ freeing # c
    BY <2>2, IdAssumption DEF OwnId, Id, Serving
  <2>4. c \notin hasty
    BY HastyGrows
  <2>5. EnterAt(w, i)
    BY <2>1, <2>2, <2>4 DEF EnterInv
  <2>6. client_in_rooms[i] \subseteq client_in_rooms'[i] /\ (EraseEntry => free_id # i)
    BY <2>2, <2>3, ListNext
  <2>7. \A v \in Worker : v # w /\ pc[v] # "idle" /\ job[v].op = "join" => client_id[job[v].conn] # i
    BY <2>1, <2>3, <2>4, OthersJoin
  <2>8. \A l : Goto(w, l) => pc'[w] = l
    BY DEF Goto, Inv, TypeOK, WorkersOK
  <2>9. CASE Enter(w)
    <3>1. IF i \in entries THEN it' = [it EXCEPT ![w] = i] /\ Goto(w, "push")
                           ELSE Goto(w, "emplace")
      BY <2>1, <2>3, <2>9 DEF Enter
    <3>2. UNCHANGED entries
      BY <2>9 DEF Enter, managerVars
    <3> QED BY <2>8, <3>1, <3>2 DEF EnterAt, Listed, Inv, TypeOK, HeldOK
  <2>10. CASE EmplaceEntry(w)
    <3>1. i \notin entries
      BY <2>5, <2>10 DEF EnterAt, EmplaceEntry
    <3>2. it' = [it EXCEPT ![w] = i] /\ Goto(w, "push")
      BY <2>1, <2>3, <2>10, <3>1 DEF EmplaceEntry
    <3> QED BY <2>8, <3>2 DEF EnterAt, Listed, Inv, TypeOK, HeldOK
  <2>11. CASE Push(w)
    <3>1. it[w] = i /\ i # NoId
      BY <2>3, <2>5, <2>11, NoneAssumption DEF EnterAt, Push
    <3>2. client_in_rooms' = [client_in_rooms EXCEPT ![i] = @ \cup {r}] /\ Goto(w, "find")
      BY <2>1, <2>11, <3>1 DEF Push
    <3>3. r \in client_in_rooms'[i]
      BY <2>3, <3>2 DEF Inv, TypeOK, ManagerOK
    <3> QED BY <2>8, <3>2, <3>3 DEF EnterAt
  <2>12. CASE pc'[w] # pc[w] /\ ~Enter(w) /\ ~EmplaceEntry(w) /\ ~Push(w)
    <3>1. Lined(w) /\ Run(w)
      BY <2>1, <2>12 DEF Lined, Run, Join
    <3>2. pc'[w] \in Listed => pc[w] \in Listed
      <4>1. pc[w] \notin {"enter", "emplace", "push"}
        BY <3>1, <2>12 DEF Lined, Find, Load, Create, Replay, Resend, Subscribe, Notify, LogMessage, Record
      <4> QED BY <2>1, <2>12, <3>1, <4>1, JoinLines DEF Listed, Inv
    <3>3. pc'[w] \notin {"emplace", "push"}
      BY <2>8, <2>12, <3>1
         DEF Lined, Find, Load, Create, Replay, Resend, Resume, Subscribe, Notify, LogMessage,
             Record, JoinNext
    <3> QED BY <2>1, <2>5, <2>6, <3>2, <3>3 DEF EnterAt
  <2>13. CASE pc'[w] = pc[w] /\ ~Enter(w) /\ ~EmplaceEntry(w) /\ ~Push(w)
    <3>1. ASSUME pc'[w] = "emplace" PROVE i \notin entries'
      <4>1. i \notin entries
        BY <2>5, <2>13, <3>1 DEF EnterAt
      <4>2. ASSUME NEW v \in Worker, EmplaceEntry(v) PROVE i \notin entries'
        <5>1. v # w /\ pc[v] # "idle" /\ job[v].op = "join"
          BY <2>13, <4>2, LineType DEF EmplaceEntry, Inv, TypeOK
        <5>2. client_id[job[v].conn] # i
          BY <2>7, <5>1
        <5> QED BY <4>1, <4>2, <5>2 DEF EmplaceEntry
      <4>3. EraseEntry => entries' \subseteq entries
        BY DEF EraseEntry
      <4> QED BY <4>1, <4>2, <4>3, WritersNext DEF DataWriters
    <3>2. ASSUME pc'[w] = "push" PROVE it'[w] = i
      <4>1. it[w] = i
        BY <2>5, <2>13, <3>2 DEF EnterAt
      <4>2. ASSUME NEW v \in Worker, Enter(v) \/ EmplaceEntry(v) \/ Push(v) PROVE it'[w] = it[w]
        <5>1. v # w
          BY <2>13, <4>2
        <5>2. \E x : it' = [it EXCEPT ![v] = x] \/ UNCHANGED it
          BY <4>2 DEF Enter, EmplaceEntry, Push
        <5> QED BY <5>1, <5>2 DEF Inv, TypeOK, HeldOK
      <4>3. ASSUME EraseEntry PROVE it'[w] = it[w]
        BY <2>6, <4>1, <4>3 DEF EraseEntry
      <4> QED BY <4>1, <4>2, <4>3, WritersNext DEF DataWriters
    <3> QED BY <2>1, <2>5, <2>6, <2>13, <3>1, <3>2 DEF EnterAt
  <2> QED BY <2>9, <2>10, <2>11, <2>12, <2>13
<1> QED BY <1>1, <1>2

LEMMA OpenInvNext ==
  ASSUME OneConnectionEach, Inv, HistoryInv, GoneInv, AskedInv, EnterInv, OpenInv, [Next]_vars
  PROVE  OpenInv'
<1> USE DEF Inv, TypeOK, ConnOK, FreeOK, ManagerOK, ChannelOK
<1>1. ASSUME NEW c \in open', asked'[c] # <<>>
      PROVE  OwnId(c)' /\ (freeing' = c => free_id' = AccountOf[c])
  <2>0. c \in Conn /\ c \in open /\ (freeing = c => freeing' = c)
    BY <1>1, OpenNext
  <2>1. OwnId(c) /\ (freeing = c => free_id = AccountOf[c])
    <3>1. CASE asked[c] # <<>>
      BY <2>0, <3>1 DEF OpenInv
    <3>2. CASE asked[c] = <<>>
      <4>1. PICK r \in Room : ReadJoin(c, r)
        BY <1>1, <2>0, <3>2, AskedNext
      <4>2. client[c] = "in" /\ iopc = "idle"
        BY <4>1 DEF ReadJoin, Post
      <4> QED BY <2>0, <4>2, NoneAssumption DEF LetIn, OwnInv
    <3> QED BY <3>1, <3>2
  <2>2. client_id'[c] = AccountOf[c]
    <3>1. ASSUME NEW w \in Worker, DoAutorisation(w) PROVE client_id'[c] = AccountOf[c]
      <4>1. job[w] \in Pending /\ job[w].conn \in Conn /\ job[w].op = "auth"
        BY <3>1, RunningPending, LineType DEF DoAutorisation
      <4>2. asked[job[w].conn] = <<>>
        BY <4>1 DEF AskedInv
      <4>3. job[w].conn # c
        BY <1>1, <2>0, <3>1, <4>2 DEF DoAutorisation, clientVars
      <4>4. \E j : client_id' = [client_id EXCEPT ![job[w].conn] = j]
        BY <3>1 DEF DoAutorisation
      <4> QED BY <2>0, <2>1, <4>1, <4>3, <4>4 DEF OwnId
    <3>2. ASSUME Close PROVE client_id'[c] = AccountOf[c]
      BY <1>1, <2>0, <2>1, <3>2 DEF Close, OwnId
    <3> QED BY <2>1, <3>1, <3>2, WritersNext DEF Writers, OwnId
  <2>3. ASSUME freeing' = c PROVE free_id' = AccountOf[c]
    <3>1. ~Close
      BY <1>1, <2>0, <2>3, NoneAssumption DEF Close
    <3>2. \A d \in Conn : FreeConnection(d) => freeing' = d /\ free_id' = client_id[d]
      BY DEF FreeConnection
    <3> QED BY <2>0, <2>1, <2>3, <3>1, <3>2, FreeingNext DEF OwnId
  <2> QED BY <2>1, <2>2, <2>3 DEF OwnId
<1>2. ASSUME NEW c \in open', NEW r \in Room, NEW i \in Id, subscribers'[r][i] = c
      PROVE  /\ i = AccountOf[c] /\ r \in channels'
             /\ freeing' # c /\ c \notin hasty' => r \in client_in_rooms'[i]
  <2>0. c \in Conn /\ c \in open /\ (freeing = c => freeing' = c)
    <3>1. asked[c] = <<>> /\ UNCHANGED <<asked, subscribers>> => FALSE
      <4>1. ASSUME asked[c] = <<>> PROVE ~In(r, asked[c])
        BY <4>1 DEF In
      <4> QED BY <1>2, <4>1, OpenNext DEF HistoryInv, UnaskedInv, Unsubscribed
    <3> QED BY <3>1, OpenNext
  <2>1. /\ i = AccountOf[c] /\ i \in Account /\ r \in channels
        /\ freeing # c /\ c \notin hasty => r \in client_in_rooms[i]
    <3>1. CASE subscribers[r][i] = c
      BY <2>0, <3>1, AskedOwn DEF OpenInv, OwnId
    <3>2. CASE subscribers[r][i] # c
      <4>1. ~Erase
        <5>1. Erase => subscribers'[r][i] \in {NoConn, subscribers[r][i]}
          BY DEF Erase
        <5> QED BY <1>2, <2>0, <3>2, <5>1, NoneAssumption
      <4>2. PICK w \in Worker : Subscribe(w)
        BY <1>2, <3>2, <4>1, WritersNext DEF Writers
      <4>3. pc[w] = "subscribe" /\ job[w].op = "join"
        BY <4>2, LineType DEF Subscribe
      <4>4. job[w] \in Pending /\ job[w].conn \in Conn /\ job[w].room \in Room
        BY <4>3, RunningPending, JobType
      <4>5. job[w].conn = c /\ job[w].room = r /\ i = client_id[c]
        <5>1. subscribers'[r][i] = IF r = job[w].room /\ i = client_id[job[w].conn] /\ subscribers[r][i] = NoConn
                                   THEN job[w].conn ELSE subscribers[r][i]
          BY <4>2, SubscribeIs
        <5>2. r = job[w].room /\ i = client_id[job[w].conn] /\ job[w].conn = c
          BY <1>2, <3>2, <5>1
        <5> QED BY <5>2
      <4>6. OwnId(c)
        BY <2>0, <4>3, <4>4, <4>5 DEF LetIn, OwnInv
      <4>7. r \in channels
        BY <4>3, <4>5, RunningWork DEF JoinWork
      <4>8. freeing # c /\ c \notin hasty => r \in client_in_rooms[AccountOf[c]]
        BY <2>0, <4>3, <4>5 DEF EnterInv, EnterAt, Listed, Serving
      <4> QED BY <4>5, <4>6, <4>7, <4>8 DEF OwnId
    <3> QED BY <3>1, <3>2
  <2>2. r \in channels'
    BY <2>1, GrowsNext
  <2>3. freeing # c /\ r \in client_in_rooms[i] => r \in client_in_rooms'[i]
    BY <2>0, <2>1, ListNext
  <2>4. c \notin hasty' => c \notin hasty
    BY HastyGrows
  <2> QED BY <2>0, <2>1, <2>2, <2>3, <2>4
<1> HIDE DEF Inv, TypeOK, ConnOK, FreeOK, ManagerOK, ChannelOK
<1> QED BY <1>1, <1>2 DEF OpenInv

\* A client leaves while its socket is open and not being freed, and one that left
\* after its joins were answered stays so.
LEMMA LeftNext ==
  ASSUME Inv, GoneInv, [Next]_vars, NEW c \in Conn, Left(c)'
  PROVE  Left(c) \/ (c \in open' /\ freeing' # c)
<1>1. CASE client[c] = "gone"
  <2>1. answered'[c] = answered[c] /\ asked'[c] = asked[c]
    BY <1>1, ClientNext
  <2> QED BY <1>1, <2>1, HastyGrows DEF Left, Waiting
<1>2. CASE client[c] # "gone"
  <2>1. c \in open /\ UNCHANGED <<open, freeing>>
    BY <1>2, ClientNext DEF Left
  <2>2. freeing # c
    BY <1>2 DEF GoneInv
  <2> QED BY <2>1, <2>2
<1> QED BY <1>1, <1>2

LEMMA LeftInvNext ==
  ASSUME OneConnectionEach, Inv, HistoryInv, ExitInv, [Next]_vars
  PROVE  LeftInv'
<1> SUFFICES ASSUME NEW c \in Conn, Left(c), c \notin open' \/ freeing' = c
             PROVE  /\ c \notin open' => Cleared(c)'
                    /\ c \in open' /\ freeing' = c /\ asked'[c] # <<>> => LeavingAt(c)'
  BY LeftNext DEF LeftInv, ExitInv, Inv, Left, Waiting
<1> DEFINE i == AccountOf[c]
<1>0. i # -1 => i \in Account /\ i \in Id
  BY IdAssumption DEF Id
<1>1. Joining(c) = {}
  BY NoneJoining DEF Left, ExitInv, Inv
<1>2. /\ \A r \in Room, j \in Id : subscribers'[r][j] = c => subscribers[r][j] = c
      /\ i # -1 => /\ i \in entries' => i \in entries
                   /\ i \in clientid_to_login' => i \in clientid_to_login
  BY <1>1, NoJoinRuns, TablesNext
<1>3. Cleared(c) => Cleared(c)'
  BY <1>2 DEF Cleared
<1>4. /\ client[c] = "gone" /\ asked'[c] = asked[c]
      /\ c \notin open => c \notin open'
  <2>1. client[c] = "gone" /\ asked'[c] = asked[c]
    BY ClientNext DEF Left, ExitInv
  <2>2. ASSUME c \notin open PROVE c \notin open'
    BY <2>1, <2>2, WritersNext DEF Writers, Accept, Close
  <2> QED BY <2>1, <2>2
<1>5. asked[c] = <<>> => Cleared(c)
  <2>1. ASSUME asked[c] = <<>>, NEW r \in Room PROVE Unsubscribed(c, r)
    <3>1. ~In(r, asked[c])
      BY <2>1 DEF In
    <3> QED BY <3>1 DEF HistoryInv, UnaskedInv
  <2> QED BY <2>1 DEF Cleared, Unsubscribed, ExitInv, NothingInv
<1>6. ASSUME c \notin open' PROVE Cleared(c)'
  <2>1. CASE c \notin open
    BY <1>3, <2>1 DEF ExitInv, LeftInv
  <2>2. CASE c \in open
    <3>1. freeing = c /\ iopc = "close"
      BY <1>6, <2>2, WritersNext DEF Writers, Accept, Close
    <3> QED BY <1>3, <1>5, <2>2, <3>1 DEF ExitInv, LeftInv, LeavingAt
  <2> QED BY <2>1, <2>2
<1>7. ASSUME c \in open', freeing' = c, asked'[c] # <<>> PROVE LeavingAt(c)'
  <2>1. /\ c \in open /\ asked[c] # <<>> /\ OwnId(c) /\ i \in Id /\ i \in Account /\ i # -1
        /\ freeing = c => free_id = i
        /\ c \notin hasty
        /\ \A r \in Room, j \in Id : subscribers[r][j] = c =>
             j = i /\ r \in channels /\ (freeing # c => r \in client_in_rooms[i])
    BY <1>0, <1>4, <1>7, IdAssumption DEF ExitInv, OpenInv, OwnId, Left
  <2>2. CASE freeing # c
    <3>1. ~Close
      BY <1>7, NoneAssumption DEF Close
    <3>2. FreeConnection(c) /\ UNCHANGED <<subscribers, entries>>
      BY <1>7, <2>2, <3>1, FreeingNext DEF Inv, FreeConnection
    <3>3. CASE i \in entries
      <4>1. iopc' = "leave" /\ rest' = client_in_rooms[i]
        BY <2>1, <3>2, <3>3 DEF FreeConnection, OwnId
      <4> QED BY <2>1, <2>2, <3>2, <4>1 DEF LeavingAt
    <3>4. CASE i \notin entries
      <4>1. iopc' = "forget" /\ rest' = {}
        BY <2>1, <3>2, <3>4 DEF FreeConnection, OwnId
      <4>2. client_in_rooms[i] = {}
        BY <2>1, <3>4 DEF ExitInv, EntryInv
      <4> QED BY <2>1, <2>2, <3>2, <3>4, <4>1, <4>2 DEF LeavingAt
    <3> QED BY <3>3, <3>4
  <2>3. CASE freeing = c /\ iopc = "close"
    <3>1. Cleared(c)
      BY <1>4, <2>1, <2>3 DEF ExitInv, LeftInv, LeavingAt
    <3>2. Cleared(c)' /\ ~Close
      BY <1>3, <1>7, <3>1, NoneAssumption DEF Close
    <3>3. iopc' = "close"
      <4>1. ~\E d \in Conn : HeaderReadFails(d) \/ AnswerWriteFails(d) \/ QueueWriteFails(d)
        BY <2>3 DEF HeaderReadFails, AnswerWriteFails, QueueWriteFails
      <4>2. ~Free
        BY <2>3, <3>2
           DEF Free, LeaveRoom, NotifyLeave, NotifyLeaveNext, LogLeave, Erase, EraseEntry, Forget
      <4> QED BY <2>3, <4>1, <4>2, WritersNext DEF Writers
    <3> QED BY <3>2, <3>3 DEF LeavingAt
  <2>4. CASE freeing = c /\ iopc # "close"
    <3>0. free_id = i /\ iopc # "idle"
      BY <2>1, <2>4, NoneAssumption DEF Inv, TypeOK, FreeOK
    <3>1. \A r \in Room : subscribers[r][i] = c => r \in rest
      BY <1>4, <2>1, <2>4 DEF ExitInv, LeftInv, LeavingAt
    <3>2. iopc = "forget" => rest = {} /\ i \notin entries
      BY <1>4, <2>1, <2>4 DEF ExitInv, LeftInv, LeavingAt
    <3>3. ASSUME NEW q \in Room, LeaveRoom(q) PROVE LeavingAt(c)'
      <4>1. iopc' \in {"notify", "leave"}
        BY <3>3 DEF LeaveRoom, IoGoto
      <4>2. rest' = rest \/ (rest' = rest \ {q} /\ ~(q \in channels /\ subscribers[q][i] # NoConn))
        BY <3>0, <3>3 DEF LeaveRoom
      <4>3. subscribers[q][i] = c => q \in channels /\ subscribers[q][i] # NoConn
        BY <2>1, NoneAssumption
      <4>4. \A r \in Room : subscribers'[r][i] = c => r \in rest'
        BY <1>2, <2>1, <3>1, <4>2, <4>3
      <4> QED BY <4>1, <4>4 DEF LeavingAt
    <3>4. ASSUME Erase PROVE LeavingAt(c)'
      <4>1. iopc' = "leave" /\ rest' = rest \ {leaving}
        BY <3>4 DEF Erase, IoGoto
      <4>2. leaving \in Room => subscribers'[leaving][i] # c
        BY <2>1, <3>0, <3>4, NoneAssumption DEF Erase, Inv, TypeOK, ChannelOK
      <4>3. \A r \in Room : subscribers'[r][i] = c => r \in rest'
        BY <1>2, <2>1, <3>1, <4>1, <4>2
      <4> QED BY <4>1, <4>3 DEF LeavingAt
    <3>5. ASSUME EraseEntry PROVE LeavingAt(c)'
      <4>1. rest = {} /\ rest' = {} /\ iopc' = "forget" /\ i \notin entries'
        BY <3>0, <3>5 DEF EraseEntry, IoGoto
      <4>2. \A r \in Room : subscribers'[r][i] # c
        BY <1>2, <2>1, <3>1, <4>1
      <4> QED BY <4>1, <4>2 DEF LeavingAt
    <3>6. ASSUME Forget PROVE LeavingAt(c)'
      <4>1. rest = {} /\ i \notin entries /\ iopc' = "close" /\ UNCHANGED <<subscribers, entries>>
        BY <3>2, <3>6 DEF Forget, IoGoto, channelVars
      <4>2. i \notin entries' /\ i \notin clientid_to_login'
        BY <3>0, <3>6, <4>1 DEF Forget
      <4>3. \A r \in Room, j \in Id : subscribers'[r][j] # c
        BY <2>1, <3>1, <4>1
      <4> QED BY <4>1, <4>2, <4>3 DEF LeavingAt, Cleared
    <3>7. ASSUME UNCHANGED rest, iopc' # "close", iopc' = "forget" => iopc = "forget"
          PROVE  LeavingAt(c)'
      <4>1. \A r \in Room : subscribers'[r][i] = c => r \in rest'
        BY <1>2, <2>1, <3>1, <3>7
      <4> QED BY <1>2, <2>1, <3>2, <3>7, <4>1 DEF LeavingAt
    <3>8. NotifyLeave \/ (\E j \in Id : NotifyLeaveNext(j)) \/ LogLeave
            => UNCHANGED rest /\ iopc' # "close" /\ iopc' # "forget"
      BY DEF NotifyLeave, NotifyLeaveNext, LogLeave, IoGoto, freeVars
    <3>9. ~Close /\ ~\E d \in Conn : HeaderReadFails(d) \/ AnswerWriteFails(d) \/ QueueWriteFails(d)
      BY <2>4, <3>0 DEF Close, HeaderReadFails, AnswerWriteFails, QueueWriteFails
    <3>10. UNCHANGED <<iopc, freeing, free_id>> \/ Free
      BY <3>9, WritersNext DEF Writers
    <3>11. ASSUME UNCHANGED <<iopc, freeing, free_id>>, ~Free
           PROVE  UNCHANGED rest /\ iopc' # "close" /\ iopc' = iopc
      BY <2>4, <3>9, <3>11, WritersNext DEF DataWriters, Free
    <3> QED BY <3>3, <3>4, <3>5, <3>6, <3>7, <3>8, <3>9, <3>10, <3>11 DEF Free
  <2> QED BY <2>2, <2>3, <2>4
<1> QED BY <1>6, <1>7

LEMMA ExitInvInit == Init => ExitInv
<1> SUFFICES ASSUME Init PROVE ExitInv
  OBVIOUS
<1>1. ASSUME NEW c \in Conn PROVE Joining(c) = {}
  <2>1. tasks = <<>> /\ \A w \in Worker : pc[w] = "idle"
    BY DEF Init
  <2> QED BY <2>1 DEF Joining
<1>2. CountInv
  <2>1. IsFiniteSet({}) /\ Cardinality({}) = 0
    BY FS_EmptySet
  <2>2. \A c \in Conn : answered[c] = 0 /\ Len(asked[c]) = 0
    BY DEF Init
  <2>3. Cardinality({}) + 0 <= 0
    BY <2>1
  <2>4. ASSUME NEW c \in Conn
        PROVE  IsFiniteSet(Joining(c)) /\ Cardinality(Joining(c)) + answered[c] <= Len(asked[c])
    BY <1>1, <2>1, <2>2, <2>3
  <2> QED BY <2>4 DEF CountInv
<1>3. GoneInv
  BY NoneAssumption DEF Init, GoneInv
<1>7. HastyInv /\ AskedInv /\ EntryInv /\ EnterInv
  <2>1. \A c \in Conn : answered[c] = 0 /\ Len(asked[c]) = 0 /\ asked[c] = <<>>
    BY DEF Init
  <2>2. Pending = {}
    BY DEF Init, Pending
  <2>3. EntryInv /\ EnterInv
    BY DEF Init, EntryInv, EnterInv
  <2> QED BY <2>1, <2>2, <2>3 DEF HastyInv, AskedInv
<1>4. NothingInv
  <2>1. \A c \in Conn : AccountOf[c] # -1 => AccountOf[c] \in Id
    BY IdAssumption DEF Id
  <2> QED BY <2>1 DEF Init, NothingInv
<1>5. OpenInv
  BY DEF Init, OpenInv
<1>6. LeftInv
  BY DEF Init, LeftInv, Left
<1> QED BY <1>2, <1>3, <1>4, <1>5, <1>6, <1>7 DEF ExitInv

\* "User exit. Leave from channels.  Close socket.": free_connection leaves no
\* subscription, no entry with rooms and no login behind of a client that asked for
\* each room after the answer for the one before and left when all were answered, in
\* whatever order the pool's threads and the network thread ran.
THEOREM ExitsClean ==
  ASSUME OneConnectionEach
  PROVE  Spec => []CleanExit
<1> DEFINE I == Inv /\ HistoryInv /\ ExitInv
<1>1. Init => I
  BY InvInit, HistoryInvInit, ExitInvInit
<1>2. I /\ [Next]_vars => I'
  <2> SUFFICES ASSUME I, [Next]_vars PROVE I'
    OBVIOUS
  <2>1. Inv' /\ HistoryInv'
    BY InvNext, HistoryInvNext
  <2>2. TypeOK
    BY DEF Inv
  <2>3. CountInv' /\ HastyInv' /\ EntryInv'
    BY <2>2, CountInvNext, HastyInvNext, EntryInvNext DEF ExitInv
  <2>4. GoneInv' /\ AskedInv' /\ NothingInv' /\ EnterInv' /\ OpenInv' /\ LeftInv'
    BY GoneInvNext, AskedInvNext, NothingInvNext, EnterInvNext, OpenInvNext, LeftInvNext
       DEF ExitInv
  <2> QED BY <2>1, <2>3, <2>4 DEF ExitInv
<1>3. I => CleanExit
  <2> SUFFICES ASSUME I, NEW c \in Conn, Freed(c), ~Waiting(c), c \notin hasty PROVE Cleared(c)
    BY DEF CleanExit
  <2>1. c \notin open
    BY DEF Freed, ExitInv, GoneInv
  <2> QED BY <2>1 DEF Freed, Left, ExitInv, LeftInv
<1> QED BY <1>1, <1>2, <1>3, PTL DEF Spec
================================================================================
