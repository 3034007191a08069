----------------------------- MODULE AccountsProofs ----------------------------
(* What whoever signs in or registers may count on, proved.                      *)
EXTENDS Accounts, FiniteSetTheorems, SequenceTheorems, WellFoundedInduction, TLAPS

\* The lines of do_registration between its first and its last.
Registering == {"lookup", "test", "counted", "copy", "add"}

\* A registration, a sign-in or its answer is in the queue or run by a thread.
InQueue(k, c) == tasks[k].op # "text" /\ tasks[k].conn = c
Serves(w, c) == pc[w] \notin {"idle", "text"} /\ serving[w] = c

\* There is one such for a connection at most.
OneHandler ==
  /\ \A c \in Conn : \A w, v \in Worker : Serves(w, c) /\ Serves(v, c) => w = v
  /\ \A c \in Conn : \A j, k \in 1 .. Len(tasks) : InQueue(j, c) /\ InQueue(k, c) => j = k
  /\ \A c \in Conn : \A w \in Worker, k \in 1 .. Len(tasks) : ~(Serves(w, c) /\ InQueue(k, c))

\* The login was free when it was looked up, or is torn.
Available(c) ==
  \/ ~ \E row \in Rows(before[c]) : Mine(c, row)
  \/ \E row \in Rows(logins) : Mine(c, row) /\ Torn(row)

Stored(c, i) == \E row \in Rows(logins) : Signed(c, row) /\ row.login_id = i

\* Its insert compiles.
Plain(req) == {req.login, req.password} \cap Breaking = {}

\* An answer that says what the table says.
Honest(c, i) ==
  /\ i # -1 => client_id[c] = i
  /\ request[c].op = "auth" /\ i # -1 /\ request[c].login \notin Splicing => Stored(c, i)
  /\ request[c].op = "auth" /\ i = -1 /\ db = "open" =>
       \/ ~ \E row \in Rows(before[c]) : Signed(c, row)
       \/ \E row \in Rows(logins) : Signed(c, row) /\ Torn(row)
  /\ request[c].op = "reg" /\ i # -1 /\ db = "open" =>
       Available(c) /\ (Plain(request[c]) => Stored(c, i))

\* What a task may rely on when it is taken and while it waits.
Proper(op, c, i) ==
  /\ client[c] \in {"waiting", "gone"}
  /\ op \in {"reg", "auth"} => request[c].op = op
  /\ op = "answer" /\ client[c] = "waiting" => Honest(c, i)

\* What do_registration may rely on between two lines.
Underway(w) ==
  LET c == serving[w]
      gone == client[c] = "gone" IN
  /\ client[c] \in {"waiting", "gone"} /\ request[c].op = "reg"
  /\ login[c] = request[c].login \/ (gone /\ login[c] = Unused)
  /\ password[c] = request[c].password \/ (gone /\ password[c] = Unused)
  /\ pc[w] = "counted" => held[w] \in Nat
  /\ pc[w] \in {"copy", "add"} /\ ~gone => client_id[c] # -1
  /\ pc[w] = "add" => argument[w] = request[c].login \/ (gone /\ argument[w] = Unused)
  /\ /\ pc[w] \in {"counted", "copy", "add"} \/ (pc[w] = "test" /\ client_id[c] = -1)
     /\ ~gone /\ db = "open"
     => Available(c)

TasksInv == \A k \in 1 .. Len(tasks) :
  tasks[k].op # "text" => Proper(tasks[k].op, tasks[k].conn, tasks[k].id)
WorkersInv == \A w \in Worker :
  /\ pc[w] \in {"reg", "auth", "answer"} => Proper(pc[w], serving[w], held[w])
  /\ pc[w] \in Registering => Underway(w)

\* A client is answered once, and then nothing works on its connection.
ClientInv == \A c \in Conn :
  /\ client[c] = "off" => request[c] = NoRequest
  /\ client[c] # "off" => request[c] \in Askable
  /\ client[c] = "in" => client_id[c] # -1 /\ Honest(c, client_id[c])
  /\ client[c] = "refused" => Honest(c, -1)

\* Only a client that left is freed.
FreeInv == iopc # "idle" => client[freeing] = "gone"

\* The table only grows, and no row has a login that breaks or changes its select.
TableInv ==
  /\ \A c \in Conn : Rows(before[c]) \subseteq Rows(logins)
  /\ \A row \in Rows(logins) : row.login \notin Breaking \cup Splicing

Inv ==
  /\ TypeOK /\ OneHandler /\ TasksInv /\ WorkersInv /\ ClientInv /\ FreeInv /\ TableInv
  /\ StoredAsAsked

--------------------------------------------------------------------------------
(* The statements on the table.                                                  *)

\* A set of row numbers that is not empty has a last one, so the loop keeps a row.
LEMMA LastOne ==
  ASSUME NEW N \in Nat, NEW T, T \subseteq 1 .. N, T # {}
  PROVE  \E k \in T : \A j \in T : j <= k
<1> DEFINE Above(k) == {j \in 1 .. N : j > k}
           all == {Above(k) : k \in T}
<1>1. all \subseteq FiniteSubsetsOf(1 .. N) /\ all # {}
  <2>1. IsFiniteSet(1 .. N)
    BY FS_Interval
  <2>2. FiniteSubsetsOf(1 .. N) = SUBSET (1 .. N)
    BY <2>1, FS_FiniteSubsetsOfFinite
  <2>3. \A k \in T : Above(k) \in SUBSET (1 .. N)
    OBVIOUS
  <2>4. all \subseteq SUBSET (1 .. N) /\ all # {}
    BY <2>3
  <2> QED BY <2>2, <2>4
<1>2. PICK least \in all : \A other \in all :
        ~ (<<other, least>> \in StrictSubsetOrdering(1 .. N))
  BY <1>1, WFMin, FS_StrictSubsetOrderingWellFounded
<1>3. PICK k \in T : least = Above(k)
  OBVIOUS
<1>4. ASSUME NEW j \in T PROVE j <= k
  <2> SUFFICES ASSUME j > k PROVE FALSE
    OBVIOUS
  <2>1. Above(j) \in all /\ Above(j) \subseteq Above(k) /\ j \in Above(k) /\ j \notin Above(j)
    OBVIOUS
  <2>2. <<Above(j), least>> \in StrictSubsetOrdering(1 .. N)
    BY <1>3, <2>1 DEF StrictSubsetOrdering
  <2> QED BY <1>2, <2>1, <2>2
<1> QED BY <1>4

\* get_loginid and check_client answer with the id of one of the rows, or -1.
LEMMA LastIdOf ==
  ASSUME NEW rows, rows \subseteq 1 .. Len(logins), logins \in Seq(Row)
  PROVE  /\ LastId(rows) \in Ids
         /\ rows = {} => LastId(rows) = -1
         /\ rows # {} => \E k \in rows : LastId(rows) = logins[k].login_id
<1>1. CASE rows = {}
  BY <1>1 DEF LastId, Ids
<1>2. CASE rows # {}
  <2> DEFINE last == CHOOSE k \in rows : \A j \in rows : j <= k
  <2>1. Len(logins) \in Nat
    OBVIOUS
  <2>2. last \in rows
    BY <1>2, <2>1, LastOne
  <2>3. LastId(rows) = logins[last].login_id
    BY <1>2 DEF LastId
  <2> HIDE DEF last
  <2>4. logins[last] \in Row
    BY <2>2, ElementOfSeq
  <2> QED BY <1>2, <2>2, <2>3, <2>4 DEF Row
<1> QED BY <1>1, <1>2

\* get_loginid's -1 means that the login is free or its row torn.
LEMMA LookedUp ==
  ASSUME NEW name, logins \in Seq(Row)
  PROVE  /\ get_loginid(name) \in Ids
         /\ get_loginid(name) = -1 /\ db = "open" /\ name \notin Breaking =>
              \/ ~ \E row \in Rows(logins) : row.login = name
              \/ \E row \in Rows(logins) : row.login = name /\ Torn(row)
<1>1. RowsOf(name) \subseteq 1 .. Len(logins)
  BY DEF RowsOf
<1>2. /\ get_loginid(name) \in Ids
      /\ RowsOf(name) # {} => \E k \in RowsOf(name) : get_loginid(name) = logins[k].login_id
  BY <1>1, LastIdOf DEF get_loginid
<1> QED BY <1>2 DEF RowsOf, Rows, Torn

\* check_client's id is that of a row with this login and password, and its -1 means
\* that there is none or it is torn.
LEMMA Checked ==
  ASSUME NEW name, NEW secret, logins \in Seq(Row), NEW found \in check_client(name, secret)
  PROVE  LET Fits(row) == row.login = name /\ row.password = secret IN
         /\ found \in Ids
         /\ name \notin Splicing =>
              /\ found # -1 => \E row \in Rows(logins) : Fits(row) /\ row.login_id = found
              /\ found = -1 /\ db = "open" /\ name \notin Breaking =>
                   \/ ~ \E row \in Rows(logins) : Fits(row)
                   \/ \E row \in Rows(logins) : Fits(row) /\ Torn(row)
<1> DEFINE rows == {k \in RowsOf(name) : logins[k].password = secret}
<1>1. CASE name \in Splicing /\ db = "open"
  BY <1>1, AccountsAssumption DEF check_client
<1>2. CASE ~(name \in Splicing /\ db = "open")
  <2>1. rows \subseteq 1 .. Len(logins)
    BY DEF RowsOf
  <2>2. /\ found \in Ids
        /\ rows = {} => found = -1
        /\ rows # {} => \E k \in rows : found = logins[k].login_id
    BY <1>2, <2>1, LastIdOf DEF check_client
  <2>3. found # -1 => \E k \in 1 .. Len(logins) :
          logins[k].login = name /\ logins[k].password = secret /\ logins[k].login_id = found
    BY <2>2 DEF RowsOf
  <2>4. found = -1 /\ db = "open" /\ name \notin Breaking =>
          \/ \A k \in 1 .. Len(logins) : ~(logins[k].login = name /\ logins[k].password = secret)
          \/ \E k \in 1 .. Len(logins) :
               logins[k].login = name /\ logins[k].password = secret /\ logins[k].login_id = -1
    BY <2>2 DEF RowsOf
  <2> QED BY <2>2, <2>3, <2>4 DEF Rows, Torn
<1> QED BY <1>1, <1>2

\* add_logins adds the row it is given or none.
LEMMA Added ==
  ASSUME logins \in Seq(Row), NEW name \in Names, NEW i \in Ids, NEW secret \in Secrets,
         logins' = add_logins(name, i, secret)
  PROVE  LET new == [login |-> name, login_id |-> i, password |-> secret] IN
         /\ logins' \in Seq(Row)
         /\ Rows(logins) \subseteq Rows(logins')
         /\ \A row \in Rows(logins') : row \in Rows(logins) \/ (row = new /\ name \notin Breaking)
         /\ db = "open" /\ {name, secret} \cap Breaking = {} => new \in Rows(logins')
<1> DEFINE new == [login |-> name, login_id |-> i, password |-> secret]
<1>1. new \in Row
  BY DEF Row
<1>2. CASE db = "closed" \/ name \in Breaking \/ secret \in Breaking
  BY <1>2 DEF add_logins
<1>3. CASE ~(db = "closed" \/ name \in Breaking \/ secret \in Breaking)
  <2> HIDE DEF new
  <2>1. logins' = Append(logins, new)
    BY <1>3 DEF add_logins, new
  <2>2. /\ logins' \in Seq(Row) /\ Len(logins') = Len(logins) + 1 /\ Len(logins) \in Nat
        /\ \A k \in 1 .. Len(logins) : logins'[k] = logins[k]
        /\ logins'[Len(logins) + 1] = new
    BY <1>1, <2>1, AppendProperties
  <2>3. \A k \in 1 .. Len(logins') : k \in 1 .. Len(logins) \/ k = Len(logins) + 1
    BY <2>2
  <2>4. /\ Rows(logins) \subseteq Rows(logins')
        /\ new \in Rows(logins')
        /\ \A row \in Rows(logins') : row \in Rows(logins) \/ row = new
    BY <2>2, <2>3 DEF Rows
  <2> QED BY <1>3, <2>2, <2>4 DEF new
<1> QED BY <1>2, <1>3

--------------------------------------------------------------------------------
(* Types.                                                                        *)

LEMMA TypeInit == Init => TypeOK
BY AccountsAssumption DEF Init, TypeOK, Ids, Names, Secrets

\* What a post leaves in the pool's queue, ...
LEMMA QueueAppend ==
  ASSUME NEW S, tasks \in Seq(S), NEW t \in S, tasks' = Append(tasks, t)
  PROVE  /\ tasks' \in Seq(S) /\ Len(tasks) \in Nat /\ Len(tasks') = Len(tasks) + 1
         /\ \A k \in 1 .. Len(tasks) : k \in 1 .. Len(tasks') /\ tasks'[k] = tasks[k]
         /\ \A k \in 1 .. Len(tasks') :
              k \in 1 .. Len(tasks) \/ (k = Len(tasks) + 1 /\ tasks'[k] = t)
<1>1. /\ tasks' \in Seq(S) /\ Len(tasks) \in Nat /\ Len(tasks') = Len(tasks) + 1
      /\ \A k \in 1 .. Len(tasks) : tasks'[k] = tasks[k]
      /\ tasks'[Len(tasks) + 1] = t
  BY AppendProperties
<1> QED BY <1>1

\* ... and what a thread leaves there that takes a task.
LEMMA QueueTail ==
  ASSUME NEW S, tasks \in Seq(S), tasks # <<>>, tasks' = Tail(tasks)
  PROVE  /\ tasks' \in Seq(S) /\ Head(tasks) \in S /\ Head(tasks) = tasks[1]
         /\ 1 \in 1 .. Len(tasks)
         /\ \A k \in 1 .. Len(tasks') : k + 1 \in 1 .. Len(tasks) /\ tasks'[k] = tasks[k + 1]
BY HeadTailProperties

AnyTask == [op : {"reg", "auth", "text", "answer"}, conn : Conn, id : Ids]

\* A thread at work serves a connection, whose request it may read.
LEMMA Served ==
  ASSUME Inv, NEW w \in Worker, pc[w] # "idle"
  PROVE  /\ serving[w] \in Conn
         /\ pc[w] # "text" =>
              /\ request[serving[w]] \in Askable
              /\ request[serving[w]].login \in Names /\ request[serving[w]].password \in Secrets
              /\ client[serving[w]] \in {"waiting", "gone"}
<1>1. serving[w] \in Conn /\ pc[w] \in {"reg", "auth", "text", "answer"} \cup Registering
  BY DEF Inv, TypeOK, Registering
<1>2. pc[w] # "text" => client[serving[w]] \in {"waiting", "gone"}
  BY <1>1 DEF Inv, WorkersInv, Proper, Underway
<1>3. pc[w] # "text" => request[serving[w]] \in Askable
  BY <1>1, <1>2 DEF Inv, ClientInv
<1> QED BY <1>1, <1>2, <1>3 DEF Askable, Request, Names, Secrets

LEMMA TypeClients ==
  ASSUME Inv, NEW c \in Conn,
         (\E req \in Request : Ask(c, req)) \/ Leave(c) \/ SendText(c)
  PROVE  TypeOK'
<1>1. ASSUME NEW req \in Request, Ask(c, req) PROVE TypeOK'
  <2>1. Task(req.op, c, -1) \in AnyTask
    BY DEF Task, AnyTask, Request, Ids
  <2>2. tasks' \in Seq(AnyTask)
    BY <1>1, <2>1, QueueAppend DEF Ask, Inv, TypeOK, AnyTask
  <2> QED BY <1>1, <2>2 DEF Ask, Inv, TypeOK, AnyTask, workerVars, ioVars
<1>2. ASSUME Leave(c) PROVE TypeOK'
  BY <1>2 DEF Leave, Inv, TypeOK, workerVars, memberVars, ioVars
<1>3. ASSUME SendText(c) PROVE TypeOK'
  <2>1. Task("text", c, -1) \in AnyTask
    BY DEF Task, AnyTask, Ids
  <2>2. tasks' \in Seq(AnyTask)
    BY <1>3, <2>1, QueueAppend DEF SendText, Inv, TypeOK, AnyTask
  <2> QED BY <1>3, <2>2 DEF SendText, Inv, TypeOK, AnyTask, workerVars, memberVars, ioVars
<1> QED BY <1>1, <1>2, <1>3

LEMMA TypeNetwork ==
  ASSUME Inv, (\E c \in Conn : FreeConnection(c)) \/ ResetLogin \/ ResetPassword
  PROVE  TypeOK'
<1>1. ASSUME NEW c \in Conn, FreeConnection(c) PROVE TypeOK'
  BY <1>1, AccountsAssumption
     DEF FreeConnection, Inv, TypeOK, clientVars, workerVars, Ids
<1>2. ASSUME ResetLogin PROVE TypeOK'
  BY <1>2 DEF ResetLogin, Inv, TypeOK, clientVars, workerVars, Names
<1>3. ASSUME ResetPassword PROVE TypeOK'
  BY <1>3 DEF ResetPassword, Inv, TypeOK, clientVars, workerVars, Secrets
<1> QED BY <1>1, <1>2, <1>3

LEMMA TypeRestart == ASSUME Inv, Restart PROVE TypeOK'
BY AccountsAssumption DEF Restart, Inv, TypeOK, Ids, Names, Secrets

\* Where the thread goes and whom it serves, as a type.
LEMMA TypePosted ==
  ASSUME Inv, NEW w \in Worker, pc[w] # "idle", NEW i \in Ids, PostAnswer(w, i)
  PROVE  /\ tasks' \in Seq(AnyTask) /\ pc' = [pc EXCEPT ![w] = "idle"]
         /\ serving' = [serving EXCEPT ![w] = NoConn]
         /\ \A v \in Worker : pc'[v] = "idle" <=> serving'[v] = NoConn
<1>1. Task("answer", serving[w], i) \in AnyTask
  BY Served DEF Task, AnyTask
<1>2. tasks' \in Seq(AnyTask)
  BY <1>1, QueueAppend DEF PostAnswer, Inv, TypeOK, AnyTask
<1> QED BY <1>2 DEF PostAnswer, Goto, Inv, TypeOK

LEMMA TypeWork == ASSUME Inv, NEW w \in Worker, Work(w) PROVE TypeOK'
<1> DEFINE c == serving[w]
<1>0. /\ TypeOK /\ logins \in Seq(Row) /\ tasks \in Seq(AnyTask)
      /\ NoConn \notin Conn
  BY AccountsAssumption DEF Inv, TypeOK, AnyTask
<1>1. CASE Take(w)
  <2>1. Head(tasks) \in AnyTask /\ tasks' \in Seq(AnyTask)
    BY <1>0, <1>1, QueueTail DEF Take
  <2> QED BY <1>0, <1>1, <2>1 DEF Take, Goto, TypeOK, AnyTask, clientVars, memberVars, ioVars
<1>2. CASE DoAutorisation(w)
  <2>1. PICK found \in check_client(request[c].login, request[c].password) :
                 SetId(w, found) /\ PostAnswer(w, found)
    BY <1>2 DEF DoAutorisation
  <2>2. c \in Conn /\ request[c].login \in Names /\ request[c].password \in Secrets
    BY <1>2, Served DEF DoAutorisation
  <2>3. found \in Ids /\ pc[w] = "auth"
    BY <1>0, <1>2, Checked DEF DoAutorisation
  <2>4. /\ tasks' \in Seq(AnyTask) /\ pc' = [pc EXCEPT ![w] = "idle"]
        /\ serving' = [serving EXCEPT ![w] = NoConn]
        /\ \A v \in Worker : pc'[v] = "idle" <=> serving'[v] = NoConn
    BY <2>1, <2>3, TypePosted
  <2> QED BY <1>0, <1>2, <2>1, <2>2, <2>3, <2>4
          DEF DoAutorisation, SetNames, SetId, TypeOK, AnyTask, clientVars, ioVars
<1>3. CASE DoRegistration(w)
  <2>1. c \in Conn /\ request[c].login \in Names /\ request[c].password \in Secrets
    BY <1>3, Served DEF DoRegistration
  <2> QED BY <1>0, <1>3, <2>1 DEF DoRegistration, Goto, SetNames, TypeOK, clientVars, ioVars
<1>4. CASE LookUp(w)
  <2>1. get_loginid(login[c]) \in Ids /\ c \in Conn
    BY <1>0, <1>4, LookedUp, Served DEF LookUp
  <2> QED BY <1>0, <1>4, <2>1 DEF LookUp, Goto, SetId, TypeOK, clientVars, ioVars
<1>5. CASE Refuse(w)
  <2>1. -1 \in Ids /\ c \in Conn
    BY <1>5, Served DEF Refuse, Ids
  <2>2. /\ tasks' \in Seq(AnyTask) /\ pc' = [pc EXCEPT ![w] = "idle"]
        /\ serving' = [serving EXCEPT ![w] = NoConn]
        /\ \A v \in Worker : pc'[v] = "idle" <=> serving'[v] = NoConn
    BY <1>5, <2>1, TypePosted DEF Refuse
  <2> QED BY <1>0, <1>5, <2>1, <2>2 DEF Refuse, SetId, TypeOK, AnyTask, clientVars, ioVars
<1>6. CASE CountFrom(w)
  BY <1>0, <1>6 DEF CountFrom, Goto, TypeOK, clientVars, memberVars, ioVars, Ids
<1>7. CASE Count(w)
  <2>1. held[w] \in Nat /\ c \in Conn
    BY <1>7, Served DEF Count, Inv, WorkersInv, Registering, Underway
  <2>2. held[w] + 1 \in Nat /\ held[w] + 1 \in Ids /\ -1 \in Ids
    BY <2>1 DEF Ids
  <2> QED BY <1>0, <1>7, <2>1, <2>2 DEF Count, Goto, SetId, TypeOK, clientVars, ioVars
<1>8. CASE CopyLogin(w)
  <2>1. login[c] \in Names
    BY <1>0, <1>8, Served DEF CopyLogin, TypeOK
  <2> QED BY <1>0, <1>8, <2>1 DEF CopyLogin, Goto, TypeOK, clientVars, memberVars, ioVars
<1>9. CASE Add(w)
  <2>1. c \in Conn /\ argument[w] \in Names /\ client_id[c] \in Ids /\ password[c] \in Secrets
    BY <1>0, <1>9, Served DEF Add, TypeOK
  <2>2. logins' \in Seq(Row)
    BY <1>0, <1>9, <2>1, Added DEF Add
  <2>3. /\ tasks' \in Seq(AnyTask) /\ pc' = [pc EXCEPT ![w] = "idle"]
        /\ serving' = [serving EXCEPT ![w] = NoConn]
        /\ \A v \in Worker : pc'[v] = "idle" <=> serving'[v] = NoConn
    BY <1>9, <2>1, TypePosted DEF Add
  <2> QED BY <1>0, <1>9, <2>2, <2>3 DEF Add, TypeOK, AnyTask, clientVars, memberVars, ioVars, Names
<1>10. CASE DoText(w)
  BY <1>0, <1>10 DEF DoText, Goto, TypeOK, clientVars, memberVars, ioVars
<1>11. CASE Answer(w)
  BY <1>0, <1>11 DEF Answer, Goto, Outcome, TypeOK, memberVars, ioVars, Ids
<1> QED BY <1>1, <1>2, <1>3, <1>4, <1>5, <1>6, <1>7, <1>8, <1>9, <1>10, <1>11 DEF Work

--------------------------------------------------------------------------------
(* What a step leaves as it is.                                                  *)

\* The table grows, and the database is not opened again.
Grows == Rows(logins) \subseteq Rows(logins)' /\ (db' = "open" => db = "open")

\* A connection of which nothing changes, or whose client has left.
Calm(c) ==
  /\ request'[c] = request[c] /\ before'[c] = before[c]
  /\ client'[c] = client[c] \/ (client[c] = "waiting" /\ client'[c] = "gone")
  /\ login'[c] = login[c] \/ (client[c] = "gone" /\ login'[c] = Unused)
  /\ password'[c] = password[c] \/ (client[c] = "gone" /\ password'[c] = Unused)
  /\ client_id'[c] = client_id[c] \/ client[c] = "gone"

\* A thread that stays where it is.
Same(w) ==
  /\ pc'[w] = pc[w] /\ serving'[w] = serving[w]
  /\ held'[w] = held[w] /\ argument'[w] = argument[w]

LEMMA CalmHonest ==
  ASSUME NEW c, NEW i, Calm(c), Grows, client[c] # "gone", Honest(c, i)
  PROVE  Honest(c, i)'
<1>1. Stored(c, i) => Stored(c, i)'
  BY DEF Calm, Grows, Stored, Signed, Mine, Rows
<1>2. Available(c) => Available(c)'
  BY DEF Calm, Grows, Available, Mine, Rows, Torn
<1>3. (\E row \in Rows(logins) : Signed(c, row) /\ Torn(row)) =>
      (\E row \in Rows(logins) : Signed(c, row) /\ Torn(row))'
  BY DEF Calm, Grows, Signed, Mine, Rows, Torn
<1>4. (~ \E row \in Rows(before[c]) : Signed(c, row)) =>
      (~ \E row \in Rows(before[c]) : Signed(c, row))'
  BY DEF Calm, Signed, Mine, Rows
<1> QED BY <1>1, <1>2, <1>3, <1>4 DEF Honest, Calm, Grows

LEMMA CalmProper ==
  ASSUME NEW op, NEW c, NEW i, Calm(c), Grows, Proper(op, c, i)
  PROVE  Proper(op, c, i)'
<1>1. client'[c] = "waiting" => client[c] = "waiting"
  BY DEF Calm
<1> QED BY <1>1, CalmHonest DEF Proper, Calm

LEMMA CalmUnderway ==
  ASSUME NEW w, Same(w), Calm(serving[w]), Grows, Underway(w)
  PROVE  Underway(w)'
<1>1. Available(serving[w]) => Available(serving[w])'
  BY DEF Calm, Grows, Same, Available, Mine, Rows, Torn
<1> QED BY <1>1 DEF Calm, Grows, Same, Underway

LEMMA CalmClient ==
  ASSUME Inv, NEW c \in Conn, Calm(c), Grows
  PROVE  /\ client'[c] = "off" => request'[c] = NoRequest
         /\ client'[c] # "off" => request'[c] \in Askable
         /\ client'[c] = "in" => client_id'[c] # -1 /\ Honest(c, client_id[c])'
         /\ client'[c] = "refused" => Honest(c, -1)'
<1>1. ASSUME client'[c] = "in" PROVE client_id'[c] # -1 /\ Honest(c, client_id[c])'
  <2>1. client[c] = "in" /\ client_id'[c] = client_id[c] /\ client_id[c] # -1
        /\ Honest(c, client_id[c])
    BY <1>1 DEF Calm, Inv, ClientInv
  <2>2. \A i : i = client_id[c] => Honest(c, i)'
    BY <2>1, CalmHonest
  <2> QED BY <2>1, <2>2 DEF Honest
<1>2. ASSUME client'[c] = "refused" PROVE Honest(c, -1)'
  <2>1. client[c] = "refused" /\ Honest(c, -1)
    BY <1>2 DEF Calm, Inv, ClientInv
  <2> QED BY <2>1, CalmHonest
<1> QED BY <1>1, <1>2 DEF Calm, Inv, ClientInv

\* Another thread at work serves another connection.
LEMMA Others ==
  ASSUME Inv, NEW w \in Worker, NEW v \in Worker, v # w,
         pc[w] \notin {"idle", "text"}, pc[v] \notin {"idle", "text"}
  PROVE  serving[v] # serving[w]
<1>1. serving[w] \in Conn
  BY Served
<1> QED BY <1>1 DEF Inv, OneHandler, Serves

LEMMA OthersQueued ==
  ASSUME Inv, NEW w \in Worker, pc[w] \notin {"idle", "text"},
         NEW k \in 1 .. Len(tasks), tasks[k].op # "text"
  PROVE  tasks[k].conn # serving[w]
<1>1. serving[w] \in Conn
  BY Served
<1> QED BY <1>1 DEF Inv, OneHandler, Serves, InQueue

LEMMA QueuedType ==
  ASSUME Inv, NEW k \in 1 .. Len(tasks)
  PROVE  tasks[k] \in AnyTask /\ tasks[k].conn \in Conn
<1>1. tasks[k] \in AnyTask
  BY ElementOfSeq DEF Inv, TypeOK, AnyTask
<1> QED BY <1>1 DEF AnyTask

\* A client that left does not come back, and what was asked stays.
LEMMA CalmStored ==
  ASSUME StoredAsAsked, UNCHANGED logins,
         \A c \in Conn :
           /\ request[c] # NoRequest => request'[c] = request[c]
           /\ client[c] = "gone" => client'[c] = "gone"
  PROVE  StoredAsAsked'
<1> SUFFICES ASSUME NEW row \in Rows(logins)
             PROVE  \E c \in Conn :
                      /\ request'[c] # NoRequest /\ request'[c].op = "reg"
                      /\ \/ Signed(c, row)' /\ ~ Torn(row)
                         \/ /\ client'[c] = "gone"
                            /\ row.login \in {request'[c].login, Unused}
                            /\ row.password \in {request'[c].password, Unused}
  BY DEF StoredAsAsked, Rows, Torn
<1>1. PICK c \in Conn :
        /\ request[c] # NoRequest /\ request[c].op = "reg"
        /\ \/ Signed(c, row) /\ ~ Torn(row)
           \/ /\ client[c] = "gone"
              /\ row.login \in {request[c].login, Unused}
              /\ row.password \in {request[c].password, Unused}
  BY DEF StoredAsAsked
<1>2. request'[c] = request[c] /\ (client[c] = "gone" => client'[c] = "gone")
  BY <1>1
<1> QED BY <1>1, <1>2 DEF Signed, Mine

\* Where nothing but calm happens to every connection, and no thread moves.
LEMMA AllCalm ==
  ASSUME Inv, TypeOK', Grows, \A c \in Conn : Calm(c), \A w \in Worker : Same(w),
         UNCHANGED <<tasks, logins>>, FreeInv'
  PROVE  Inv'
<1>1. OneHandler'
  BY DEF Inv, OneHandler, Serves, InQueue, Same
<1>2. TasksInv'
  <2> SUFFICES ASSUME NEW k \in 1 .. Len(tasks), tasks[k].op # "text"
               PROVE  Proper(tasks[k].op, tasks[k].conn, tasks[k].id)'
    BY DEF TasksInv
  <2>1. tasks[k].conn \in Conn /\ Proper(tasks[k].op, tasks[k].conn, tasks[k].id)
    BY QueuedType DEF Inv, TasksInv
  <2>2. \A op, i : Proper(op, tasks[k].conn, i) => Proper(op, tasks[k].conn, i)'
    BY <2>1, CalmProper
  <2> QED BY <2>1, <2>2 DEF Proper, Honest, Stored, Available
<1>3. WorkersInv'
  <2> SUFFICES ASSUME NEW w \in Worker
               PROVE  /\ pc'[w] \in {"reg", "auth", "answer"} => Proper(pc[w], serving[w], held[w])'
                      /\ pc'[w] \in Registering => Underway(w)'
    BY DEF WorkersInv
  <2>1. Same(w) /\ (pc[w] # "idle" => serving[w] \in Conn)
    BY Served
  <2>2. pc[w] # "idle" => Calm(serving[w])
    BY <2>1
  <2>3. ASSUME pc'[w] \in Registering PROVE Underway(w)'
    <3>1. Underway(w) /\ Calm(serving[w])
      BY <2>1, <2>2, <2>3 DEF Same, Registering, Inv, WorkersInv
    <3> QED BY <2>1, <3>1, CalmUnderway
  <2>4. ASSUME pc'[w] \in {"reg", "auth", "answer"} PROVE Proper(pc[w], serving[w], held[w])'
    <3>1. Proper(pc[w], serving[w], held[w]) /\ Calm(serving[w])
      BY <2>1, <2>2, <2>4 DEF Same, Inv, WorkersInv
    <3>2. \A op, c, i : op = pc[w] /\ c = serving[w] /\ i = held[w] => Proper(op, c, i)'
      BY <3>1, CalmProper
    <3> QED BY <2>1, <3>2 DEF Same, Proper, Honest, Stored, Available
  <2> QED BY <2>3, <2>4
<1>4. ClientInv'
  BY CalmClient DEF ClientInv
<1>5. TableInv'
  <2>1. Rows(logins)' = Rows(logins) /\ \A c \in Conn : Rows(before[c])' = Rows(before[c])
    BY DEF Rows, Calm
  <2> QED BY <2>1 DEF Inv, TableInv
<1>6. StoredAsAsked'
  BY CalmStored DEF Inv, Calm
<1> QED BY <1>1, <1>2, <1>3, <1>4, <1>5, <1>6 DEF Inv

LEMMA InvLeave == ASSUME Inv, NEW c \in Conn, Leave(c) PROVE Inv'
<1>1. TypeOK'
  BY TypeClients
<1>2. Grows /\ (\A w \in Worker : Same(w)) /\ UNCHANGED <<tasks, logins>>
  BY DEF Leave, Grows, Same, workerVars, Rows
<1>3. ASSUME NEW d \in Conn PROVE Calm(d)
  BY DEF Leave, Calm, memberVars, Inv, TypeOK
<1>4. FreeInv'
  BY DEF Leave, ioVars, Inv, FreeInv, TypeOK
<1> QED BY <1>1, <1>2, <1>3, <1>4, AllCalm

LEMMA InvNetwork ==
  ASSUME Inv, (\E c \in Conn : FreeConnection(c)) \/ ResetLogin \/ ResetPassword
  PROVE  Inv'
<1>1. TypeOK'
  BY TypeNetwork
<1>2. Grows /\ (\A w \in Worker : Same(w)) /\ UNCHANGED <<tasks, logins>>
  BY DEF FreeConnection, ResetLogin, ResetPassword, Grows, Same, workerVars, Rows
<1>3. FreeInv' /\ \A d \in Conn : Calm(d)
  <2>1. ASSUME NEW c \in Conn, FreeConnection(c) PROVE FreeInv' /\ \A d \in Conn : Calm(d)
    BY <2>1 DEF FreeConnection, Calm, clientVars, FreeInv, Inv, TypeOK
  <2>2. ASSUME ResetLogin PROVE FreeInv' /\ \A d \in Conn : Calm(d)
    BY <2>2 DEF ResetLogin, Calm, clientVars, FreeInv, Inv, TypeOK
  <2>3. ASSUME ResetPassword PROVE FreeInv' /\ \A d \in Conn : Calm(d)
    BY <2>3 DEF ResetPassword, Calm, clientVars, FreeInv, Inv, TypeOK
  <2> QED BY <2>1, <2>2, <2>3
<1> QED BY <1>1, <1>2, <1>3, AllCalm

--------------------------------------------------------------------------------
(* What a step of one thread, or one of the client's, leaves of the rest.        *)

Queued == {tasks[k] : k \in 1 .. Len(tasks)}

LEMMA RestOfQueue ==
  ASSUME Inv, Grows, NEW t \in Queued, t.op # "text", Calm(t.conn)
  PROVE  Proper(t.op, t.conn, t.id)'
<1>1. Proper(t.op, t.conn, t.id)
  BY DEF Inv, TasksInv, Queued
<1>2. \A op, c, i : op = t.op /\ c = t.conn /\ i = t.id => Proper(op, c, i)'
  BY <1>1, CalmProper
<1> QED BY <1>2

LEMMA RestOfThreads ==
  ASSUME Inv, Grows, NEW w \in Worker, Same(w), pc[w] # "idle" => Calm(serving[w])
  PROVE  /\ pc'[w] \in {"reg", "auth", "answer"} => Proper(pc[w], serving[w], held[w])'
         /\ pc'[w] \in Registering => Underway(w)'
<1>1. ASSUME pc'[w] \in Registering PROVE Underway(w)'
  <2>1. Underway(w) /\ Calm(serving[w])
    BY <1>1 DEF Same, Registering, Inv, WorkersInv
  <2> QED BY <2>1, CalmUnderway
<1>2. ASSUME pc'[w] \in {"reg", "auth", "answer"} PROVE Proper(pc[w], serving[w], held[w])'
  <2>1. Proper(pc[w], serving[w], held[w]) /\ Calm(serving[w])
    BY <1>2 DEF Same, Inv, WorkersInv
  <2>2. \A op, c, i : op = pc[w] /\ c = serving[w] /\ i = held[w] => Proper(op, c, i)'
    BY <2>1, CalmProper
  <2> QED BY <2>2 DEF Same, Proper, Honest, Stored, Available
<1> QED BY <1>1, <1>2

\* A thread at w, whose connection alone is not calm.
OnlyAt(w) ==
  /\ \A v \in Worker \ {w} : Same(v)
  /\ \A c \in Conn \ {serving[w]} : Calm(c)
  /\ Grows

LEMMA RestOfAll ==
  ASSUME Inv, NEW w \in Worker, pc[w] \notin {"idle", "text"}, OnlyAt(w)
  PROVE  /\ \A t \in Queued : t.op # "text" => Proper(t.op, t.conn, t.id)'
         /\ \A v \in Worker \ {w} :
              /\ pc'[v] \in {"reg", "auth", "answer"} => Proper(pc[v], serving[v], held[v])'
              /\ pc'[v] \in Registering => Underway(v)'
         /\ \A c \in Conn \ {serving[w]} :
              /\ client'[c] = "off" => request'[c] = NoRequest
              /\ client'[c] # "off" => request'[c] \in Askable
              /\ client'[c] = "in" => client_id'[c] # -1 /\ Honest(c, client_id[c])'
              /\ client'[c] = "refused" => Honest(c, -1)'
<1>1. ASSUME NEW t \in Queued, t.op # "text" PROVE Proper(t.op, t.conn, t.id)'
  <2>1. t.conn \in Conn \ {serving[w]}
    BY <1>1, OthersQueued, QueuedType DEF Queued
  <2> QED BY <1>1, <2>1, RestOfQueue DEF OnlyAt
<1>2. ASSUME NEW v \in Worker \ {w}
      PROVE  /\ pc'[v] \in {"reg", "auth", "answer"} => Proper(pc[v], serving[v], held[v])'
             /\ pc'[v] \in Registering => Underway(v)'
  <2>1. Same(v)
    BY DEF OnlyAt
  <2>2. CASE pc[v] \in {"idle", "text"}
    BY <2>1, <2>2 DEF Same, Registering
  <2>3. CASE pc[v] \notin {"idle", "text"}
    <3>1. serving[v] \in Conn \ {serving[w]}
      BY <2>3, Others, Served
    <3>2. Calm(serving[v])
      BY <3>1 DEF OnlyAt
    <3> QED BY <2>1, <3>2, RestOfThreads DEF OnlyAt
  <2> QED BY <2>2, <2>3
<1>3. ASSUME NEW c \in Conn \ {serving[w]}
      PROVE  /\ client'[c] = "off" => request'[c] = NoRequest
             /\ client'[c] # "off" => request'[c] \in Askable
             /\ client'[c] = "in" => client_id'[c] # -1 /\ Honest(c, client_id[c])'
             /\ client'[c] = "refused" => Honest(c, -1)'
  BY CalmClient DEF OnlyAt
<1> QED BY <1>1, <1>2, <1>3

\* The connection of a thread at work waits for its answer, or its client left.
LEMMA ClientOf ==
  ASSUME Inv, NEW w \in Worker, pc[w] \notin {"idle", "text"},
         UNCHANGED <<client, request>>
  PROVE  LET c == serving[w] IN
         /\ client'[c] = "off" => request'[c] = NoRequest
         /\ client'[c] # "off" => request'[c] \in Askable
         /\ client'[c] # "in" /\ client'[c] # "refused"
BY Served

\* From one line of do_registration to the next.
LEMMA NextLine ==
  ASSUME Inv, TypeOK', NEW w \in Worker, pc[w] \in {"reg"} \cup Registering,
         pc'[w] \in Registering, serving' = serving, OnlyAt(w), Underway(w)',
         UNCHANGED <<client, request, before, tasks, logins, iopc, freeing>>
  PROVE  Inv'
<1>0. pc[w] \notin {"idle", "text"} /\ pc'[w] \notin {"idle", "text", "reg", "auth", "answer"}
  BY DEF Registering
<1>1. OneHandler'
  <2>1. \A v \in Worker, c \in Conn : Serves(v, c)' <=> Serves(v, c)
    BY <1>0 DEF OnlyAt, Same, Serves
  <2>2. \A k \in 1 .. Len(tasks), c \in Conn : InQueue(k, c)' <=> InQueue(k, c)
    BY DEF InQueue
  <2> QED BY <2>1, <2>2 DEF Inv, OneHandler
<1>2. TasksInv'
  BY <1>0, RestOfAll DEF TasksInv, Queued
<1>3. WorkersInv'
  <2>1. \A v \in Worker \ {w} : Same(v)
    BY DEF OnlyAt
  <2>2. ASSUME NEW v \in Worker \ {w}
        PROVE  /\ pc'[v] \in {"reg", "auth", "answer"} => Proper(pc[v], serving[v], held[v])'
               /\ pc'[v] \in Registering => Underway(v)'
    BY <1>0, RestOfAll
  <2> QED BY <1>0, <2>2 DEF WorkersInv
<1>4. ClientInv'
  BY <1>0, RestOfAll, ClientOf DEF ClientInv
<1>5. TableInv' /\ FreeInv'
  BY DEF Inv, TableInv, FreeInv, Rows
<1>6. StoredAsAsked'
  BY CalmStored DEF Inv
<1> QED BY <1>1, <1>2, <1>3, <1>4, <1>5, <1>6 DEF Inv

\* The end of a handler: its answer is in the queue, and the thread is idle.
LEMMA PostedAnswer ==
  ASSUME Inv, TypeOK', NEW w \in Worker, pc[w] \notin {"idle", "text"},
         NEW c \in Conn, c = serving[w], NEW i \in Ids, PostAnswer(w, i), OnlyAt(w),
         UNCHANGED <<client, request, before, iopc, freeing>>,
         client[c] = "waiting" => Honest(c, i)',
         TableInv', StoredAsAsked'
  PROVE  Inv'
<1> DEFINE t == Task("answer", c, i)
<1>1. /\ tasks' = Append(tasks, t) /\ pc' = [pc EXCEPT ![w] = "idle"]
      /\ serving' = [serving EXCEPT ![w] = NoConn]
  BY DEF PostAnswer, Goto
<1>2. t \in AnyTask /\ c \in Conn /\ t.op = "answer" /\ t.conn = c /\ t.id = i
      /\ client[c] \in {"waiting", "gone"}
  BY Served DEF Task, AnyTask
<1>3. pc'[w] = "idle" /\ tasks \in Seq(AnyTask)
  BY <1>1 DEF Inv, TypeOK, AnyTask
<1> HIDE DEF t
<1>4. /\ Len(tasks) \in Nat /\ Len(tasks') = Len(tasks) + 1
      /\ \A k \in 1 .. Len(tasks) : k \in 1 .. Len(tasks') /\ tasks'[k] = tasks[k]
      /\ \A k \in 1 .. Len(tasks') :
              k \in 1 .. Len(tasks) \/ (k = Len(tasks) + 1 /\ tasks'[k] = t)
  BY <1>1, <1>2, <1>3, QueueAppend
<1>5. OneHandler'
  <2>1. /\ \A v \in Worker, d \in Conn : Serves(v, d)' => Serves(v, d) /\ v # w
        /\ \A v \in Worker \ {w} : ~ Serves(v, c)
    BY <1>2, <1>3, Others DEF OnlyAt, Same, Serves
  <2>2. \A k \in 1 .. Len(tasks), d \in Conn :
          (InQueue(k, d)' <=> InQueue(k, d)) /\ ~ InQueue(k, c)
    BY <1>2, <1>4, OthersQueued DEF InQueue
  <2>3. \A k \in 1 .. Len(tasks'), d \in Conn :
          InQueue(k, d)' => \/ k \in 1 .. Len(tasks) /\ InQueue(k, d)
                            \/ k = Len(tasks) + 1 /\ d = c
    BY <1>2, <1>4, <2>2 DEF InQueue
  <2> QED BY <1>2, <2>1, <2>2, <2>3 DEF Inv, OneHandler
<1>6. TasksInv'
  <2>1. Proper("answer", c, i)'
    BY <1>2 DEF Proper
  <2>2. \A u \in Queued : u.op # "text" => Proper(u.op, u.conn, u.id)'
    BY RestOfAll
  <2>3. ASSUME NEW u, u = t PROVE Proper(u.op, u.conn, u.id)'
    BY <1>2, <2>1, <2>3 DEF Proper, Honest, Stored, Available
  <2> SUFFICES ASSUME NEW k \in 1 .. Len(tasks'), tasks'[k].op # "text", NEW u, u = tasks'[k]
               PROVE  Proper(u.op, u.conn, u.id)'
    BY DEF TasksInv, Proper, Honest, Stored, Available
  <2> QED BY <1>4, <2>2, <2>3 DEF Queued
<1>7. WorkersInv'
  <2>1. ASSUME NEW v \in Worker \ {w}
        PROVE  /\ pc'[v] \in {"reg", "auth", "answer"} => Proper(pc[v], serving[v], held[v])'
               /\ pc'[v] \in Registering => Underway(v)'
    BY RestOfAll
  <2> QED BY <1>3, <2>1 DEF WorkersInv, Registering
<1>8. ClientInv'
  BY RestOfAll, ClientOf DEF ClientInv
<1>9. FreeInv'
  BY DEF Inv, FreeInv
<1> QED BY <1>5, <1>6, <1>7, <1>8, <1>9 DEF Inv

--------------------------------------------------------------------------------
(* do_registration.                                                              *)

LEMMA InvDoRegistration == ASSUME Inv, NEW w \in Worker, DoRegistration(w) PROVE Inv'
<1>1. TypeOK' /\ pc[w] = "reg" /\ serving[w] \in Conn /\ pc'[w] = "lookup"
  BY TypeWork, Served DEF Work, DoRegistration, Goto, Inv, TypeOK
<1>2. OnlyAt(w)
  BY <1>1 DEF DoRegistration, Goto, SetNames, OnlyAt, Same, Calm, Grows, Rows, clientVars, Inv, TypeOK
<1>3. Underway(w)'
  <2>1. Proper("reg", serving[w], held[w])
    BY <1>1 DEF Inv, WorkersInv
  <2>2. /\ login'[serving[w]] = request[serving[w]].login
        /\ password'[serving[w]] = request[serving[w]].password
    BY <1>1 DEF DoRegistration, SetNames, Inv, TypeOK
  <2> QED BY <1>1, <2>1, <2>2 DEF Proper, Underway, DoRegistration, clientVars
<1> QED BY <1>1, <1>2, <1>3, NextLine DEF Registering, DoRegistration, clientVars, ioVars

LEMMA InvLookUp == ASSUME Inv, NEW w \in Worker, LookUp(w) PROVE Inv'
<1>1. TypeOK' /\ pc[w] = "lookup" /\ serving[w] \in Conn /\ pc'[w] = "test"
  BY TypeWork, Served DEF Work, LookUp, Goto, Inv, TypeOK
<1>2. OnlyAt(w)
  BY <1>1 DEF LookUp, Goto, SetId, OnlyAt, Same, Calm, Grows, Rows, clientVars, Inv, TypeOK
<1>3. Underway(w)'
  <2> DEFINE c == serving[w]
  <2>1. Underway(w) /\ client_id'[c] = get_loginid(login[c])
    BY <1>1 DEF Registering, Inv, WorkersInv, LookUp, SetId, TypeOK
  <2>2. ASSUME client_id'[c] = -1, client[c] # "gone", db = "open" PROVE Available(c)
    <3>1. login[c] = request[c].login
      BY <2>1, <2>2 DEF Underway
    <3>2. \/ \A row \in Rows(logins) : row.login # login[c]
          \/ \E row \in Rows(logins) : row.login = login[c] /\ Torn(row)
      BY <2>1, <2>2, LookedUp DEF Inv, TypeOK, TableInv
    <3>3. Rows(before[c]) \subseteq Rows(logins)
      BY <1>1 DEF Inv, TableInv
    <3> QED BY <3>1, <3>2, <3>3 DEF Available, Mine
  <2>3. Available(c) => Available(c)'
    BY DEF Available, LookUp, clientVars, Mine, Torn, Rows
  <2> QED BY <1>1, <2>1, <2>2, <2>3 DEF Underway, LookUp, clientVars
<1> QED BY <1>1, <1>2, <1>3, NextLine DEF Registering, LookUp, clientVars, ioVars

LEMMA InvCountFrom == ASSUME Inv, NEW w \in Worker, CountFrom(w) PROVE Inv'
<1>1. TypeOK' /\ pc[w] = "test" /\ serving[w] \in Conn /\ pc'[w] = "counted" /\ held'[w] \in Nat
  BY TypeWork, Served DEF Work, CountFrom, Goto, Inv, TypeOK
<1>2. OnlyAt(w)
  BY <1>1 DEF CountFrom, Goto, OnlyAt, Same, Calm, Grows, Rows, clientVars, memberVars, Inv, TypeOK
<1>3. Underway(w)'
  <2>1. Underway(w) /\ client_id[serving[w]] = -1
    BY <1>1 DEF Registering, Inv, WorkersInv, CountFrom
  <2>2. Available(serving[w]) => Available(serving[w])'
    BY DEF Available, CountFrom, clientVars, Mine, Torn, Rows
  <2> QED BY <1>1, <2>1, <2>2 DEF Underway, CountFrom, clientVars, memberVars
<1> QED BY <1>1, <1>2, <1>3, NextLine DEF Registering, CountFrom, clientVars, ioVars

LEMMA InvCount == ASSUME Inv, NEW w \in Worker, Count(w) PROVE Inv'
<1>1. TypeOK' /\ pc[w] = "counted" /\ serving[w] \in Conn /\ pc'[w] = "copy"
  BY TypeWork, Served DEF Work, Count, Goto, Inv, TypeOK
<1>2. OnlyAt(w)
  BY <1>1 DEF Count, Goto, SetId, OnlyAt, Same, Calm, Grows, Rows, clientVars, Inv, TypeOK
<1>3. Underway(w)'
  <2>1. Underway(w) /\ client_id'[serving[w]] = held[w] + 1
    BY <1>1 DEF Registering, Inv, WorkersInv, Count, SetId, TypeOK
  <2>2. held[w] + 1 # -1
    BY <1>1, <2>1 DEF Underway
  <2>3. Available(serving[w]) => Available(serving[w])'
    BY DEF Available, Count, clientVars, Mine, Torn, Rows
  <2> QED BY <1>1, <2>1, <2>2, <2>3 DEF Underway, Count, clientVars
<1> QED BY <1>1, <1>2, <1>3, NextLine DEF Registering, Count, clientVars, ioVars

LEMMA InvCopyLogin == ASSUME Inv, NEW w \in Worker, CopyLogin(w) PROVE Inv'
<1>1. /\ TypeOK' /\ pc[w] = "copy" /\ serving[w] \in Conn /\ pc'[w] = "add"
      /\ argument'[w] = login[serving[w]]
  BY TypeWork, Served DEF Work, CopyLogin, Goto, Inv, TypeOK
<1>2. OnlyAt(w)
  BY <1>1 DEF CopyLogin, Goto, OnlyAt, Same, Calm, Grows, Rows, clientVars, memberVars, Inv, TypeOK
<1>3. Underway(w)'
  <2>1. Underway(w)
    BY <1>1 DEF Registering, Inv, WorkersInv
  <2>2. Available(serving[w]) => Available(serving[w])'
    BY DEF Available, CopyLogin, clientVars, Mine, Torn, Rows
  <2> QED BY <1>1, <2>1, <2>2 DEF Underway, CopyLogin, clientVars, memberVars
<1> QED BY <1>1, <1>2, <1>3, NextLine DEF Registering, CopyLogin, clientVars, ioVars

LEMMA InvRefuse == ASSUME Inv, NEW w \in Worker, Refuse(w) PROVE Inv'
<1>1. TypeOK' /\ pc[w] = "test" /\ serving[w] \in Conn /\ -1 \in Ids
  BY TypeWork, Served DEF Work, Refuse, Ids
<1> DEFINE c == serving[w]
<1>2. OnlyAt(w)
  BY <1>1 DEF Refuse, PostAnswer, Goto, SetId, OnlyAt, Same, Calm, Grows, Rows, clientVars, Inv, TypeOK
<1>3. request[c].op = "reg" /\ client_id'[c] = -1
  BY <1>1 DEF Refuse, SetId, Inv, TypeOK, WorkersInv, Registering, Underway
<1>4. ASSUME NEW d \in Conn, d = serving[w] PROVE Honest(d, -1)'
  BY <1>3, <1>4 DEF Honest, Refuse, clientVars
<1>5. TableInv' /\ StoredAsAsked'
  <2>1. TableInv'
    BY DEF Refuse, clientVars, Inv, TableInv, Rows
  <2>2. StoredAsAsked'
    BY CalmStored DEF Refuse, clientVars, Inv
  <2> QED BY <2>1, <2>2
<1> QED BY <1>1, <1>2, <1>4, <1>5, PostedAnswer DEF Refuse, clientVars, ioVars

\* The row that is added is the one asked for, or the client left.
LEMMA InvAdd == ASSUME Inv, NEW w \in Worker, Add(w) PROVE Inv'
<1>1. TypeOK' /\ pc[w] = "add" /\ Underway(w) /\ serving[w] \in Conn
  BY TypeWork, Served DEF Work, Add, Inv, WorkersInv, Registering
<1>2. PICK c \in Conn : c = serving[w]
  BY <1>1
<1> DEFINE new == [login |-> argument[w], login_id |-> client_id[c], password |-> password[c]]
<1>3. /\ argument[w] \in Names /\ client_id[c] \in Ids /\ password[c] \in Secrets
      /\ logins \in Seq(Row) /\ logins' = add_logins(argument[w], client_id[c], password[c])
      /\ PostAnswer(w, client_id[c])
      /\ UNCHANGED <<client, request, before, login, password, client_id, db, iopc, freeing>>
  BY <1>2 DEF Add, Inv, TypeOK, clientVars, memberVars, ioVars
<1>4. /\ Rows(logins) \subseteq Rows(logins')
      /\ \A row \in Rows(logins') : row \in Rows(logins)
                                    \/ (row = new /\ argument[w] \notin Breaking)
      /\ db = "open" /\ {argument[w], password[c]} \cap Breaking = {} => new \in Rows(logins')
  BY <1>3, Added
<1>5. OnlyAt(w)
  BY <1>2, <1>3, <1>4 DEF Add, PostAnswer, Goto, OnlyAt, Same, Calm, Grows, Rows, Inv, TypeOK
<1>6. /\ request[c].op = "reg" /\ request[c] # NoRequest
      /\ client[c] # "gone" =>
           /\ argument[w] = request[c].login /\ password[c] = request[c].password
           /\ client_id[c] # -1
           /\ db = "open" => Available(c)
      /\ argument[w] \in {request[c].login, Unused} /\ argument[w] \notin Splicing
      /\ password[c] \in {request[c].password, Unused}
      /\ client[c] \in {"waiting", "gone"}
  <2>1. request[c] \in Askable
    BY <1>1, <1>2, Served
  <2> QED BY <1>1, <1>2, <2>1, AccountsAssumption DEF Underway, Askable, Request
<1>7. TableInv'
  <2>1. \A row \in Rows(logins') : row.login \notin Breaking \cup Splicing
    BY <1>4, <1>6 DEF Inv, TableInv
  <2>2. \A d \in Conn : Rows(before[d]) \subseteq Rows(logins')
    BY <1>4 DEF Inv, TableInv
  <2> QED BY <1>3, <2>1, <2>2 DEF TableInv, Rows
<1>8. StoredAsAsked'
  <2> SUFFICES ASSUME NEW row \in Rows(logins')
               PROVE  \E d \in Conn :
                        /\ request[d] # NoRequest /\ request[d].op = "reg"
                        /\ \/ Signed(d, row) /\ ~ Torn(row)
                           \/ /\ client[d] = "gone"
                              /\ row.login \in {request[d].login, Unused}
                              /\ row.password \in {request[d].password, Unused}
    BY <1>3 DEF StoredAsAsked, Rows, Signed, Mine, Torn
  <2>1. CASE row \in Rows(logins)
    BY <2>1 DEF Inv, StoredAsAsked
  <2>2. CASE row = new
    BY <1>6, <2>2 DEF Signed, Mine, Torn
  <2> QED BY <1>4, <2>1, <2>2
<1>9. client[c] = "waiting" => Honest(c, client_id[c])'
  <2> SUFFICES ASSUME client[c] = "waiting" PROVE Honest(c, client_id[c])'
    OBVIOUS
  <2>1. db = "open" => Available(c)'
    BY <1>3, <1>4, <1>6 DEF Available, Mine, Torn, Rows
  <2>2. db = "open" /\ Plain(request[c]) => Stored(c, client_id[c])'
    <3>1. db = "open" /\ Plain(request[c]) =>
            new \in Rows(logins') /\ Signed(c, new) /\ new.login_id = client_id[c]
      BY <1>4, <1>6 DEF Signed, Mine, Plain
    <3> QED BY <1>3, <3>1 DEF Stored, Signed, Mine, Rows
  <2> QED BY <1>3, <1>6, <2>1, <2>2 DEF Honest
<1>10. ASSUME NEW i, i = client_id[c], client[c] = "waiting" PROVE Honest(c, i)'
  BY <1>3, <1>9, <1>10 DEF Honest, Stored
<1> QED BY <1>1, <1>2, <1>3, <1>5, <1>7, <1>8, <1>10, PostedAnswer

--------------------------------------------------------------------------------
(* do_autorisation.                                                              *)

LEMMA InvDoAutorisation == ASSUME Inv, NEW w \in Worker, DoAutorisation(w) PROVE Inv'
<1>1. TypeOK' /\ pc[w] = "auth" /\ serving[w] \in Conn
  BY TypeWork, Served DEF Work, DoAutorisation
<1>2. PICK c \in Conn : c = serving[w]
  BY <1>1
<1>3. PICK found \in check_client(request[c].login, request[c].password) :
             SetId(w, found) /\ PostAnswer(w, found)
  BY <1>2 DEF DoAutorisation
<1>4. /\ client_id'[c] = found /\ PostAnswer(w, found) /\ found \in Ids
      /\ UNCHANGED <<client, request, before, db, logins, iopc, freeing>>
  BY <1>2, <1>3, Checked DEF DoAutorisation, SetId, Inv, TypeOK, clientVars, ioVars
<1>5. OnlyAt(w)
  BY <1>1, <1>2, <1>4
     DEF DoAutorisation, SetNames, SetId, PostAnswer, Goto, OnlyAt, Same, Calm, Grows, Rows,
         Inv, TypeOK
<1>6. Honest(c, found)'
  <2>1. request[c].op = "auth"
    BY <1>1, <1>2 DEF Inv, WorkersInv, Proper
  <2>0. logins \in Seq(Row)
    BY DEF Inv, TypeOK
  <2>2. found # -1 /\ request[c].login \notin Splicing => Stored(c, found)
    BY <1>3, <2>0, Checked DEF Stored, Signed, Mine
  <2>3. found = -1 /\ db = "open" =>
          \/ ~ \E row \in Rows(logins) : Signed(c, row)
          \/ \E row \in Rows(logins) : Signed(c, row) /\ Torn(row)
    <3>1. request[c].login \in Breaking \cup Splicing => ~ \E row \in Rows(logins) : Signed(c, row)
      BY DEF Signed, Mine, Inv, TableInv
    <3>2. found = -1 /\ db = "open" /\ request[c].login \notin Breaking \cup Splicing =>
            \/ ~ \E row \in Rows(logins) : Signed(c, row)
            \/ \E row \in Rows(logins) : Signed(c, row) /\ Torn(row)
      BY <1>3, <2>0, Checked DEF Signed, Mine
    <3> QED BY <3>1, <3>2
  <2>4. Rows(before[c]) \subseteq Rows(logins)
    BY DEF Inv, TableInv
  <2> QED BY <1>4, <2>1, <2>2, <2>3, <2>4 DEF Honest, Stored, Signed, Mine, Torn, Rows
<1>7. TableInv' /\ StoredAsAsked'
  <2>1. TableInv'
    BY <1>4 DEF Inv, TableInv, Rows
  <2>2. StoredAsAsked'
    BY <1>4, CalmStored DEF Inv
  <2> QED BY <2>1, <2>2
<1> QED BY <1>1, <1>2, <1>4, <1>5, <1>6, <1>7, PostedAnswer

--------------------------------------------------------------------------------
(* Tasks taken and finished.                                                     *)

\* Where every connection is calm, what other threads and tasks rely on stays.
LEMMA CalmRest ==
  ASSUME Inv, Grows, \A c \in Conn : Calm(c)
  PROVE  /\ \A t \in Queued : t.op # "text" => Proper(t.op, t.conn, t.id)'
         /\ \A v \in Worker : Same(v) =>
              /\ pc'[v] \in {"reg", "auth", "answer"} => Proper(pc[v], serving[v], held[v])'
              /\ pc'[v] \in Registering => Underway(v)'
         /\ ClientInv'
<1>1. ASSUME NEW t \in Queued, t.op # "text" PROVE Proper(t.op, t.conn, t.id)'
  <2>1. t.conn \in Conn
    BY QueuedType DEF Queued
  <2> QED BY <1>1, <2>1, RestOfQueue
<1>2. ASSUME NEW v \in Worker, Same(v)
      PROVE  /\ pc'[v] \in {"reg", "auth", "answer"} => Proper(pc[v], serving[v], held[v])'
             /\ pc'[v] \in Registering => Underway(v)'
  BY <1>2, Served, RestOfThreads
<1>3. ClientInv'
  BY CalmClient DEF ClientInv
<1> QED BY <1>1, <1>2, <1>3

LEMMA InvTake == ASSUME Inv, NEW w \in Worker, Take(w) PROVE Inv'
<1>1. /\ TypeOK' /\ pc[w] = "idle" /\ tasks # <<>> /\ tasks' = Tail(tasks)
      /\ tasks \in Seq(AnyTask)
      /\ UNCHANGED <<client, request, before, login, password, client_id, db, logins,
                     iopc, freeing>>
  BY TypeWork DEF Work, Take, Inv, TypeOK, AnyTask, clientVars, memberVars, ioVars
<1>2. PICK t \in AnyTask : t = Head(tasks)
  BY <1>1, QueueTail
<1>3. /\ tasks[1] = t /\ 1 \in 1 .. Len(tasks) /\ t \in Queued
      /\ \A k \in 1 .. Len(tasks') : k + 1 \in 1 .. Len(tasks) /\ tasks'[k] = tasks[k + 1]
  BY <1>1, <1>2, QueueTail DEF Queued
<1>4. pc'[w] = t.op /\ serving'[w] = t.conn /\ held'[w] = t.id
  BY <1>2 DEF Take, Goto, Inv, TypeOK
<1>5. Grows /\ (\A c \in Conn : Calm(c)) /\ \A v \in Worker \ {w} : Same(v)
  BY <1>1 DEF Take, Goto, Grows, Calm, Same, Rows, Inv, TypeOK
<1>6. OneHandler'
  <2>1. \A v \in Worker, c \in Conn :
          Serves(v, c)' <=> IF v = w THEN InQueue(1, c) ELSE Serves(v, c)
    BY <1>1, <1>2, <1>3, <1>4, <1>5 DEF Same, Serves, InQueue, AnyTask
  <2>2. \A v \in Worker, c \in Conn : Serves(v, c) => v # w
    BY <1>1 DEF Serves
  <2>3. \A k \in 1 .. Len(tasks'), c \in Conn :
          k + 1 \in 1 .. Len(tasks) /\ (InQueue(k, c)' <=> InQueue(k + 1, c)) /\ k + 1 # 1
    BY <1>3 DEF InQueue
  <2>4. ASSUME NEW c \in Conn, NEW v \in Worker, NEW u \in Worker, Serves(v, c)', Serves(u, c)'
        PROVE  v = u
    BY <1>3, <2>1, <2>2, <2>4 DEF Inv, OneHandler
  <2>5. ASSUME NEW c \in Conn, NEW j \in 1 .. Len(tasks'), NEW k \in 1 .. Len(tasks'),
               InQueue(j, c)', InQueue(k, c)'
        PROVE  j = k
    <3>1. j + 1 = k + 1
      BY <2>3, <2>5 DEF Inv, OneHandler
    <3> QED BY <3>1
  <2>6. ASSUME NEW c \in Conn, NEW v \in Worker, NEW k \in 1 .. Len(tasks'),
               Serves(v, c)', InQueue(k, c)'
        PROVE  FALSE
    BY <1>3, <2>1, <2>3, <2>6 DEF Inv, OneHandler
  <2> QED BY <2>4, <2>5, <2>6 DEF OneHandler
<1>7. TasksInv'
  <2> SUFFICES ASSUME NEW k \in 1 .. Len(tasks'), tasks'[k].op # "text", NEW u, u = tasks'[k]
               PROVE  Proper(u.op, u.conn, u.id)'
    BY DEF TasksInv, Proper, Honest, Stored, Available
  <2>1. u \in Queued
    BY <1>3 DEF Queued
  <2> QED BY <1>5, <2>1, CalmRest
<1>8. WorkersInv'
  <2>1. t.op # "text" => Proper(t.op, t.conn, t.id)'
    BY <1>3, <1>5, CalmRest
  <2>2. pc'[w] # "text" => Proper(pc[w], serving[w], held[w])'
    BY <1>4, <2>1 DEF Proper, Honest, Stored, Available
  <2>3. pc'[w] \notin Registering
    BY <1>2, <1>4 DEF AnyTask, Registering
  <2> QED BY <1>5, <2>2, <2>3, CalmRest DEF WorkersInv
<1>9. TableInv' /\ FreeInv'
  BY <1>1 DEF Inv, TableInv, FreeInv, Rows
<1>10. StoredAsAsked'
  BY <1>1, CalmStored DEF Inv
<1> QED BY <1>1, <1>5, <1>6, <1>7, <1>8, <1>9, <1>10, CalmRest DEF Inv

LEMMA InvDoText == ASSUME Inv, NEW w \in Worker, DoText(w) PROVE Inv'
<1>1. /\ TypeOK' /\ pc[w] = "text" /\ pc'[w] = "idle" /\ tasks' = tasks
      /\ UNCHANGED <<client, request, before, login, password, client_id, logins,
                     iopc, freeing>>
  BY TypeWork DEF Work, DoText, Goto, Inv, TypeOK, clientVars, memberVars, ioVars
<1>2. Grows /\ (\A c \in Conn : Calm(c)) /\ \A v \in Worker \ {w} : Same(v)
  BY <1>1 DEF DoText, Goto, Grows, Calm, Same, Rows, Inv, TypeOK
<1>3. OneHandler'
  <2>1. \A v \in Worker, c \in Conn : Serves(v, c)' <=> Serves(v, c)
    BY <1>1, <1>2 DEF Same, Serves
  <2> QED BY <1>1, <2>1 DEF Inv, OneHandler, InQueue
<1>4. TasksInv'
  BY <1>1, <1>2, CalmRest DEF TasksInv, Queued
<1>5. WorkersInv'
  BY <1>1, <1>2, CalmRest DEF WorkersInv, Registering
<1>6. TableInv' /\ FreeInv'
  BY <1>1 DEF Inv, TableInv, FreeInv, Rows
<1>7. StoredAsAsked'
  BY <1>1, CalmStored DEF Inv
<1> QED BY <1>1, <1>2, <1>3, <1>4, <1>5, <1>6, <1>7, CalmRest DEF Inv

LEMMA InvAnswer == ASSUME Inv, NEW w \in Worker, Answer(w) PROVE Inv'
<1>1. /\ TypeOK' /\ pc[w] = "answer" /\ pc'[w] = "idle" /\ tasks' = tasks
      /\ UNCHANGED <<request, before, login, password, client_id, db, logins, iopc, freeing>>
  BY TypeWork DEF Work, Answer, Goto, Inv, TypeOK, memberVars, ioVars
<1>2. PICK c \in Conn : c = serving[w]
  BY <1>1, Served
<1>3. /\ client[c] \in {"waiting", "gone"} /\ request[c] \in Askable
      /\ client[c] = "waiting" => Honest(c, held[w])
      /\ client' = IF client[c] = "waiting" THEN [client EXCEPT ![c] = Outcome(held[w])]
                                            ELSE client
  BY <1>1, <1>2, Served DEF Inv, WorkersInv, Proper, Answer
<1>4. OnlyAt(w) /\ pc[w] \notin {"idle", "text"}
  BY <1>1, <1>2, <1>3 DEF Answer, Goto, OnlyAt, Grows, Calm, Same, Rows, Inv, TypeOK
<1>5. OneHandler'
  <2>1. \A v \in Worker, d \in Conn : Serves(v, d)' => Serves(v, d)
    BY <1>1, <1>4 DEF OnlyAt, Same, Serves
  <2> QED BY <1>1, <2>1 DEF Inv, OneHandler, InQueue
<1>6. TasksInv'
  BY <1>1, <1>4, RestOfAll DEF TasksInv, Queued
<1>7. WorkersInv'
  BY <1>1, <1>4, RestOfAll DEF WorkersInv, Registering
<1>8. ClientInv'
  <2>1. CASE client[c] = "gone"
    <3>1. client' = client
      BY <1>3, <2>1
    <3> QED BY <1>1, <1>2, <1>3, <1>4, <2>1, <3>1, RestOfAll DEF ClientInv
  <2>2. CASE client[c] = "waiting"
    <3>1. /\ client'[c] = IF held[w] # -1 THEN "in" ELSE "refused"
          /\ held[w] # -1 => client_id[c] = held[w]
          /\ Honest(c, held[w])
      BY <1>3, <2>2 DEF Outcome, Honest, Inv, TypeOK
    <3>2. \A i : Honest(c, i) => Honest(c, i)'
      BY <1>1 DEF Honest, Stored, Available, Signed, Mine, Torn, Rows
    <3>3. client'[c] = "in" => client_id'[c] # -1 /\ Honest(c, client_id[c])'
      BY <1>1, <3>1, <3>2 DEF Honest
    <3>4. client'[c] = "refused" => Honest(c, -1)'
      BY <3>1, <3>2
    <3>5. client'[c] \in {"in", "refused"} /\ request'[c] \in Askable
      BY <1>1, <1>3, <3>1
    <3> QED BY <1>2, <1>4, <3>3, <3>4, <3>5, RestOfAll DEF ClientInv
  <2> QED BY <1>3, <2>1, <2>2
<1>9. TableInv' /\ FreeInv'
  <2>1. TableInv'
    BY <1>1 DEF Inv, TableInv, Rows
  <2>2. \A d \in Conn : client[d] = "gone" => client'[d] = "gone"
    BY <1>3 DEF Inv, TypeOK
  <2>3. FreeInv'
    BY <1>1, <2>2 DEF Inv, FreeInv, TypeOK
  <2> QED BY <2>1, <2>3
<1>10. StoredAsAsked'
  BY <1>1, <1>3, CalmStored DEF Inv, TypeOK
<1> QED BY <1>1, <1>5, <1>6, <1>7, <1>8, <1>9, <1>10 DEF Inv

--------------------------------------------------------------------------------
(* What is asked, and restarts.                                                  *)

LEMMA InvSendText == ASSUME Inv, NEW c \in Conn, SendText(c) PROVE Inv'
<1> DEFINE t == Task("text", c, -1)
<1>1. /\ TypeOK' /\ tasks' = Append(tasks, t) /\ tasks \in Seq(AnyTask)
      /\ UNCHANGED <<client, request, before, pc, serving, held, argument, login, password,
                     client_id, db, logins, iopc, freeing>>
  BY TypeClients DEF SendText, Inv, TypeOK, AnyTask, workerVars, memberVars, ioVars
<1>2. t \in AnyTask /\ t.op = "text"
  BY DEF Task, AnyTask, Ids
<1> HIDE DEF t
<1>3. /\ \A k \in 1 .. Len(tasks) : k \in 1 .. Len(tasks') /\ tasks'[k] = tasks[k]
      /\ \A k \in 1 .. Len(tasks') : k \in 1 .. Len(tasks) \/ tasks'[k].op = "text"
  BY <1>1, <1>2, QueueAppend
<1>4. Grows /\ (\A d \in Conn : Calm(d)) /\ \A v \in Worker : Same(v)
  BY <1>1 DEF Grows, Calm, Same, Rows
<1>5. OneHandler'
  <2>1. \A k \in 1 .. Len(tasks'), d \in Conn :
          InQueue(k, d)' => k \in 1 .. Len(tasks) /\ InQueue(k, d)
    BY <1>3 DEF InQueue
  <2>2. \A v \in Worker, d \in Conn : Serves(v, d)' <=> Serves(v, d)
    BY <1>1 DEF Serves
  <2> QED BY <2>1, <2>2 DEF Inv, OneHandler
<1>6. TasksInv'
  <2> SUFFICES ASSUME NEW k \in 1 .. Len(tasks'), tasks'[k].op # "text", NEW u, u = tasks'[k]
               PROVE  Proper(u.op, u.conn, u.id)'
    BY DEF TasksInv, Proper, Honest, Stored, Available
  <2>1. u \in Queued
    BY <1>3 DEF Queued
  <2> QED BY <1>4, <2>1, CalmRest
<1>7. WorkersInv'
  BY <1>4, CalmRest DEF WorkersInv
<1>8. TableInv' /\ FreeInv'
  BY <1>1 DEF Inv, TableInv, FreeInv, Rows
<1>9. StoredAsAsked'
  BY <1>1, CalmStored DEF Inv
<1> QED BY <1>1, <1>4, <1>5, <1>6, <1>7, <1>8, <1>9, CalmRest DEF Inv

LEMMA InvAsk == ASSUME Inv, NEW c \in Conn, NEW req \in Request, Ask(c, req) PROVE Inv'
<1> DEFINE t == Task(req.op, c, -1)
<1>1. /\ TypeOK' /\ tasks' = Append(tasks, t) /\ tasks \in Seq(AnyTask)
      /\ client[c] = "off" /\ request[c] = NoRequest
      /\ UNCHANGED <<pc, serving, held, argument, login, password, client_id, db, logins,
                     iopc, freeing>>
      /\ client' = [client EXCEPT ![c] = "waiting"]
      /\ request' = [request EXCEPT ![c] = req]
      /\ before' = [before EXCEPT ![c] = logins]
  BY TypeClients DEF Ask, Inv, TypeOK, AnyTask, ClientInv, workerVars, ioVars
<1>2. t \in AnyTask /\ t.op = req.op /\ t.conn = c /\ t.id = -1 /\ req.op \in {"reg", "auth"}
  BY DEF Task, AnyTask, Ids, Request
<1> HIDE DEF t
<1>3. /\ Len(tasks) \in Nat /\ Len(tasks') = Len(tasks) + 1
      /\ \A k \in 1 .. Len(tasks) : k \in 1 .. Len(tasks') /\ tasks'[k] = tasks[k]
      /\ \A k \in 1 .. Len(tasks') :
           k \in 1 .. Len(tasks) \/ (k = Len(tasks) + 1 /\ tasks'[k] = t)
  BY <1>1, <1>2, QueueAppend
<1>4. Grows /\ (\A d \in Conn \ {c} : Calm(d)) /\ \A v \in Worker : Same(v)
  BY <1>1 DEF Grows, Calm, Same, Rows, Inv, TypeOK
<1>5. /\ client'[c] = "waiting" /\ request'[c] = req /\ before'[c] = logins
      /\ \A d \in Conn \ {c} : client'[d] = client[d] /\ request'[d] = request[d]
                              /\ before'[d] = before[d]
  BY <1>1 DEF Inv, TypeOK
<1>6. /\ \A v \in Worker : ~ Serves(v, c)
      /\ \A k \in 1 .. Len(tasks) : ~ InQueue(k, c)
  <2>1. ASSUME NEW v \in Worker PROVE ~ Serves(v, c)
    BY <1>1, Served DEF Serves
  <2>2. ASSUME NEW k \in 1 .. Len(tasks) PROVE ~ InQueue(k, c)
    BY <1>1 DEF InQueue, Inv, TasksInv, Proper
  <2> QED BY <2>1, <2>2
<1>7. OneHandler'
  <2>1. \A k \in 1 .. Len(tasks'), d \in Conn :
          InQueue(k, d)' => \/ k \in 1 .. Len(tasks) /\ InQueue(k, d)
                            \/ k = Len(tasks) + 1 /\ d = c
    BY <1>2, <1>3 DEF InQueue
  <2>2. \A v \in Worker, d \in Conn : Serves(v, d)' <=> Serves(v, d)
    BY <1>1 DEF Serves
  <2> QED BY <1>6, <2>1, <2>2 DEF Inv, OneHandler
<1>8. TasksInv'
  <2>1. \A op : op = req.op => Proper(op, c, -1)'
    BY <1>2, <1>5 DEF Proper
  <2>2. ASSUME NEW k \in 1 .. Len(tasks), tasks[k].op # "text", NEW u, u = tasks[k]
        PROVE  Proper(u.op, u.conn, u.id)'
    <3>1. u.conn \in Conn \ {c}
      BY <1>6, <2>2, QueuedType DEF InQueue
    <3>2. Calm(u.conn) /\ u \in Queued
      BY <1>4, <2>2, <3>1 DEF Queued
    <3> QED BY <1>4, <2>2, <3>2, RestOfQueue
  <2>3. ASSUME NEW u, u = t PROVE Proper(u.op, u.conn, u.id)'
    <3>1. u.op = req.op /\ u.conn = c /\ u.id = -1
      BY <1>2, <2>3
    <3> QED BY <2>1, <3>1
  <2> SUFFICES ASSUME NEW k \in 1 .. Len(tasks'), tasks'[k].op # "text", NEW u, u = tasks'[k]
               PROVE  Proper(u.op, u.conn, u.id)'
    BY DEF TasksInv, Proper, Honest, Stored, Available
  <2> QED BY <1>3, <2>2, <2>3
<1>9. WorkersInv'
  <2> SUFFICES ASSUME NEW v \in Worker
               PROVE  /\ pc'[v] \in {"reg", "auth", "answer"} => Proper(pc[v], serving[v], held[v])'
                      /\ pc'[v] \in Registering => Underway(v)'
    BY DEF WorkersInv
  <2>1. CASE pc[v] \in {"idle", "text"}
    BY <1>1, <2>1 DEF Registering
  <2>2. CASE pc[v] \notin {"idle", "text"}
    <3>1. serving[v] \in Conn \ {c}
      BY <1>6, <2>2, Served DEF Serves
    <3> QED BY <1>4, <3>1, RestOfThreads
  <2> QED BY <2>1, <2>2
<1>10. ClientInv'
  <2>1. ASSUME NEW d \in Conn \ {c}
        PROVE  /\ client'[d] = "off" => request'[d] = NoRequest
               /\ client'[d] # "off" => request'[d] \in Askable
               /\ client'[d] = "in" => client_id'[d] # -1 /\ Honest(d, client_id[d])'
               /\ client'[d] = "refused" => Honest(d, -1)'
    BY <1>4, CalmClient
  <2>2. req \in Askable
    BY AccountsAssumption DEF Ask
  <2> QED BY <1>5, <2>1, <2>2 DEF ClientInv
<1>11. TableInv'
  <2>1. Rows(logins)' = Rows(logins) /\ Rows(before[c])' = Rows(logins)
    BY <1>1, <1>5 DEF Rows
  <2>2. \A d \in Conn \ {c} : Rows(before[d])' = Rows(before[d])
    BY <1>5 DEF Rows
  <2> QED BY <2>1, <2>2 DEF Inv, TableInv
<1>12. FreeInv'
  BY <1>1, <1>5 DEF Inv, FreeInv, TypeOK
<1>13. StoredAsAsked'
  <2>1. \A d \in Conn : /\ request[d] # NoRequest => request'[d] = request[d]
                        /\ client[d] = "gone" => client'[d] = "gone"
    BY <1>1, <1>5
  <2> QED BY <1>1, <2>1, CalmStored DEF Inv
<1> QED BY <1>1, <1>7, <1>8, <1>9, <1>10, <1>11, <1>12, <1>13 DEF Inv

LEMMA InvRestart == ASSUME Inv, Restart PROVE Inv'
<1>1. /\ TypeOK' /\ tasks' = <<>> /\ UNCHANGED <<request, before, logins>>
      /\ \A w \in Worker : pc'[w] = "idle"
      /\ iopc' = "idle"
      /\ \A c \in Conn : client'[c] = IF client[c] \in {"off", "gone"} THEN client[c] ELSE "lost"
  BY TypeRestart DEF Restart
<1>2. OneHandler' /\ TasksInv' /\ WorkersInv' /\ FreeInv'
  BY <1>1 DEF OneHandler, TasksInv, WorkersInv, FreeInv, Serves, InQueue, Registering
<1>3. ClientInv'
  BY <1>1 DEF Inv, ClientInv
<1>4. TableInv'
  BY <1>1 DEF Inv, TableInv, Rows
<1>5. StoredAsAsked'
  BY <1>1, CalmStored DEF Inv
<1> QED BY <1>1, <1>2, <1>3, <1>4, <1>5 DEF Inv

--------------------------------------------------------------------------------
(* The theorems.                                                                 *)

LEMMA InvInit == Init => Inv
<1> SUFFICES ASSUME Init PROVE Inv
  OBVIOUS
<1>1. TypeOK
  BY TypeInit
<1>2. /\ \A w \in Worker : pc[w] = "idle"
      /\ \A c \in Conn : /\ client[c] = "off" /\ request[c] = NoRequest
                         /\ Rows(before[c]) = {}
      /\ Rows(logins) = {} /\ tasks = <<>> /\ iopc = "idle"
  BY DEF Init, Rows
<1>3. OneHandler /\ TasksInv /\ WorkersInv /\ FreeInv
  BY <1>2 DEF OneHandler, TasksInv, WorkersInv, FreeInv, Serves, InQueue, Registering
<1>4. ClientInv /\ TableInv /\ StoredAsAsked
  BY <1>2 DEF ClientInv, TableInv, StoredAsAsked
<1> QED BY <1>1, <1>3, <1>4 DEF Inv

LEMMA InvNext == Inv /\ [Next]_vars => Inv'
<1> SUFFICES ASSUME Inv, [Next]_vars PROVE Inv'
  OBVIOUS
<1>1. ASSUME NEW c \in Conn, NEW req \in Request, Ask(c, req) PROVE Inv'
  BY <1>1, InvAsk
<1>2. ASSUME NEW c \in Conn, Leave(c) \/ SendText(c) PROVE Inv'
  BY <1>2, InvLeave, InvSendText
<1>3. ASSUME (\E c \in Conn : FreeConnection(c)) \/ ResetLogin \/ ResetPassword PROVE Inv'
  BY <1>3, InvNetwork
<1>4. ASSUME NEW w \in Worker, Work(w) PROVE Inv'
  BY <1>4, InvTake, InvDoAutorisation, InvDoRegistration, InvLookUp, InvRefuse, InvCountFrom,
     InvCount, InvCopyLogin, InvAdd, InvDoText, InvAnswer DEF Work
<1>5. ASSUME UNCHANGED vars PROVE Inv'
  <2>1. UNCHANGED <<client, request, before, texted, tasks, pc, serving, held, argument, login,
                    password, client_id, busy, iopc, freeing, id, db, logins, restarts>>
    BY <1>5 DEF vars, clientVars, workerVars, memberVars, ioVars
  <2>2. TypeOK' /\ FreeInv' /\ Grows
    BY <2>1 DEF Inv, TypeOK, FreeInv, Grows, Rows
  <2>3. (\A c \in Conn : Calm(c)) /\ \A w \in Worker : Same(w)
    BY <2>1 DEF Calm, Same
  <2> QED BY <2>1, <2>2, <2>3, AllCalm
<1> QED BY <1>1, <1>2, <1>3, <1>4, <1>5, InvRestart DEF Next

\* What answers, threads and the table hold is in agreement in every state.
THEOREM AccountsAgree == Spec => []Inv
<1> QED BY InvInit, InvNext, PTL DEF Spec

\* Every variable has its type, and threads serve connections while they work.
THEOREM TypeCorrect == Spec => []TypeOK
<1>1. Inv => TypeOK
  BY DEF Inv
<1> QED BY <1>1, AccountsAgree, PTL

\* do_autorisation lets nobody in without a row of its login, password and id.
THEOREM SignInHasRow == Spec => []SignedIn
<1>1. Inv => SignedIn
  BY DEF Inv, ClientInv, SignedIn, Honest, Stored
<1> QED BY <1>1, AccountsAgree, PTL

\* do_registration stores what it grants, whatever other connections are registered
\* or freed between its lines.
THEOREM GrantHasRow == Spec => []GrantedIsStored
<1>1. Inv => GrantedIsStored
  BY DEF Inv, ClientInv, GrantedIsStored, Honest, Plain, Stored
<1> QED BY <1>1, AccountsAgree, PTL

\* do_registration gives no login away that was in the table when it was asked for.
THEOREM NoLoginGivenAway == Spec => []NotGivenAway
<1>1. Inv => NotGivenAway
  BY DEF Inv, ClientInv, NotGivenAway, Honest, Available
<1> QED BY <1>1, AccountsAgree, PTL

\* do_autorisation turns nobody away whose login and password were in the table.
THEOREM NobodyTurnedAway == Spec => []NotTurnedAway
<1>1. Inv => NotTurnedAway
  BY DEF Inv, ClientInv, NotTurnedAway, Honest
<1> QED BY <1>1, AccountsAgree, PTL

\* The members that free_connection resets get into no row but that of the client
\* that left.
THEOREM RowsAsAsked == Spec => []StoredAsAsked
<1>1. Inv => StoredAsAsked
  BY DEF Inv
<1> QED BY <1>1, AccountsAgree, PTL

================================================================================
