-------------------------------- MODULE Accounts -------------------------------
(***************************************************************************)
(* Signing in: do_registration and do_autorisation in the pool threads,    *)
(* beside the network thread that frees the connection of a client that    *)
(* left, the counter of generate_client_id, and the logins table, which    *)
(* outlives the server.                                                    *)
(*                                                                         *)
(* A connection sends one request to sign in, as the client does, and its  *)
(* user waits for the answer.  A statement on the table is atomic; what a  *)
(* thread does between two of them is not.  After the answer only the text *)
(* that makes the server close its database matters here.                  *)
(***************************************************************************)
EXTENDS Integers, Sequences

CONSTANTS
  Conn, Login, Password, Worker,
  Breaking,     \* logins and passwords with an apostrophe, which ends the string they
                \* are quoted in, so that the statement does not compile
  Splicing,     \* logins with an apostrophe that make another query of the select
  Forged,       \* the ids that such a query may come up with
  Unused,       \* "unused", written over login and password by free_connection
  None,         \* the empty login and password of a new Connection
  NoConn, NoRequest,
  MayAsk,       \* bound: the requests each connection may send
  MaxRestarts,  \* bound: times the server is started again
  MayLeave,     \* bound: connections whose client may leave while it waits
  MayBreak      \* bound: connections whose user may send a text with an apostrophe

Request == [op : {"reg", "auth"}, login : Login, password : Password]
Names == Login \cup {Unused, None}
Secrets == Password \cup {Unused, None}
Ids == Nat \cup {-1}
Row == [login : Names, login_id : Ids, password : Secrets]

\* Registrations whose strings make other statements of the insert, which may do
\* anything to the table, are left out: a login in Splicing only tries to sign in.
Askable == {req \in Request : req.op = "reg" => req.login \notin Splicing}

ASSUME AccountsAssumption ==
  /\ NoConn \notin Conn /\ NoRequest \notin Request
  /\ Breaking \subseteq Login \cup Password /\ Splicing \subseteq Login
  /\ Breaking \cap Splicing = {} /\ Forged \subseteq Ids
  /\ Unused \notin Breaking \cup Splicing /\ None \notin Login
  /\ MayAsk \in [Conn -> SUBSET Askable] /\ MaxRestarts \in Nat
  /\ MayLeave \subseteq Conn /\ MayBreak \subseteq Conn

VARIABLES
  client,     \* the program at the other end of each connection
  request,    \* what it asked
  before,     \* the logins table when it asked
  texted,     \* connections whose user sent a text with an apostrophe
  tasks,      \* the pool's queue; id is the id an answer carries
  pc, serving, \* what each thread does next, and for which connection
  held,       \* a number each thread holds: an answer's id, or id before its increment
  argument,   \* the login a thread has copied for add_logins
  login, password, client_id, busy,   \* members of Connection
  iopc, freeing,  \* the network thread in free_connection
  id,         \* the counter in generate_client_id
  db,         \* whether the database is open
  logins,     \* the table
  restarts

clientVars == <<client, request, before, texted>>
workerVars == <<pc, serving, held, argument>>
memberVars == <<login, password, client_id, busy>>
ioVars     == <<iopc, freeing>>
vars == <<clientVars, tasks, workerVars, memberVars, ioVars, id, db, logins, restarts>>

Init ==
  /\ client = [c \in Conn |-> "off"]
  /\ request = [c \in Conn |-> NoRequest]
  /\ before = [c \in Conn |-> <<>>]
  /\ texted = {}
  /\ tasks = <<>>
  /\ pc = [w \in Worker |-> "idle"]
  /\ serving = [w \in Worker |-> NoConn]
  /\ held = [w \in Worker |-> -1]
  /\ argument = [w \in Worker |-> None]
  /\ login = [c \in Conn |-> None]
  /\ password = [c \in Conn |-> None]
  /\ client_id = [c \in Conn |-> -1] \* not read before a thread sets it
  /\ busy = {}
  /\ iopc = "idle" /\ freeing = NoConn
  /\ id = 0
  /\ db = "open"
  /\ logins = <<>>
  /\ restarts = 0

--------------------------------------------------------------------------------
(* The table.                                                                    *)

\* The rows of a name; a statement that does not compile, or that runs on a
\* closed database, returns no row.
RowsOf(name) ==
  {k \in 1 .. Len(logins) :
     db = "open" /\ name \notin Breaking /\ logins[k].login = name}

\* The id in the last of the rows the loop of get_loginid or check_client keeps.
LastId(rows) ==
  IF rows = {} THEN -1
  ELSE LET last == CHOOSE k \in rows : \A j \in rows : j <= k IN logins[last].login_id

get_loginid(name) == LastId(RowsOf(name))

\* Mutant: the password is not compared.
AnyPassword(name, secret) == {LastId(RowsOf(name))}

\* Mutant: the password is compared with that of the last row only.
LastRowOnly(name, secret) ==
  {LastId({k \in RowsOf(name) :
             /\ \A j \in RowsOf(name) : j <= k
             /\ logins[k].password = secret})}

\* The ids that check_client may return.
check_client(name, secret) ==
  IF name \in Splicing /\ db = "open" THEN Forged
  ELSE {LastId({k \in RowsOf(name) : logins[k].password = secret})}

\* add_logins: a statement that fails is logged, and nobody is told.  Its message is
\* then freed twice, and on a closed database the log line prints a null pointer:
\* the server goes on, or it dies, which is a Restart.
add_logins(name, login_id, secret) ==
  IF db = "closed" \/ name \in Breaking \/ secret \in Breaking THEN logins
  ELSE Append(logins, [login |-> name, login_id |-> login_id, password |-> secret])

--------------------------------------------------------------------------------
(* The clients.                                                                  *)

Task(op, c, i) == [op |-> op, conn |-> c, id |-> i]

\* The client connects and sends its request, and process_msg posts it.
Ask(c, req) ==
  /\ client[c] = "off" /\ req \in MayAsk[c]
  /\ client' = [client EXCEPT ![c] = "waiting"]
  /\ request' = [request EXCEPT ![c] = req]
  /\ before' = [before EXCEPT ![c] = logins]
  /\ busy' = busy \cup {c}
  /\ tasks' = Append(tasks, Task(req.op, c, -1))
  /\ UNCHANGED <<texted, workerVars, login, password, client_id, ioVars, id, db,
                 logins, restarts>>

\* It leaves before the answer: the header read that process_msg armed will fail.
\* A tear-down after the answer changes nothing that is followed here.
Leave(c) ==
  /\ c \in MayLeave /\ client[c] = "waiting"
  /\ client' = [client EXCEPT ![c] = "gone"]
  /\ UNCHANGED <<request, before, texted, tasks, workerVars, memberVars, ioVars, id,
                 db, logins, restarts>>

\* A user who is in sends a text that breaks the statement it is saved with.
SendText(c) ==
  /\ c \in MayBreak \ texted /\ client[c] = "in"
  /\ texted' = texted \cup {c}
  /\ tasks' = Append(tasks, Task("text", c, -1))
  /\ UNCHANGED <<client, request, before, workerVars, memberVars, ioVars, id, db,
                 logins, restarts>>

--------------------------------------------------------------------------------
(* The network thread: do_parse_pb_header with an error calls free_connection.  *)
(* Its rooms and its socket are in ChatRooms; here are the members it resets.   *)

FreeConnection(c) ==
  /\ iopc = "idle" /\ client[c] = "gone" /\ c \in busy
  /\ freeing' = c /\ iopc' = "login"
  /\ client_id' = [client_id EXCEPT ![c] = -1]
  /\ UNCHANGED <<clientVars, tasks, workerVars, login, password, busy, id, db, logins,
                 restarts>>

ResetLogin ==
  /\ iopc = "login" /\ iopc' = "password"
  /\ login' = [login EXCEPT ![freeing] = Unused]
  /\ UNCHANGED <<clientVars, tasks, workerVars, password, client_id, busy, freeing, id,
                 db, logins, restarts>>

ResetPassword ==
  /\ iopc = "password" /\ iopc' = "idle" /\ freeing' = NoConn
  /\ password' = [password EXCEPT ![freeing] = Unused]
  /\ busy' = busy \ {freeing}
  /\ UNCHANGED <<clientVars, tasks, workerVars, login, client_id, id, db, logins,
                 restarts>>

--------------------------------------------------------------------------------
(* The pool threads.                                                             *)

Goto(w, l) == pc' = [pc EXCEPT ![w] = l]

Take(w) ==
  /\ pc[w] = "idle" /\ tasks # <<>>
  /\ Goto(w, Head(tasks).op)
  /\ serving' = [serving EXCEPT ![w] = Head(tasks).conn]
  /\ held' = [held EXCEPT ![w] = Head(tasks).id]
  /\ tasks' = Tail(tasks)
  /\ UNCHANGED <<clientVars, argument, memberVars, ioVars, id, db, logins, restarts>>

\* The last thing both handlers do: post the answer, with the id it is to carry.
PostAnswer(w, i) ==
  /\ tasks' = Append(tasks, Task("answer", serving[w], i))
  /\ Goto(w, "idle")
  /\ serving' = [serving EXCEPT ![w] = NoConn]

SetId(w, i) == client_id' = [client_id EXCEPT ![serving[w]] = i]

SetNames(w) ==
  /\ login' = [login EXCEPT ![serving[w]] = request[serving[w]].login]
  /\ password' = [password EXCEPT ![serving[w]] = request[serving[w]].password]

\* One step: a tear-down in between changes only the answer to a client that left.
DoAutorisation(w) ==
  LET req == request[serving[w]] IN
  /\ pc[w] = "auth"
  /\ SetNames(w)
  /\ \E found \in check_client(req.login, req.password) :
       SetId(w, found) /\ PostAnswer(w, found)
  /\ UNCHANGED <<clientVars, held, argument, busy, ioVars, id, db, logins, restarts>>

\* do_registration: the login and the password go into members, ...
DoRegistration(w) ==
  /\ pc[w] = "reg" /\ Goto(w, "lookup")
  /\ SetNames(w)
  /\ UNCHANGED <<clientVars, tasks, serving, held, argument, client_id, busy, ioVars,
                 id, db, logins, restarts>>

\* Mutant: nobody looks whether the login is taken.
NeverTaken(w) ==
  /\ pc[w] = "lookup" /\ Goto(w, "test")
  /\ SetId(w, -1)
  /\ UNCHANGED <<clientVars, tasks, serving, held, argument, login, password, busy,
                 ioVars, id, db, logins, restarts>>

\* ... get_loginid's answer into another, ...
LookUp(w) ==
  /\ pc[w] = "lookup" /\ Goto(w, "test")
  /\ SetId(w, get_loginid(login[serving[w]]))
  /\ UNCHANGED <<clientVars, tasks, serving, held, argument, login, password, busy,
                 ioVars, id, db, logins, restarts>>

\* ... which is then read again: -1 if the login was free, or the client left.
Refuse(w) ==
  /\ pc[w] = "test" /\ client_id[serving[w]] # -1
  /\ SetId(w, -1)
  /\ PostAnswer(w, -1)
  /\ UNCHANGED <<clientVars, held, argument, login, password, busy, ioVars, id, db,
                 logins, restarts>>

\* generate_client_id: ++id on a counter that all threads share, ...
CountFrom(w) ==
  /\ pc[w] = "test" /\ client_id[serving[w]] = -1
  /\ held' = [held EXCEPT ![w] = id]
  /\ Goto(w, "counted")
  /\ UNCHANGED <<clientVars, tasks, serving, argument, memberVars, ioVars, id, db,
                 logins, restarts>>

\* Mutant: the counter counts down, onto -1.
CountDown(w) ==
  /\ pc[w] = "counted" /\ Goto(w, "copy")
  /\ id' = held[w] - 1
  /\ SetId(w, held[w] - 1)
  /\ held' = [held EXCEPT ![w] = -1]
  /\ UNCHANGED <<clientVars, tasks, serving, argument, login, password, busy, ioVars,
                 db, logins, restarts>>

\* Mutant: the new id does not get into the connection.
CountOnly(w) ==
  /\ pc[w] = "counted" /\ Goto(w, "copy")
  /\ id' = held[w] + 1
  /\ held' = [held EXCEPT ![w] = -1]
  /\ UNCHANGED <<clientVars, tasks, serving, argument, memberVars, ioVars, db, logins,
                 restarts>>

\* ... and the thread's own register written back; ...
Count(w) ==
  /\ pc[w] = "counted" /\ Goto(w, "copy")
  /\ id' = held[w] + 1
  /\ SetId(w, held[w] + 1)
  /\ held' = [held EXCEPT ![w] = -1]
  /\ UNCHANGED <<clientVars, tasks, serving, argument, login, password, busy, ioVars,
                 db, logins, restarts>>

\* ... then the members are copied for add_logins, one after the other, ...
CopyLogin(w) ==
  /\ pc[w] = "copy" /\ Goto(w, "add")
  /\ argument' = [argument EXCEPT ![w] = login[serving[w]]]
  /\ UNCHANGED <<clientVars, tasks, serving, held, memberVars, ioVars, id, db, logins,
                 restarts>>

\* Mutant: the answer is posted for a login that was not added.
AddNothing(w) ==
  LET c == serving[w] IN
  /\ pc[w] = "add"
  /\ argument' = [argument EXCEPT ![w] = None]
  /\ PostAnswer(w, client_id[c])
  /\ UNCHANGED <<clientVars, held, memberVars, ioVars, id, db, logins, restarts>>

\* ... and the row is added.
Add(w) ==
  LET c == serving[w] IN
  /\ pc[w] = "add"
  /\ logins' = add_logins(argument[w], client_id[c], password[c])
  /\ argument' = [argument EXCEPT ![w] = None]
  /\ PostAnswer(w, client_id[c])
  /\ UNCHANGED <<clientVars, held, memberVars, ioVars, id, db, restarts>>

\* do_text_msg: save_text_msg fails, and closes the database.
DoText(w) ==
  /\ pc[w] = "text" /\ Goto(w, "idle")
  /\ serving' = [serving EXCEPT ![w] = NoConn]
  /\ db' = "closed"
  /\ UNCHANGED <<clientVars, tasks, held, argument, memberVars, ioVars, id, logins,
                 restarts>>

\* create_input_response and create_reg_response: status OK unless the id is -1,
\* and the client takes FAIL for a wrong password or a busy login.
Outcome(i) == IF i # -1 THEN "in" ELSE "refused"

\* send_auto_response and send_reg_response.
Answer(w) ==
  LET c == serving[w] IN
  /\ pc[w] = "answer"
  /\ client' = IF client[c] = "waiting" THEN [client EXCEPT ![c] = Outcome(held[w])]
                                        ELSE client
  /\ Goto(w, "idle")
  /\ serving' = [serving EXCEPT ![w] = NoConn]
  /\ held' = [held EXCEPT ![w] = -1]
  /\ UNCHANGED <<request, before, texted, tasks, argument, memberVars, ioVars, id, db,
                 logins, restarts>>

\* The server stops or crashes, and is started again: what is not in the table
\* is lost, id starts at 0, and the database is opened.
Restart ==
  /\ restarts < MaxRestarts
  /\ restarts' = restarts + 1
  /\ client' = [c \in Conn |-> IF client[c] \in {"off", "gone"} THEN client[c] ELSE "lost"]
  /\ tasks' = <<>>
  /\ pc' = [w \in Worker |-> "idle"]
  /\ serving' = [w \in Worker |-> NoConn]
  /\ held' = [w \in Worker |-> -1]
  /\ argument' = [w \in Worker |-> None]
  /\ login' = [c \in Conn |-> None]
  /\ password' = [c \in Conn |-> None]
  /\ client_id' = [c \in Conn |-> -1]
  /\ busy' = {}
  /\ iopc' = "idle" /\ freeing' = NoConn
  /\ id' = 0
  /\ db' = "open"
  /\ UNCHANGED <<request, before, texted, logins>>

Work(w) ==
  \/ Take(w) \/ DoAutorisation(w) \/ DoRegistration(w) \/ LookUp(w) \/ Refuse(w)
  \/ CountFrom(w) \/ Count(w) \/ CopyLogin(w) \/ Add(w) \/ DoText(w) \/ Answer(w)

Next ==
  \/ \E c \in Conn, req \in Request : Ask(c, req)
  \/ \E c \in Conn : Leave(c) \/ SendText(c) \/ FreeConnection(c)
  \/ ResetLogin \/ ResetPassword
  \/ \E w \in Worker : Work(w)
  \/ Restart

Spec == Init /\ [][Next]_vars

--------------------------------------------------------------------------------
(* Properties.                                                                   *)

Rows(table) == {table[k] : k \in 1 .. Len(table)}
Mine(c, row) == row.login = request[c].login
Signed(c, row) == Mine(c, row) /\ row.password = request[c].password

\* A row stored while free_connection reset the members it was made from.
Torn(row) == row.login_id = -1

\* Every variable has its type, a thread serves a connection while it works, and so
\* does the network thread while it frees one.
TypeOK ==
  /\ client \in [Conn -> {"off", "waiting", "in", "refused", "gone", "lost"}]
  /\ request \in [Conn -> Request \cup {NoRequest}]
  /\ before \in [Conn -> Seq(Row)] /\ logins \in Seq(Row)
  /\ texted \subseteq Conn /\ busy \subseteq Conn
  /\ tasks \in Seq([op : {"reg", "auth", "text", "answer"}, conn : Conn, id : Ids])
  /\ pc \in [Worker -> {"idle", "reg", "auth", "lookup", "test", "counted", "copy",
                        "add", "text", "answer"}]
  /\ serving \in [Worker -> Conn \cup {NoConn}]
  /\ \A w \in Worker : pc[w] = "idle" <=> serving[w] = NoConn
  /\ held \in [Worker -> Ids] /\ id \in Nat /\ argument \in [Worker -> Names]
  /\ login \in [Conn -> Names] /\ password \in [Conn -> Secrets]
  /\ client_id \in [Conn -> Ids]
  /\ iopc \in {"idle", "login", "password"} /\ freeing \in Conn \cup {NoConn}
  /\ iopc = "idle" <=> freeing = NoConn
  /\ db \in {"open", "closed"} /\ restarts \in 0 .. MaxRestarts

\* A user who signs in does so with the login, the password and the id of one row,
\* whoever else registers, leaves or sends a login that makes another query of its
\* own select; what such a login gets is not its row.
SignedIn ==
  \A c \in Conn :
    client[c] = "in" /\ request[c].op = "auth" /\ request[c].login \notin Splicing =>
    \E row \in Rows(logins) : Signed(c, row) /\ row.login_id = client_id[c]

\* "Registration successfully completed": who was granted a registration has a row
\* with its login, its password and the id it was told, whatever other
\* connections are registered or freed meanwhile; unless its login or its password
\* breaks the insert or the database was closed.
GrantedIsStored ==
  \A c \in Conn :
    client[c] = "in" /\ request[c].op = "reg" /\ db = "open"
      /\ {request[c].login, request[c].password} \cap Breaking = {} =>
    \E row \in Rows(logins) : Signed(c, row) /\ row.login_id = client_id[c]

\* A login that is in the table when somebody asks for it is not given away
\* again, whatever other registrations run and however often the server restarts;
\* unless the database was closed, or its row is torn and reads as "free".
NotGivenAway ==
  \A c \in Conn : client[c] = "in" /\ request[c].op = "reg" /\ db = "open" =>
    \/ ~ \E row \in Rows(before[c]) : Mine(c, row)
    \/ \E row \in Rows(logins) : Mine(c, row) /\ Torn(row)

\* "check login/password": nobody is turned away whose login and password were in
\* the table, be there other rows of that login or not; unless the database was
\* closed, or a torn row says -1.
NotTurnedAway ==
  \A c \in Conn : client[c] = "refused" /\ request[c].op = "auth" /\ db = "open" =>
    \/ ~ \E row \in Rows(before[c]) : Signed(c, row)
    \/ \E row \in Rows(logins) : Signed(c, row) /\ Torn(row)

\* The row of a registration is the one that was asked for, or its client left
\* while it ran: then "unused" may stand for its login or its password and -1 for
\* its id.  However many clients leave, no other client's row is damaged.
StoredAsAsked ==
  \A row \in Rows(logins) : \E c \in Conn :
    /\ request[c] # NoRequest /\ request[c].op = "reg"
    /\ \/ Signed(c, row) /\ ~ Torn(row)
       \/ /\ client[c] = "gone"
          /\ row.login \in {request[c].login, Unused}
          /\ row.password \in {request[c].password, Unused}

\* "this login is already registered.": no login is registered twice.
OneRowPerLogin ==
  \A j, k \in 1 .. Len(logins) : logins[j].login = logins[k].login => j = k

================================================================================
