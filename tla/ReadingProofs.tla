----------------------------- MODULE ReadingProofs -----------------------------
(* A connection is an inbox, and listens to its client as long as that is there. *)
EXTENDS Reading, SequenceTheorems, TLAPS

\* Pieces that go on where the server has read h requests, and h and a header.
HeaderPair(w, h, i) ==
  /\ 2 * i + 1 <= Len(w) => w[2 * i + 1] = Piece("header", h + i + 1)
  /\ 2 * i + 2 <= Len(w) => w[2 * i + 2] = Piece("body", h + i + 1)
FromHeader(w, h) == \A i \in Nat : HeaderPair(w, h, i)
BodyPair(w, h, i) ==
  /\ 2 * i + 1 <= Len(w) => w[2 * i + 1] = Piece("body", h + i + 1)
  /\ 2 * i + 2 <= Len(w) => w[2 * i + 2] = Piece("header", h + i + 2)
FromBody(w, h) == \A i \in Nat : BodyPair(w, h, i)

\* The stream of a connection: what is read next is the header or the body of the
\* request after the last one posted, and what follows is in order.  All that was
\* sent is on the wire while the client is there.
AtHeader(c) ==
  LET h == Len(handed[c]) IN
  /\ reads[c] = <<HeaderRead>>
  /\ FromHeader(wire[c], h)
  /\ Len(wire[c]) <= 2 * (sent[c] - h)
  /\ client[c] = "on" => Len(wire[c]) = 2 * (sent[c] - h)
AtBody(c) ==
  LET h == Len(handed[c]) IN
  /\ reads[c] = <<Piece("body", h + 1)>>
  /\ FromBody(wire[c], h)
  /\ Len(wire[c]) <= 2 * (sent[c] - h) - 1
  /\ client[c] = "on" => Len(wire[c]) = 2 * (sent[c] - h) - 1

\* After a body read that failed, the next header read can only fail.
Over(c) == c \in cut /\ reads[c] \in {<<>>, <<HeaderRead>>} /\ Fails(c)

\* Not begun; or under way or ended between two requests; or over.
Off(c) ==
  /\ c \notin open /\ c \notin cut /\ sent[c] = 0
  /\ wire[c] = <<>> /\ reads[c] = <<>> /\ handed[c] = <<>>
Live(c) == AtHeader(c) \/ AtBody(c) \/ (client[c] = "gone" /\ reads[c] = <<>>)
Stream(c) ==
  /\ client[c] = "off" => Off(c)
  /\ client[c] = "on" => c \in open
  /\ c \notin cut => buffer_msg[c] = Len(handed[c]) /\ (client[c] # "off" => Live(c))
  /\ c \in cut => client[c] = "gone" /\ Over(c)
  /\ sent[c] <= Len(Requests[c])

\* A task of a client that is there holds the request that its header announced.
WholeTask(task) ==
  client[task.conn] # "gone" =>
    /\ task.body \in 1 .. Len(Requests[task.conn])
    /\ Requests[task.conn][task.body].op = task.op
TaskInv ==
  /\ \A k \in 1 .. Len(tasks) : WholeTask(tasks[k])
  /\ \A w \in Worker : job[w] # NoTask => WholeTask(job[w])

Inv == TypeOK /\ (\A c \in Conn : Stream(c)) /\ TaskInv

--------------------------------------------------------------------------------
(* Streams.                                                                      *)

LEMMA HeaderRead1 ==
  ASSUME NEW w \in Seq(Pieces), NEW h \in Nat, FromHeader(w, h), w # <<>>
  PROVE  Head(w) = Piece("header", h + 1) /\ FromBody(Tail(w), h)
<1>1. Head(w) = Piece("header", h + 1)
  <2>1. HeaderPair(w, h, 0)
    BY DEF FromHeader
  <2> QED BY <2>1 DEF HeaderPair
<1>2. ASSUME NEW i \in Nat PROVE BodyPair(Tail(w), h, i)
  <2>1. HeaderPair(w, h, i) /\ HeaderPair(w, h, i + 1)
    BY DEF FromHeader
  <2>2. Len(Tail(w)) = Len(w) - 1 /\ \A k \in 1 .. Len(Tail(w)) : Tail(w)[k] = w[k + 1]
    OBVIOUS
  <2> QED BY <2>1, <2>2 DEF HeaderPair, BodyPair
<1> QED BY <1>1, <1>2 DEF FromBody

LEMMA BodyRead1 ==
  ASSUME NEW w \in Seq(Pieces), NEW h \in Nat, FromBody(w, h), w # <<>>
  PROVE  Head(w) = Piece("body", h + 1) /\ FromHeader(Tail(w), h + 1)
<1>1. Head(w) = Piece("body", h + 1)
  <2>1. BodyPair(w, h, 0)
    BY DEF FromBody
  <2> QED BY <2>1 DEF BodyPair
<1>2. ASSUME NEW i \in Nat PROVE HeaderPair(Tail(w), h + 1, i)
  <2>1. BodyPair(w, h, i) /\ BodyPair(w, h, i + 1)
    BY DEF FromBody
  <2>2. Len(Tail(w)) = Len(w) - 1 /\ \A k \in 1 .. Len(Tail(w)) : Tail(w)[k] = w[k + 1]
    OBVIOUS
  <2> QED BY <2>1, <2>2 DEF HeaderPair, BodyPair
<1> QED BY <1>1, <1>2 DEF FromHeader

\* What a client writes goes on where it stopped.
LEMMA Written ==
  ASSUME NEW w \in Seq(Pieces), NEW h \in Nat, NEW s \in Nat,
         NEW v, v = w \o <<Piece("header", s + 1), Piece("body", s + 1)>>
  PROVE  /\ v \in Seq(Pieces) /\ Len(v) = Len(w) + 2
         /\ FromHeader(w, h) /\ Len(w) = 2 * (s - h) => FromHeader(v, h)
         /\ FromBody(w, h) /\ Len(w) = 2 * (s - h) - 1 => FromBody(v, h)
<1> DEFINE two == <<Piece("header", s + 1), Piece("body", s + 1)>>
<1>0. two \in Seq(Pieces) /\ Len(two) = 2
  BY DEF Piece, Pieces
<1>1. /\ v \in Seq(Pieces) /\ Len(v) = Len(w) + 2
      /\ \A k \in 1 .. Len(w) : v[k] = w[k]
      /\ v[Len(w) + 1] = Piece("header", s + 1)
      /\ v[Len(w) + 2] = Piece("body", s + 1)
  BY <1>0
<1>2. ASSUME FromHeader(w, h), Len(w) = 2 * (s - h) PROVE FromHeader(v, h)
  <2> SUFFICES ASSUME NEW i \in Nat PROVE HeaderPair(v, h, i)
    BY DEF FromHeader
  <2>1. HeaderPair(w, h, i)
    BY <1>2 DEF FromHeader
  <2>2. CASE 2 * i + 2 <= Len(w)
    <3>1. 2 * i + 1 \in 1 .. Len(w) /\ 2 * i + 2 \in 1 .. Len(w)
      BY <2>2
    <3>2. v[2 * i + 1] = w[2 * i + 1] /\ v[2 * i + 2] = w[2 * i + 2]
      BY <1>1, <3>1
    <3> QED BY <2>1, <2>2, <3>2 DEF HeaderPair
  <2>3. CASE 2 * i = Len(w)
    <3>1. h + i + 1 = s + 1 /\ 2 * i + 1 = Len(w) + 1 /\ 2 * i + 2 = Len(w) + 2
      BY <1>2, <2>3
    <3>2. v[2 * i + 1] = Piece("header", h + i + 1) /\ v[2 * i + 2] = Piece("body", h + i + 1)
      BY <1>1, <3>1
    <3> QED BY <3>2 DEF HeaderPair
  <2>4. CASE 2 * i > Len(w)
    <3>1. 2 * i + 1 > Len(w) + 2
      BY <1>2, <2>4
    <3> QED BY <1>1, <3>1 DEF HeaderPair
  <2> QED BY <1>2, <2>2, <2>3, <2>4
<1>3. ASSUME FromBody(w, h), Len(w) = 2 * (s - h) - 1 PROVE FromBody(v, h)
  <2> SUFFICES ASSUME NEW i \in Nat PROVE BodyPair(v, h, i)
    BY DEF FromBody
  <2>1. BodyPair(w, h, i)
    BY <1>3 DEF FromBody
  <2>2. CASE 2 * i + 2 <= Len(w)
    <3>1. 2 * i + 1 \in 1 .. Len(w) /\ 2 * i + 2 \in 1 .. Len(w)
      BY <2>2
    <3>2. v[2 * i + 1] = w[2 * i + 1] /\ v[2 * i + 2] = w[2 * i + 2]
      BY <1>1, <3>1
    <3> QED BY <2>1, <2>2, <3>2 DEF BodyPair
  <2>3. CASE 2 * i + 1 = Len(w)
    <3>1. /\ 2 * i + 1 \in 1 .. Len(w) /\ 2 * i + 2 = Len(w) + 1
          /\ h + i + 2 = s + 1
      BY <1>3, <2>3
    <3>2. v[2 * i + 1] = w[2 * i + 1] /\ v[2 * i + 2] = Piece("header", h + i + 2)
      BY <1>1, <3>1
    <3> QED BY <2>1, <3>1, <3>2 DEF BodyPair
  <2>4. CASE 2 * i + 1 = Len(w) + 2
    <3>1. h + i + 1 = s + 1 /\ 2 * i + 2 > Len(v)
      BY <1>1, <1>3, <2>4
    <3>2. v[2 * i + 1] = Piece("body", h + i + 1)
      BY <1>1, <2>4, <3>1
    <3> QED BY <3>1, <3>2 DEF BodyPair
  <2>5. CASE 2 * i + 1 > Len(w) + 2
    BY <1>1, <2>5 DEF BodyPair
  <2>6. \/ 2 * i + 2 <= Len(w) \/ 2 * i + 1 = Len(w)
        \/ 2 * i + 1 = Len(w) + 2 \/ 2 * i + 1 > Len(w) + 2
    <3>1. 2 * i + 1 # Len(w) + 1
      BY <1>3
    <3>2. Len(w) \in Nat
      OBVIOUS
    <3> HIDE DEF two
    <3> QED BY <3>1, <3>2
  <2> QED BY <2>2, <2>3, <2>4, <2>5, <2>6
<1> QED BY <1>1, <1>2, <1>3

\* A part of a stream is in order too.
LEMMA Shortened ==
  ASSUME NEW w \in Seq(Pieces), NEW h \in Nat, NEW k \in 0 .. Len(w),
         NEW v, v = SubSeq(w, 1, k)
  PROVE  /\ v \in Seq(Pieces) /\ Len(v) <= Len(w)
         /\ FromHeader(w, h) => FromHeader(v, h)
         /\ FromBody(w, h) => FromBody(v, h)
<1>1. v \in Seq(Pieces) /\ Len(v) = k /\ \A j \in 1 .. k : v[j] = w[j]
  OBVIOUS
<1>2. ASSUME NEW i \in Nat
      PROVE  /\ HeaderPair(w, h, i) => HeaderPair(v, h, i)
             /\ BodyPair(w, h, i) => BodyPair(v, h, i)
  BY <1>1 DEF HeaderPair, BodyPair
<1> QED BY <1>1, <1>2 DEF FromHeader, FromBody

--------------------------------------------------------------------------------
(* The invariant.                                                                *)

LEMMA InvInit == Init => Inv
<1> SUFFICES ASSUME Init PROVE Inv
  OBVIOUS
<1>1. TypeOK
  BY DEF Init, TypeOK
<1>2. ASSUME NEW c \in Conn PROVE Stream(c)
  <2>1. Requests[c] \in Seq([op : Op, length : Nat \ {0}])
    BY RequestsAssumption
  <2> QED BY <2>1 DEF Init, Stream, Off
<1>3. TaskInv
  BY DEF Init, TaskInv
<1> QED BY <1>1, <1>2, <1>3 DEF Inv

\* What a header read may rely on.
LEMMA HeaderUnderWay ==
  ASSUME Inv, NEW c \in Conn, Reads(c, "header")
  PROVE  /\ client[c] # "off" /\ reads[c] = <<HeaderRead>>
         /\ \/ c \notin cut /\ AtHeader(c)
            \/ c \in cut /\ Fails(c) /\ client[c] = "gone"
<1>1. Stream(c)
  BY DEF Inv
<1>2. reads[c] # <<>> /\ Head(reads[c]).part = "header"
  BY DEF Reads
<1>3. client[c] # "off"
  BY <1>1, <1>2 DEF Stream, Off
<1>4. CASE c \in cut
  BY <1>1, <1>2, <1>3, <1>4 DEF Stream, Over
<1>5. CASE c \notin cut
  <2>1. ~ AtBody(c)
    BY <1>2 DEF AtBody, Piece
  <2> QED BY <1>1, <1>2, <1>3, <1>5, <2>1 DEF Stream, Live, AtHeader
<1> QED BY <1>4, <1>5

\* What a body read may rely on: it is of the request after the last one posted.
LEMMA BodyUnderWay ==
  ASSUME Inv, NEW c \in Conn, Reads(c, "body")
  PROVE  LET n == Len(handed[c]) + 1 IN
         /\ client[c] # "off" /\ c \notin cut /\ AtBody(c)
         /\ reads[c] = <<Piece("body", n)>> /\ Head(reads[c]).n = n
         /\ n \in Nat /\ n <= sent[c] /\ n \in 1 .. Len(Requests[c])
         /\ Requests[c][n].op \in Op
<1> DEFINE n == Len(handed[c]) + 1
<1>1. Stream(c) /\ sent[c] \in Nat /\ handed[c] \in Seq([op : Op, body : Body])
      /\ wire[c] \in Seq(Pieces)
  BY DEF Inv, TypeOK
<1>2. reads[c] # <<>> /\ Head(reads[c]).part = "body"
  BY DEF Reads
<1>3. client[c] # "off" /\ reads[c] # <<HeaderRead>>
  BY <1>1, <1>2 DEF Stream, Off, HeaderRead, Piece
<1>4. c \notin cut /\ AtBody(c)
  BY <1>1, <1>2, <1>3 DEF Stream, Over, Live, AtHeader
<1>5. reads[c] = <<Piece("body", n)>> /\ Head(reads[c]).n = n
  BY <1>4 DEF AtBody, Piece
<1>6. n \in Nat /\ n <= sent[c]
  BY <1>1, <1>4 DEF AtBody
<1>7. Requests[c] \in Seq([op : Op, length : Nat \ {0}])
  BY RequestsAssumption
<1>8. n \in 1 .. Len(Requests[c])
  BY <1>1, <1>6, <1>7 DEF Stream
<1>9. Requests[c][n].op \in Op
  <2> HIDE DEF n
  <2>1. Requests[c][n] \in [op : Op, length : Nat \ {0}]
    BY <1>7, <1>8, ElementOfSeq
  <2> QED BY <2>1
<1> QED BY <1>3, <1>4, <1>5, <1>6, <1>8, <1>9

\* What other connections do leaves a stream as it is, and so does closing the
\* socket of a client that left.
LEMMA StreamFrame ==
  ASSUME NEW c \in Conn, Stream(c),
         client'[c] = client[c], sent'[c] = sent[c], wire'[c] = wire[c],
         reads'[c] = reads[c], buffer_msg'[c] = buffer_msg[c], handed'[c] = handed[c],
         c \in cut' <=> c \in cut,
         (c \in open' <=> c \in open) \/ (client[c] = "gone" /\ c \notin open')
  PROVE  Stream(c)'
<1>1. Off(c) /\ client[c] = "off" => Off(c)'
  BY DEF Off
<1>2. (AtHeader(c) => AtHeader(c)') /\ (AtBody(c) => AtBody(c)')
  BY DEF AtHeader, AtBody
<1>3. Live(c) => Live(c)'
  BY <1>2 DEF Live
<1>4. Over(c) => Over(c)'
  BY DEF Over, Fails
<1> QED BY <1>1, <1>3, <1>4 DEF Stream

\* A task goes on holding what it holds; a client that left is not there again.
LEMMA WholeFrame ==
  ASSUME NEW task, WholeTask(task),
         client[task.conn] = "gone" => client'[task.conn] = "gone"
  PROVE  WholeTask(task)'
BY DEF WholeTask

\* Where the pool is left alone, its tasks are as whole as before.
LEMMA TaskFrame ==
  ASSUME Inv, UNCHANGED poolVars,
         \A c \in Conn : client[c] = "gone" => client'[c] = "gone"
  PROVE  TaskInv'
<1>1. tasks \in Seq(Tasks) /\ job \in [Worker -> Tasks \cup {NoTask}] /\ TaskInv
  BY DEF Inv, TypeOK
<1>2. ASSUME NEW k \in 1 .. Len(tasks) PROVE WholeTask(tasks[k])'
  <2>1. tasks[k] \in Tasks
    BY <1>1, ElementOfSeq
  <2>2. tasks[k].conn \in Conn
    BY <2>1 DEF Tasks
  <2> QED BY <1>1, <2>2 DEF TaskInv, WholeTask, poolVars
<1>3. ASSUME NEW w \in Worker, job[w] # NoTask PROVE WholeTask(job[w])'
  <2>1. job[w] \in Tasks /\ job[w].conn \in Conn
    BY <1>1, <1>3 DEF Tasks
  <2> QED BY <1>1, <1>3, <2>1 DEF TaskInv, WholeTask, poolVars
<1> QED BY <1>2, <1>3 DEF TaskInv, poolVars

--------------------------------------------------------------------------------
(* The clients' steps.                                                           *)

LEMMA InvConnect == ASSUME Inv, NEW c \in Conn, Connect(c) PROVE Inv'
<1>1. TypeOK'
  <2>1. <<HeaderRead>> \in Seq(Pieces) /\ Len(<<HeaderRead>>) = 1
    BY DEF HeaderRead, Piece, Pieces
  <2>2. /\ reads' \in [Conn -> Seq(Pieces)] /\ \A d \in Conn : Len(reads'[d]) <= 1
        /\ client' \in [Conn -> {"off", "on", "gone"}] /\ open' \subseteq Conn
    BY <2>1 DEF Inv, TypeOK, Connect
  <2> QED BY <2>2 DEF Inv, TypeOK, Connect, poolVars
<1>2. ASSUME NEW d \in Conn, d # c PROVE Stream(d)'
  BY <1>2, StreamFrame DEF Inv, TypeOK, Connect
<1>3. Stream(c)'
  <2>1. Stream(c) /\ Off(c) /\ c \notin cut /\ buffer_msg[c] = Len(handed[c])
    BY DEF Inv, Stream, Connect, Off
  <2>2. /\ wire'[c] = <<>> /\ handed'[c] = <<>> /\ sent'[c] = 0
        /\ reads'[c] = <<HeaderRead>> /\ client'[c] = "on" /\ c \in open'
        /\ c \notin cut' /\ buffer_msg' = buffer_msg
    BY <2>1 DEF Inv, TypeOK, Connect, Off
  <2>3. AtHeader(c)'
    BY <2>2 DEF AtHeader, FromHeader, HeaderPair
  <2> QED BY <2>1, <2>2, <2>3 DEF Stream, Live, Connect
<1>4. TaskInv'
  BY TaskFrame DEF Inv, TypeOK, Connect
<1> QED BY <1>1, <1>2, <1>3, <1>4 DEF Inv

LEMMA InvSend == ASSUME Inv, NEW c \in Conn, Send(c) PROVE Inv'
<1> DEFINE more == <<Piece("header", sent[c] + 1), Piece("body", sent[c] + 1)>>
<1>0. /\ client[c] = "on" /\ sent[c] + 1 <= Len(Requests[c])
      /\ sent' = [sent EXCEPT ![c] = sent[c] + 1]
      /\ wire' = [wire EXCEPT ![c] = wire[c] \o more]
      /\ UNCHANGED <<client, open, reads, buffer_msg, handed, cut, poolVars>>
  BY DEF Send
<1>1. sent[c] \in Nat /\ handed[c] \in Seq([op : Op, body : Body]) /\ wire[c] \in Seq(Pieces)
      /\ wire \in [Conn -> Seq(Pieces)] /\ sent \in [Conn -> Nat]
  BY DEF Inv, TypeOK
<1>2. /\ wire'[c] = wire[c] \o more /\ wire'[c] \in Seq(Pieces)
      /\ Len(wire'[c]) = Len(wire[c]) + 2
  BY <1>0, <1>1, Written
<1>3. TypeOK'
  <2>1. wire' \in [Conn -> Seq(Pieces)]
    BY <1>0, <1>1, <1>2
  <2>2. sent' \in [Conn -> Nat]
    BY <1>0, <1>1
  <2> QED BY <1>0, <2>1, <2>2 DEF Inv, TypeOK, poolVars
<1>4. ASSUME NEW d \in Conn, d # c PROVE Stream(d)'
  BY <1>0, <1>1, <1>4, StreamFrame DEF Inv
<1>5. Stream(c)'
  <2>1. Stream(c) /\ c \notin cut /\ (AtHeader(c) \/ AtBody(c))
    BY <1>0 DEF Inv, Stream, Live
  <2>2. sent'[c] = sent[c] + 1 /\ Len(handed[c]) \in Nat
    BY <1>0, <1>1
  <2>3. AtHeader(c) => AtHeader(c)'
    <3> SUFFICES ASSUME AtHeader(c) PROVE AtHeader(c)'
      OBVIOUS
    <3>1. FromHeader(wire[c], Len(handed[c])) /\ Len(wire[c]) = 2 * (sent[c] - Len(handed[c]))
      BY <1>0 DEF AtHeader
    <3>2. FromHeader(wire'[c], Len(handed[c]))
      BY <1>1, <1>2, <2>2, <3>1, Written
    <3>3. Len(wire'[c]) = 2 * (sent'[c] - Len(handed[c]))
      BY <1>1, <1>2, <2>2, <3>1, SMTT(30)
    <3> QED BY <1>0, <1>1, <2>2, <3>2, <3>3 DEF AtHeader
  <2>4. AtBody(c) => AtBody(c)'
    <3> SUFFICES ASSUME AtBody(c) PROVE AtBody(c)'
      OBVIOUS
    <3>1. FromBody(wire[c], Len(handed[c])) /\ Len(wire[c]) = 2 * (sent[c] - Len(handed[c])) - 1
      BY <1>0 DEF AtBody
    <3>2. FromBody(wire'[c], Len(handed[c]))
      BY <1>1, <1>2, <2>2, <3>1, Written
    <3>3. Len(wire'[c]) = 2 * (sent'[c] - Len(handed[c])) - 1
      BY <1>1, <1>2, <2>2, <3>1, SMTT(30)
    <3> QED BY <1>0, <1>1, <2>2, <3>2, <3>3 DEF AtBody
  <2> QED BY <1>0, <2>1, <2>2, <2>3, <2>4 DEF Stream, Live
<1>6. TaskInv'
  BY <1>0, TaskFrame
<1> QED BY <1>3, <1>4, <1>5, <1>6 DEF Inv

LEMMA InvLeave == ASSUME Inv, NEW c \in Conn, Leave(c) PROVE Inv'
<1>0. PICK k \in 0 .. Len(wire[c]) : wire' = [wire EXCEPT ![c] = SubSeq(@, 1, k)]
  BY DEF Leave
<1>1. /\ client[c] = "on" /\ client' = [client EXCEPT ![c] = "gone"]
      /\ UNCHANGED <<sent, open, reads, buffer_msg, handed, cut, poolVars>>
      /\ sent[c] \in Nat /\ handed[c] \in Seq([op : Op, body : Body])
      /\ wire \in [Conn -> Seq(Pieces)] /\ wire[c] \in Seq(Pieces)
      /\ client \in [Conn -> {"off", "on", "gone"}]
  BY DEF Leave, Inv, TypeOK
<1>2. /\ wire'[c] = SubSeq(wire[c], 1, k) /\ wire'[c] \in Seq(Pieces)
      /\ Len(wire'[c]) <= Len(wire[c])
  BY <1>0, <1>1, Shortened
<1>3. TypeOK'
  <2>1. wire' \in [Conn -> Seq(Pieces)]
    BY <1>0, <1>1, <1>2
  <2>2. client' \in [Conn -> {"off", "on", "gone"}]
    BY <1>1
  <2> QED BY <1>1, <2>1, <2>2 DEF Inv, TypeOK, poolVars
<1>4. ASSUME NEW d \in Conn, d # c PROVE Stream(d)'
  BY <1>0, <1>1, <1>4, StreamFrame DEF Inv
<1>5. Stream(c)'
  <2>1. Stream(c) /\ c \notin cut /\ (AtHeader(c) \/ AtBody(c))
    BY <1>1 DEF Inv, Stream, Live
  <2>2. client'[c] = "gone" /\ Len(handed[c]) \in Nat
    BY <1>1
  <2>3. AtHeader(c) => AtHeader(c)'
    <3> SUFFICES ASSUME AtHeader(c) PROVE AtHeader(c)'
      OBVIOUS
    <3>1. FromHeader(wire[c], Len(handed[c])) /\ Len(wire[c]) = 2 * (sent[c] - Len(handed[c]))
      BY <1>1 DEF AtHeader
    <3>2. FromHeader(wire'[c], Len(handed[c]))
      BY <1>0, <1>1, <1>2, <2>2, <3>1, Shortened
    <3>3. Len(wire'[c]) <= 2 * (sent[c] - Len(handed[c]))
      BY <1>1, <1>2, <3>1
    <3> QED BY <1>1, <2>2, <3>2, <3>3 DEF AtHeader
  <2>4. AtBody(c) => AtBody(c)'
    <3> SUFFICES ASSUME AtBody(c) PROVE AtBody(c)'
      OBVIOUS
    <3>1. FromBody(wire[c], Len(handed[c])) /\ Len(wire[c]) = 2 * (sent[c] - Len(handed[c])) - 1
      BY <1>1 DEF AtBody
    <3>2. FromBody(wire'[c], Len(handed[c]))
      BY <1>0, <1>1, <1>2, <2>2, <3>1, Shortened
    <3>3. Len(wire'[c]) <= 2 * (sent[c] - Len(handed[c])) - 1
      BY <1>1, <1>2, <3>1
    <3> QED BY <1>1, <2>2, <3>2, <3>3 DEF AtBody
  <2> QED BY <1>1, <2>1, <2>2, <2>3, <2>4 DEF Stream, Live
<1>6. TaskInv'
  BY <1>1, TaskFrame
<1> QED BY <1>3, <1>4, <1>5, <1>6 DEF Inv

--------------------------------------------------------------------------------
(* The network thread's steps.                                                   *)

LEMMA InvHeaderDone == ASSUME Inv, NEW c \in Conn, HeaderDone(c) PROVE Inv'
<1> DEFINE h == Len(handed[c])
<1>1. /\ Reads(c, "header") /\ c \in open /\ wire[c] # <<>>
      /\ reads' = [reads EXCEPT ![c] = Append(Tail(reads[c]), Piece("body", Head(wire[c]).n))]
      /\ wire' = [wire EXCEPT ![c] = Tail(wire[c])]
      /\ UNCHANGED <<client, sent, open, buffer_msg, handed, cut, poolVars>>
  BY DEF HeaderDone, Arrived, StartRead, clientVars
<1>2. /\ wire \in [Conn -> Seq(Pieces)] /\ wire[c] \in Seq(Pieces)
      /\ reads \in [Conn -> Seq(Pieces)] /\ sent[c] \in Nat /\ h \in Nat
  <2>1. handed[c] \in Seq([op : Op, body : Body])
    BY DEF Inv, TypeOK
  <2> QED BY <2>1 DEF Inv, TypeOK
<1>3. /\ client[c] # "off" /\ reads[c] = <<HeaderRead>> /\ c \notin cut /\ AtHeader(c)
  BY <1>1, HeaderUnderWay DEF Fails
<1>4. /\ Head(wire[c]) = Piece("header", h + 1) /\ FromBody(Tail(wire[c]), h)
      /\ Tail(wire[c]) \in Seq(Pieces) /\ Len(Tail(wire[c])) = Len(wire[c]) - 1
  BY <1>1, <1>2, <1>3, HeaderRead1 DEF AtHeader
<1>5. reads'[c] = <<Piece("body", h + 1)>>
  BY <1>1, <1>2, <1>3, <1>4 DEF Piece
<1>6. TypeOK'
  <2>1. reads'[c] \in Seq(Pieces) /\ Len(reads'[c]) = 1
    BY <1>2, <1>5 DEF Piece, Pieces
  <2>2. reads' \in [Conn -> Seq(Pieces)] /\ \A d \in Conn : Len(reads'[d]) <= 1
    BY <1>1, <1>2, <2>1 DEF Inv, TypeOK
  <2>3. wire' \in [Conn -> Seq(Pieces)]
    BY <1>1, <1>2, <1>4
  <2> QED BY <1>1, <2>2, <2>3 DEF Inv, TypeOK, poolVars
<1>7. ASSUME NEW d \in Conn, d # c PROVE Stream(d)'
  BY <1>1, <1>2, <1>7, StreamFrame DEF Inv
<1>8. Stream(c)'
  <2>1. Stream(c)
    BY DEF Inv
  <2>2. wire'[c] = Tail(wire[c]) /\ sent'[c] = sent[c] /\ handed'[c] = handed[c]
    BY <1>1, <1>2
  <2>3. AtBody(c)'
    BY <1>1, <1>2, <1>3, <1>4, <1>5, <2>2 DEF AtBody, AtHeader
  <2> QED BY <1>1, <1>3, <2>1, <2>3 DEF Stream, Live
<1>9. TaskInv'
  BY <1>1, TaskFrame
<1> QED BY <1>6, <1>7, <1>8, <1>9 DEF Inv

LEMMA InvHeaderFails == ASSUME Inv, NEW c \in Conn, HeaderFails(c) PROVE Inv'
<1>1. /\ Reads(c, "header") /\ Fails(c)
      /\ reads' = [reads EXCEPT ![c] = Tail(reads[c])] /\ open' = open \ {c}
      /\ UNCHANGED <<client, sent, wire, buffer_msg, handed, cut, poolVars>>
      /\ reads \in [Conn -> Seq(Pieces)]
  BY DEF HeaderFails, Free, clientVars, Inv, TypeOK
<1>2. Stream(c) /\ client[c] # "off" /\ reads[c] = <<HeaderRead>>
  BY <1>1, HeaderUnderWay DEF Inv
<1>3. client[c] = "gone"
  BY <1>1, <1>2 DEF Stream, Fails, Inv, TypeOK
<1>4. reads'[c] = <<>>
  BY <1>1, <1>2
<1>5. TypeOK'
  <2>0. <<>> \in Seq(Pieces) /\ Len(<<>>) = 0
    OBVIOUS
  <2>1. reads' \in [Conn -> Seq(Pieces)] /\ \A d \in Conn : Len(reads'[d]) <= 1
    BY <1>1, <1>2, <1>4, <2>0 DEF Inv, TypeOK
  <2> QED BY <1>1, <2>1 DEF Inv, TypeOK, poolVars
<1>6. ASSUME NEW d \in Conn, d # c PROVE Stream(d)'
  BY <1>1, <1>6, StreamFrame DEF Inv
<1>7. Stream(c)'
  BY <1>1, <1>2, <1>3, <1>4 DEF Stream, Live, Over, Fails
<1>8. TaskInv'
  BY <1>1, TaskFrame
<1> QED BY <1>5, <1>6, <1>7, <1>8 DEF Inv

\* process_msg: one task more, one read in place of another.
LEMMA Posted ==
  ASSUME Inv, NEW c \in Conn, NEW op \in Op, NEW body \in Body, Reads(c, "body"),
         process_msg(c, op, body), UNCHANGED <<client, job>>,
         client[c] # "gone" =>
           body \in 1 .. Len(Requests[c]) /\ Requests[c][body].op = op
  PROVE  /\ handed'[c] = Append(handed[c], [op |-> op, body |-> body])
         /\ handed' \in [Conn -> Seq([op : Op, body : Body])]
         /\ Len(handed'[c]) = Len(handed[c]) + 1
         /\ reads'[c] = <<HeaderRead>>
         /\ reads' \in [Conn -> Seq(Pieces)] /\ \A d \in Conn : Len(reads'[d]) <= 1
         /\ \A d \in Conn \ {c} : handed'[d] = handed[d] /\ reads'[d] = reads[d]
         /\ tasks' \in Seq(Tasks) /\ TaskInv'
<1> DEFINE entry == [op |-> op, body |-> body]
           task == Task(c, op, body)
<1>1. /\ handed \in [Conn -> Seq([op : Op, body : Body])]
      /\ reads \in [Conn -> Seq(Pieces)] /\ \A d \in Conn : Len(reads[d]) <= 1
      /\ tasks \in Seq(Tasks) /\ job \in [Worker -> Tasks \cup {NoTask}] /\ TaskInv
  BY DEF Inv, TypeOK
<1>2. /\ tasks' = Append(tasks, task)
      /\ handed' = [handed EXCEPT ![c] = Append(handed[c], entry)]
      /\ reads' = [reads EXCEPT ![c] = Append(Tail(reads[c]), HeaderRead)]
  BY DEF process_msg, StartRead
<1>3. entry \in [op : Op, body : Body] /\ task \in Tasks
  BY DEF Task, Tasks
<1>4. /\ handed'[c] = Append(handed[c], entry) /\ Len(handed'[c]) = Len(handed[c]) + 1
      /\ handed' \in [Conn -> Seq([op : Op, body : Body])]
  <2> HIDE DEF entry
  <2>1. handed[c] \in Seq([op : Op, body : Body])
    BY <1>1
  <2>2. /\ Append(handed[c], entry) \in Seq([op : Op, body : Body])
        /\ Len(Append(handed[c], entry)) = Len(handed[c]) + 1
    BY <1>3, <2>1, AppendProperties
  <2> QED BY <1>1, <1>2, <2>2
<1>5. reads'[c] = <<HeaderRead>> /\ reads'[c] \in Seq(Pieces) /\ Len(reads'[c]) = 1
  <2>1. reads[c] = <<Piece("body", Len(handed[c]) + 1)>>
    BY BodyUnderWay
  <2> QED BY <1>1, <1>2, <2>1 DEF HeaderRead, Piece, Pieces
<1>6. tasks' \in Seq(Tasks) /\ Len(tasks') = Len(tasks) + 1
  BY <1>1, <1>2, <1>3, AppendProperties
<1>7. WholeTask(task)'
  BY DEF WholeTask, Task
<1>8. ASSUME NEW t, WholeTask(t) PROVE WholeTask(t)'
  BY <1>8 DEF WholeTask
<1>9. ASSUME NEW k \in 1 .. Len(tasks') PROVE WholeTask(tasks[k])'
  <2> HIDE DEF task
  <2>1. /\ k \in 1 .. Len(tasks) => tasks'[k] = tasks[k]
        /\ k \in 1 .. Len(tasks) \/ tasks'[k] = task
    BY <1>1, <1>2, <1>3, <1>6
  <2>2. CASE k \in 1 .. Len(tasks)
    BY <1>1, <1>8, <2>1, <2>2 DEF TaskInv, WholeTask
  <2>3. CASE tasks'[k] = task
    BY <1>7, <2>3 DEF WholeTask
  <2> QED BY <2>1, <2>2, <2>3
<1>10. TaskInv'
  BY <1>1, <1>8, <1>9 DEF TaskInv, WholeTask
<1>11. /\ reads' \in [Conn -> Seq(Pieces)] /\ \A d \in Conn : Len(reads'[d]) <= 1
       /\ \A d \in Conn \ {c} : handed'[d] = handed[d] /\ reads'[d] = reads[d]
  <2> HIDE DEF entry
  <2>1. DOMAIN reads = Conn /\ DOMAIN handed = Conn
    BY <1>1
  <2>2. \A d \in Conn \ {c} : handed'[d] = handed[d] /\ reads'[d] = reads[d]
    BY <1>2, <2>1
  <2>3. \A d \in Conn : reads'[d] \in Seq(Pieces) /\ Len(reads'[d]) <= 1
    <3> SUFFICES ASSUME NEW d \in Conn PROVE reads'[d] \in Seq(Pieces) /\ Len(reads'[d]) <= 1
      OBVIOUS
    <3>1. CASE d = c
      <4>1. reads'[c] \in Seq(Pieces) /\ Len(reads'[c]) = 1
        BY <1>5
      <4> QED BY <3>1, <4>1
    <3>2. CASE d # c
      BY <1>1, <2>2, <3>2
    <3> QED BY <3>1, <3>2
  <2> QED BY <1>2, <2>1, <2>2, <2>3
<1> QED BY <1>4, <1>5, <1>6, <1>10, <1>11

LEMMA InvBodyDone == ASSUME Inv, NEW c \in Conn, BodyDone(c) PROVE Inv'
<1> DEFINE n == Len(handed[c]) + 1
<1>1. /\ Reads(c, "body") /\ c \in open /\ wire[c] # <<>> /\ Head(reads[c]).n = n
      /\ client[c] # "off" /\ c \notin cut /\ AtBody(c)
      /\ n \in Nat /\ n \in Body /\ n <= sent[c] /\ n \in 1 .. Len(Requests[c])
      /\ Requests[c][n].op \in Op
  BY BodyUnderWay DEF BodyDone, Arrived, Body
<1>2. /\ process_msg(c, Requests[c][n].op, n)
      /\ buffer_msg' = [buffer_msg EXCEPT ![c] = n]
      /\ wire' = [wire EXCEPT ![c] = Tail(wire[c])]
      /\ UNCHANGED <<client, sent, open, cut, job>>
  BY <1>1 DEF BodyDone, clientVars
<1>3. /\ handed' \in [Conn -> Seq([op : Op, body : Body])] /\ Len(handed'[c]) = n
      /\ reads'[c] = <<HeaderRead>>
      /\ reads' \in [Conn -> Seq(Pieces)] /\ \A d \in Conn : Len(reads'[d]) <= 1
      /\ \A d \in Conn \ {c} : handed'[d] = handed[d] /\ reads'[d] = reads[d]
      /\ tasks' \in Seq(Tasks) /\ TaskInv'
  <2> HIDE DEF n
  <2>1. UNCHANGED <<client, job>>
    BY <1>2
  <2> QED BY <1>1, <1>2, <2>1, Posted DEF n
<1> HIDE DEF n
<1>4. wire \in [Conn -> Seq(Pieces)] /\ sent[c] \in Nat /\ Len(handed[c]) = n - 1
      /\ buffer_msg \in [Conn -> Nat]
  <2>1. handed[c] \in Seq([op : Op, body : Body])
    BY DEF Inv, TypeOK
  <2> QED BY <2>1 DEF Inv, TypeOK, n
<1>5. /\ FromHeader(Tail(wire[c]), n)
      /\ Tail(wire[c]) \in Seq(Pieces) /\ Len(Tail(wire[c])) = Len(wire[c]) - 1
  <2>1. FromBody(wire[c], n - 1) /\ n - 1 \in Nat /\ (n - 1) + 1 = n
    BY <1>1, <1>4 DEF AtBody
  <2>2. FromHeader(Tail(wire[c]), (n - 1) + 1)
    BY <1>1, <1>4, <2>1, BodyRead1
  <2> QED BY <1>1, <1>4, <2>1, <2>2
<1>6. TypeOK'
  BY <1>1, <1>2, <1>3, <1>4, <1>5 DEF Inv, TypeOK
<1>7. ASSUME NEW d \in Conn, d # c PROVE Stream(d)'
  BY <1>2, <1>3, <1>4, <1>7, StreamFrame DEF Inv
<1>8. Stream(c)'
  <2>1. Stream(c) /\ wire'[c] = Tail(wire[c]) /\ buffer_msg'[c] = n
    BY <1>2, <1>4 DEF Inv
  <2>2. AtHeader(c)'
    <3>1. /\ Len(wire[c]) \in Nat /\ Len(wire[c]) <= 2 * (sent[c] - (n - 1)) - 1
          /\ client[c] = "on" => Len(wire[c]) = 2 * (sent[c] - (n - 1)) - 1
      BY <1>1, <1>4 DEF AtBody
    <3>2. /\ Len(wire'[c]) <= 2 * (sent[c] - n)
          /\ client[c] = "on" => Len(wire'[c]) = 2 * (sent[c] - n)
      <4> DEFINE before == Len(wire[c])
                 after == Len(wire'[c])
                 s == sent[c]
      <4>1. n \in Nat /\ s \in Nat /\ before \in Nat /\ after = before - 1
        BY <1>1, <1>4, <1>5, <2>1, <3>1
      <4>2. before <= 2 * (s - (n - 1)) - 1 /\ (client[c] = "on" => before = 2 * (s - (n - 1)) - 1)
        BY <3>1
      <4> HIDE DEF before, after, s
      <4>3. after <= 2 * (s - n) /\ (client[c] = "on" => after = 2 * (s - n))
        BY <4>1, <4>2
      <4> QED BY <4>3 DEF after, s
    <3> QED BY <1>2, <1>3, <1>5, <2>1, <3>2 DEF AtHeader
  <2> QED BY <1>1, <1>2, <1>3, <2>1, <2>2 DEF Stream, Live
<1> QED BY <1>3, <1>6, <1>7, <1>8 DEF Inv

\* What a body read that failed leaves is the last body, the one awaited, or neither.
LEMMA LeftOver ==
  ASSUME Inv, NEW c \in Conn, BodyFails(c)
  PROVE  LET n == Len(handed[c]) + 1 IN
         /\ client[c] = "gone" /\ Requests[c][n].op \in Op /\ n <= sent[c]
         /\ c \notin cut /\ Reads(c, "body") /\ Fails(c)
         /\ \E body \in {Damaged, Nothing, n, Len(handed[c])} :
              body \in Body /\ process_msg(c, Requests[c][n].op, body)
<1> DEFINE n == Len(handed[c]) + 1
<1>1. /\ Reads(c, "body") /\ Fails(c) /\ Head(reads[c]).n = n
      /\ client[c] # "off" /\ c \notin cut /\ n \in Nat /\ n <= sent[c]
      /\ Requests[c][n].op \in Op
  BY BodyUnderWay DEF BodyFails
<1>2. Stream(c) /\ buffer_msg[c] = Len(handed[c]) /\ Len(handed[c]) \in Nat
  <2>1. handed[c] \in Seq([op : Op, body : Body])
    BY DEF Inv, TypeOK
  <2> QED BY <1>1, <2>1 DEF Inv, Stream
<1>3. client[c] = "gone"
  BY <1>1, <1>2 DEF Stream, Fails, Inv, TypeOK
<1>4. \E body \in Leftover(c, n) : process_msg(c, Requests[c][n].op, body)
  BY <1>1 DEF BodyFails
<1>5. Leftover(c, n) \subseteq {Damaged, Nothing, n, Len(handed[c])} \cap Body
  BY <1>1, <1>2 DEF Leftover, Body
<1> QED BY <1>1, <1>3, <1>4, <1>5

LEMMA InvBodyFails == ASSUME Inv, NEW c \in Conn, BodyFails(c) PROVE Inv'
<1> DEFINE op == Requests[c][Len(handed[c]) + 1].op
<1>1. PICK body \in Body : process_msg(c, op, body)
  BY LeftOver
<1>2. /\ client[c] = "gone" /\ op \in Op /\ c \notin cut /\ Reads(c, "body") /\ Fails(c)
      /\ cut' = cut \cup {c} /\ UNCHANGED <<client, sent, wire, open, buffer_msg, job>>
  BY LeftOver DEF BodyFails, clientVars
<1> HIDE DEF op
<1>3. /\ handed' \in [Conn -> Seq([op : Op, body : Body])]
      /\ reads'[c] = <<HeaderRead>>
      /\ reads' \in [Conn -> Seq(Pieces)] /\ \A d \in Conn : Len(reads'[d]) <= 1
      /\ \A d \in Conn \ {c} : handed'[d] = handed[d] /\ reads'[d] = reads[d]
      /\ tasks' \in Seq(Tasks) /\ TaskInv'
  <2>1. UNCHANGED <<client, job>>
    BY <1>2
  <2> QED BY <1>1, <1>2, <2>1, Posted
<1>4. TypeOK'
  BY <1>2, <1>3 DEF Inv, TypeOK
<1>5. ASSUME NEW d \in Conn, d # c PROVE Stream(d)'
  BY <1>2, <1>3, <1>5, StreamFrame DEF Inv
<1>6. Stream(c)'
  BY <1>2, <1>3 DEF Stream, Over, Fails, Inv
<1> QED BY <1>3, <1>4, <1>5, <1>6 DEF Inv

LEMMA InvWriteFails == ASSUME Inv, NEW c \in Conn, WriteFails(c) PROVE Inv'
<1>1. /\ client[c] = "gone" /\ open' = open \ {c}
      /\ UNCHANGED <<client, sent, wire, reads, buffer_msg, handed, cut, poolVars>>
  BY DEF WriteFails, Free, clientVars
<1>2. TypeOK'
  BY <1>1 DEF Inv, TypeOK, poolVars
<1>3. ASSUME NEW d \in Conn PROVE Stream(d)'
  BY <1>1, StreamFrame DEF Inv
<1>4. TaskInv'
  BY <1>1, TaskFrame
<1> QED BY <1>2, <1>3, <1>4 DEF Inv

--------------------------------------------------------------------------------
(* The pool's steps.                                                             *)

LEMMA InvTake == ASSUME Inv, NEW w \in Worker, Take(w) PROVE Inv'
<1>1. /\ tasks # <<>> /\ job' = [job EXCEPT ![w] = Head(tasks)] /\ tasks' = Tail(tasks)
      /\ UNCHANGED <<client, sent, wire, open, reads, buffer_msg, handed, cut>>
      /\ tasks \in Seq(Tasks) /\ job \in [Worker -> Tasks \cup {NoTask}] /\ TaskInv
  BY DEF Take, clientVars, Inv, TypeOK
<1>2. /\ Head(tasks) \in Tasks /\ Tail(tasks) \in Seq(Tasks) /\ Head(tasks) = tasks[1]
      /\ 1 \in 1 .. Len(tasks) /\ Len(Tail(tasks)) = Len(tasks) - 1
      /\ \A k \in 1 .. Len(Tail(tasks)) : Tail(tasks)[k] = tasks[k + 1]
                                        /\ k + 1 \in 1 .. Len(tasks)
  BY <1>1, HeadTailProperties
<1>3. TypeOK'
  BY <1>1, <1>2 DEF Inv, TypeOK
<1>4. ASSUME NEW d \in Conn PROVE Stream(d)'
  BY <1>1, StreamFrame DEF Inv
<1>5. TaskInv'
  BY <1>1, <1>2 DEF TaskInv, WholeTask
<1> QED BY <1>3, <1>4, <1>5 DEF Inv

\* No handler frees the connection of a client that is there.
LEMMA InvHandle == ASSUME Inv, NEW w \in Worker, Handle(w) PROVE Inv'
<1>1. /\ job[w] # NoTask /\ job' = [job EXCEPT ![w] = NoTask]
      /\ UNCHANGED <<client, sent, wire, reads, buffer_msg, handed, cut, tasks>>
      /\ tasks \in Seq(Tasks) /\ job \in [Worker -> Tasks \cup {NoTask}] /\ TaskInv
  BY DEF Handle, clientVars, Inv, TypeOK
<1>2. open' = open \/ (client[job[w].conn] = "gone" /\ open' = open \ {job[w].conn})
  <2>1. CASE client[job[w].conn] = "gone"
    BY <2>1 DEF Handle, Free
  <2>2. CASE client[job[w].conn] # "gone"
    <3>1. /\ job[w].body \in Nat
          /\ Requests[job[w].conn][job[w].body].op = job[w].op
      BY <1>1, <2>2 DEF TaskInv, WholeTask
    <3>2. Has(job[w]) = {TRUE}
      BY <3>1 DEF Has
    <3> QED BY <3>2 DEF Handle
  <2> QED BY <2>1, <2>2
<1>3. TypeOK'
  BY <1>1, <1>2 DEF Inv, TypeOK
<1>4. ASSUME NEW d \in Conn PROVE Stream(d)'
  BY <1>1, <1>2, StreamFrame DEF Inv
<1>5. TaskInv'
  BY <1>1 DEF TaskInv, WholeTask
<1> QED BY <1>3, <1>4, <1>5 DEF Inv

--------------------------------------------------------------------------------
(* The theorems.                                                                 *)

LEMMA InvNext == Inv /\ [Next]_vars => Inv'
<1> SUFFICES ASSUME Inv, [Next]_vars PROVE Inv'
  OBVIOUS
<1>1. CASE \E c \in Conn : Connect(c) \/ Send(c) \/ Leave(c) \/ Io(c) \/ WriteFails(c)
  <2>1. PICK c \in Conn : Connect(c) \/ Send(c) \/ Leave(c) \/ Io(c) \/ WriteFails(c)
    BY <1>1
  <2> QED
    BY <2>1, InvConnect, InvSend, InvLeave, InvHeaderDone, InvHeaderFails, InvBodyDone,
       InvBodyFails, InvWriteFails DEF Io
<1>2. CASE \E w \in Worker : Take(w) \/ Handle(w)
  BY <1>2, InvTake, InvHandle
<1>3. CASE UNCHANGED vars
  BY <1>3 DEF vars, clientVars, poolVars, Inv, TypeOK, Stream, Off, Live, AtHeader, AtBody,
              Over, Fails, TaskInv, WholeTask
<1> QED BY <1>1, <1>2, <1>3 DEF Next

\* The streams are in order in every state: do_parse_pb_header and process_msg.
THEOREM StreamsInOrder == Spec => []Inv
<1> QED BY InvInit, InvNext, PTL DEF Spec

\* Every variable has its type, and no two reads of a connection are under way:
\* scan_acception, do_parse_pb_header and process_msg start one each.
THEOREM TypeCorrect == Spec => []TypeOK
<1>1. Inv => TypeOK
  BY DEF Inv
<1> QED BY <1>1, StreamsInOrder, PTL

\* A client that is there is listened to, whatever requests it sends and whatever
\* the connections of others go through: read_pb_header to process_msg, and the
\* handlers' free_connection.
THEOREM ServerListens == Spec => []Listening
<1>1. Inv => Listening
  <2> SUFFICES ASSUME Inv, NEW c \in Conn, client[c] = "on"
               PROVE  /\ c \in open /\ Len(reads[c]) = 1
                      /\ reads[c][1] \in {HeaderRead, Piece("body", Len(handed[c]) + 1)}
    BY DEF Listening
  <2>1. c \in open /\ (AtHeader(c) \/ AtBody(c))
    BY DEF Inv, Stream, Live
  <2>2. reads[c] \in {<<HeaderRead>>, <<Piece("body", Len(handed[c]) + 1)>>}
    BY <2>1 DEF AtHeader, AtBody
  <2>3. ASSUME NEW piece, reads[c] = <<piece>> PROVE Len(reads[c]) = 1 /\ reads[c][1] = piece
    BY <2>3
  <2> QED BY <2>1, <2>2, <2>3
<1> QED BY <1>1, StreamsInOrder, PTL

--------------------------------------------------------------------------------
(* The connection implements the inbox.                                          *)

LEMMA InboxInit == Init => In!Init
BY DEF Init, In!Init, Left

LEMMA InboxSend == ASSUME Inv, NEW c \in Conn, Send(c) PROVE In!Send(c)
<1>1. Requests[c] \in Seq([op : Op, length : Nat \ {0}]) /\ sent[c] \in Nat
  BY RequestsAssumption DEF Inv, TypeOK
<1> QED BY <1>1 DEF Send, In!Send, Left

LEMMA InboxLeave == ASSUME Inv, NEW c \in Conn, Leave(c) PROVE In!Leave(c)
<1>1. client' = [client EXCEPT ![c] = "gone"] /\ client[c] = "on"
  BY DEF Leave
<1>2. c \notin Left /\ Left' = Left \cup {c}
  BY <1>1 DEF Left, Inv, TypeOK
<1> QED BY <1>2 DEF Leave, In!Leave

LEMMA InboxWhole == ASSUME Inv, NEW c \in Conn, BodyDone(c) PROVE In!Whole(c)
<1> DEFINE n == Len(handed[c]) + 1
<1>1. c \notin cut /\ n <= sent[c] /\ Head(reads[c]).n = n
  BY BodyUnderWay DEF BodyDone
<1>2. handed' = [handed EXCEPT ![c] = Append(@, [op |-> Requests[c][n].op, body |-> n])]
  BY <1>1 DEF BodyDone, process_msg
<1> QED BY <1>1, <1>2 DEF BodyDone, clientVars, Left, In!Whole, In!Hand, In!Next_

LEMMA InboxCut == ASSUME Inv, NEW c \in Conn, BodyFails(c) PROVE In!Cut(c)
<1> DEFINE n == Len(handed[c]) + 1
<1>1. PICK body \in {Damaged, Nothing, n, Len(handed[c])} :
        process_msg(c, Requests[c][n].op, body)
  BY LeftOver
<1>2. client[c] = "gone" /\ c \notin cut /\ n <= sent[c]
  BY LeftOver
<1>3. c \in Left /\ UNCHANGED <<sent, Left>> /\ cut' = cut \cup {c}
  BY <1>2 DEF BodyFails, clientVars, Left
<1>4. handed' = [handed EXCEPT ![c] = Append(@, [op |-> Requests[c][n].op, body |-> body])]
  BY <1>1 DEF process_msg
<1> QED BY <1>1, <1>2, <1>3, <1>4 DEF In!Cut, In!Hand, In!Next_

\* Every other step is none of the inbox's.
LEMMA InboxStutters ==
  ASSUME Inv, UNCHANGED <<sent, handed, cut>>,
         UNCHANGED client \/ \E c \in Conn : client' = [client EXCEPT ![c] = "on"]
                                            /\ client[c] = "off"
  PROVE  UNCHANGED In!vars
<1>1. client \in [Conn -> {"off", "on", "gone"}]
  BY DEF Inv, TypeOK
<1>2. Left' = Left
  BY <1>1 DEF Left
<1> QED BY <1>2 DEF In!vars

LEMMA InboxNext == Inv /\ [Next]_vars => [In!Next]_(In!vars)
<1> SUFFICES ASSUME Inv, [Next]_vars PROVE In!Next \/ UNCHANGED In!vars
  OBVIOUS
<1>1. ASSUME NEW c \in Conn, Send(c) \/ Leave(c) \/ BodyDone(c) \/ BodyFails(c)
      PROVE  In!Next
  BY <1>1, InboxSend, InboxLeave, InboxWhole, InboxCut DEF In!Next
<1>2. ASSUME NEW c \in Conn, Connect(c) \/ HeaderDone(c) \/ HeaderFails(c) \/ WriteFails(c)
      PROVE  UNCHANGED In!vars
  BY <1>2, InboxStutters DEF Connect, HeaderDone, HeaderFails, WriteFails, clientVars
<1>3. ASSUME NEW w \in Worker, Take(w) \/ Handle(w) PROVE UNCHANGED In!vars
  BY <1>3, InboxStutters DEF Take, Handle, clientVars
<1>4. ASSUME UNCHANGED vars PROVE UNCHANGED In!vars
  BY <1>4, InboxStutters DEF vars, clientVars
<1> QED BY <1>1, <1>2, <1>3, <1>4 DEF Next, Io

\* Requests are posted in the order they were sent, each once and none skipped, and
\* what a client cut short when it left is the last of them.
THEOREM ConnectionIsInbox == Spec => ImplementsInbox
<1>1. Inv /\ [Next]_vars => [In!Next]_(In!vars)
  BY InboxNext
<1> QED BY InboxInit, <1>1, StreamsInOrder, PTL DEF Spec, In!Spec, ImplementsInbox

================================================================================
