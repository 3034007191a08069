--------------------------- MODULE ChatClientProofs ----------------------------
(* What the windows show of what the Clients were sent, for any number of         *)
(* sign-ins, rooms, texts and signals.                                           *)
EXTENDS ChatClient, FiniteSetTheorems, SequenceTheorems, TLAPS

\* Nothing is known of a Client before its connect_to_server has made it the chat
\* window's, and before there is one the GUI thread has nothing to do.
Starting == {"none", "create", "channels", "chat"}
Published(a) == thread[a] \notin {"none", "create"}
InWindow(a) == thread[a] \notin {"none", "create", "channels"}
Unused(a) ==
  /\ chat_client # a /\ at[a] = "none" /\ a \notin sock /\ asked[a] = {}
  /\ received[a] = 0 /\ joined[a] = {} /\ channels_history[a] = <<>>
FreshInv == \A a \in Attempt : thread[a] \in Starting => Unused(a)
PointersInv ==
  \A a \in Attempt :
    /\ client = a => Published(a)
    /\ channels_client = a => InWindow(a)
    /\ chat_client = a => thread[a] \notin Starting
    /\ Connecting(a) => client = a
    /\ Published(a) => client # NoClient
    /\ InWindow(a) => channels_client # NoClient
StartInv ==
  /\ PointersInv
  /\ chat_client = NoClient =>
       /\ \A a \in Attempt : thread[a] \in Starting
       /\ windows = {"start"} /\ events = <<>> /\ listed = {} /\ gui = "idle"

\* A history has the texts of its Client and room in the order they were read.
Increasing(h) == \A j, k \in 1 .. Len(h) : j < k => h[j].n < h[k].n
StoredInv ==
  \A a \in Attempt : \A r \in DOMAIN channels_history[a] :
    LET h == channels_history[a][r] IN
    /\ \A k \in 1 .. Len(h) : h[k].by = a /\ h[k].room = r /\ h[k].n \in 1 .. received[a]
    /\ Increasing(h)

\* A text is stored before it is signalled, and the signals of a Client's texts come
\* in the order they were read, the one about to be emitted last.
Stored(m) ==
  m.room \in DOMAIN channels_history[m.by] /\ m \in Elements(channels_history[m.by][m.room])
Signalled(m) ==
  \/ emitting[m.by] = TextSignal(m)
  \/ \E k \in 1 .. Len(events) : events[k] = TextSignal(m)
SignalInv ==
  /\ \A m \in Msg : Signalled(m) => Stored(m)
  /\ \A a \in Attempt, m \in Msg : emitting[a] = TextSignal(m) => m.by = a
  /\ \A k \in 1 .. Len(events), l, m \in Msg : events[k] = TextSignal(m) /\ l.by = m.by =>
       /\ emitting[m.by] = TextSignal(l) => m.n < l.n
       /\ \A j \in 1 .. k - 1 : events[j] = TextSignal(l) => l.n < m.n

\* A text shown was read, and is on the screen twice only when its signal is past.
ShownInv ==
  /\ \A m \in Elements(shown) : m.n \in 1 .. received[m.by]
  /\ \A m \in Msg : /\ Times(m, shown) <= 2
                    /\ Signalled(m) => Times(m, shown) <= 1

\* The rooms a Client was told of are keys of its history.
JoinedInv == \A a \in Attempt : joined[a] \subseteq DOMAIN channels_history[a]

\* All rooms about were asked for over some Client.  Room 0 is about only when two
\* Clients are: the current room is then set for the one and read for the other.
Two == \E a, b \in Attempt : a # b /\ Published(a) /\ Published(b)
Known(r) == (\E a \in Attempt : r \in asked[a]) \/ (r = NoRoom /\ Two)
RoomsInv ==
  /\ \A a \in Attempt : \A r \in DOMAIN channels_history[a] : Known(r)
  /\ \A r \in listed : Known(r)
  /\ \A a \in Attempt : current_room[a] = NoRoom \/ Known(current_room[a])
  /\ gui = "upload" \/ "chat" \in windows => Known(current_room[chat_client])

\* When the GUI thread is not between opening a room and showing its history, the
\* screen has the first texts of the room's history, and the rest are signalled.
ShownOf(a) == {m \in Elements(shown) : m.by = a}
ShowsFirst(a, h, k) ==
  /\ ShownOf(a) = {h[j] : j \in 1 .. k}
  /\ \A j \in k + 1 .. Len(h) : Signalled(h[j])
ScreenInv ==
  chat_client # NoClient /\ gui = "idle" =>
    IF current_room[chat_client] \in DOMAIN channels_history[chat_client]
    THEN LET h == channels_history[chat_client][current_room[chat_client]] IN
         \E k \in 0 .. Len(h) : ShowsFirst(chat_client, h, k)
    ELSE ShownOf(chat_client) = {}

Inv ==
  /\ TypeOK /\ FreshInv /\ StartInv /\ StoredInv /\ SignalInv /\ ShownInv
  /\ JoinedInv /\ ListAgrees /\ RoomsInv /\ SentWhereAsked /\ ScreenInv

--------------------------------------------------------------------------------
(* Which actions write which variables.                                          *)

Writers ==
  /\ UNCHANGED client \/ \E a \in Attempt : MakeClient(a)
  /\ UNCHANGED channels_client \/ \E a \in Attempt : SetChannelsClient(a)
  /\ UNCHANGED chat_client \/ \E a \in Attempt : Connect(a)
  /\ \/ UNCHANGED thread
     \/ \E a \in Attempt : \/ SignIn(a) \/ MakeClient(a) \/ SetChannelsClient(a)
                          \/ Connect(a) \/ EndSession(a)
  /\ \/ UNCHANGED at
     \/ \E a \in Attempt : Connect(a) \/ Accepted(a) \/ Refused(a) \/ Emit(a) \/ ReadFails(a)
     \/ \E a \in Attempt, r \in Room : JoinAccepted(a, r) \/ TextRead(a, r)
  /\ \/ UNCHANGED emitting
     \/ \E a \in Attempt : Emit(a) \/ \E r \in Room : JoinAccepted(a, r) \/ TextRead(a, r)
  /\ \/ UNCHANGED sock
     \/ \E a \in Attempt : Connect(a) \/ EndSession(a) \/ Refused(a) \/ ReadFails(a)
  /\ UNCHANGED asked \/ \E r \in Room : AddChannel(r)
  /\ UNCHANGED received \/ \E a \in Attempt, r \in Room : JoinAccepted(a, r) \/ TextRead(a, r)
  /\ UNCHANGED joined \/ \E a \in Attempt, r \in Room : JoinAccepted(a, r)
  /\ UNCHANGED sent \/ SendText
  /\ \/ UNCHANGED channels_history
     \/ UploadHistory
     \/ \E a \in Attempt, r \in Room : JoinAccepted(a, r) \/ TextRead(a, r)
  /\ UNCHANGED current_room \/ \E r \in AnyRoom : OpenChannel(r)
  /\ \/ UNCHANGED events
     \/ ChangeWindow \/ UpdateChannels \/ PrintText
     \/ \E a \in Attempt : Accepted(a) \/ Refused(a) \/ Emit(a)
  /\ UNCHANGED gui \/ UploadHistory \/ \E r \in AnyRoom : OpenChannel(r)
  /\ UNCHANGED windows \/ ChangeWindow \/ UploadHistory \/ Back
  /\ UNCHANGED listed \/ UpdateChannels
  /\ UNCHANGED shown \/ PrintText \/ UploadHistory

LEMMA WritersNext == ASSUME [Next]_vars PROVE Writers
<1> USE DEF clientVars, guiVars, pointers
<1>1. ASSUME NEW a \in Attempt, SignIn(a) PROVE Writers
  <2>1. UNCHANGED <<pointers, at, emitting, sock, asked, received, joined, sent,
                     channels_history, current_room, events, gui, windows, listed,
                     shown>>
    BY <1>1 DEF SignIn
  <2> QED BY <1>1, <2>1 DEF Writers
<1>2. ASSUME NEW a \in Attempt, Connect(a) PROVE Writers
  <2>1. UNCHANGED <<client, channels_client, emitting, asked, received, joined, sent,
                     channels_history, current_room, events, gui, windows, listed,
                     shown>>
    BY <1>2 DEF Connect
  <2> QED BY <1>2, <2>1 DEF Writers
<1>3. ASSUME NEW a \in Attempt, EndSession(a) PROVE Writers
  <2>1. UNCHANGED <<pointers, at, emitting, asked, received, joined, sent,
                     channels_history, current_room, events, gui, windows, listed,
                     shown>>
    BY <1>3 DEF EndSession
  <2> QED BY <1>3, <2>1 DEF Writers
<1>4. ASSUME NEW a \in Attempt, Accepted(a) PROVE Writers
  <2>1. UNCHANGED <<pointers, thread, emitting, sock, asked, received, joined, sent,
                     channels_history, current_room, gui, windows, listed, shown>>
    BY <1>4 DEF Accepted, AtIO
  <2> QED BY <1>4, <2>1 DEF Writers
<1>5. ASSUME NEW a \in Attempt, Refused(a) PROVE Writers
  <2>1. UNCHANGED <<pointers, thread, emitting, asked, received, joined, sent,
                     channels_history, current_room, gui, windows, listed, shown>>
    BY <1>5 DEF Refused, AtIO
  <2> QED BY <1>5, <2>1 DEF Writers
<1>6. ASSUME NEW a \in Attempt, NEW r \in Room, JoinAccepted(a, r) PROVE Writers
  <2>1. UNCHANGED <<pointers, thread, sock, asked, sent, current_room, events, gui,
                     windows, listed, shown>>
    BY <1>6 DEF JoinAccepted, Receive, AtIO
  <2> QED BY <1>6, <2>1 DEF Writers
<1>7. ASSUME NEW a \in Attempt, NEW r \in Room, TextRead(a, r) PROVE Writers
  <2>1. UNCHANGED <<pointers, thread, sock, asked, joined, sent, current_room, events,
                     gui, windows, listed, shown>>
    BY <1>7 DEF TextRead, Receive, AtIO
  <2> QED BY <1>7, <2>1 DEF Writers
<1>8. ASSUME NEW a \in Attempt, Emit(a) PROVE Writers
  <2>1. UNCHANGED <<pointers, thread, sock, asked, received, joined, sent,
                     channels_history, current_room, gui, windows, listed, shown>>
    BY <1>8 DEF Emit, AtIO
  <2> QED BY <1>8, <2>1 DEF Writers
<1>9. ASSUME NEW a \in Attempt, ReadFails(a) PROVE Writers
  <2>1. UNCHANGED <<pointers, thread, emitting, asked, received, joined, sent,
                     channels_history, current_room, events, gui, windows, listed,
                     shown>>
    BY <1>9 DEF ReadFails, AtIO
  <2> QED BY <1>9, <2>1 DEF Writers
<1>10. ASSUME ChangeWindow PROVE Writers
  <2>1. UNCHANGED <<pointers, thread, at, emitting, sock, asked, received, joined, sent,
                     channels_history, current_room, gui, listed, shown>>
    BY <1>10 DEF ChangeWindow, TakeEvent
  <2> QED BY <1>10, <2>1 DEF Writers
<1>11. ASSUME UpdateChannels PROVE Writers
  <2>1. UNCHANGED <<pointers, thread, at, emitting, sock, asked, received, joined, sent,
                     channels_history, current_room, gui, windows, shown>>
    BY <1>11 DEF UpdateChannels, TakeEvent
  <2> QED BY <1>11, <2>1 DEF Writers
<1>12. ASSUME PrintText PROVE Writers
  <2>1. UNCHANGED <<pointers, thread, at, emitting, sock, asked, received, joined, sent,
                     channels_history, current_room, gui, windows, listed>>
    BY <1>12 DEF PrintText, TakeEvent
  <2> QED BY <1>12, <2>1 DEF Writers
<1>13. ASSUME NEW r \in Room, AddChannel(r) PROVE Writers
  <2>1. UNCHANGED <<pointers, thread, at, emitting, sock, received, joined, sent,
                     channels_history, current_room, events, gui, windows, listed,
                     shown>>
    BY <1>13 DEF AddChannel
  <2> QED BY <1>13, <2>1 DEF Writers
<1>14. ASSUME NEW r \in AnyRoom, OpenChannel(r) PROVE Writers
  <2>1. UNCHANGED <<pointers, thread, at, emitting, sock, asked, received, joined, sent,
                     channels_history, events, windows, listed, shown>>
    BY <1>14 DEF OpenChannel
  <2> QED BY <1>14, <2>1 DEF Writers
<1>15. ASSUME UploadHistory PROVE Writers
  <2>1. UNCHANGED <<pointers, thread, at, emitting, sock, asked, received, joined, sent,
                     current_room, events, listed>>
    BY <1>15 DEF UploadHistory
  <2> QED BY <1>15, <2>1 DEF Writers
<1>16. ASSUME SendText PROVE Writers
  <2>1. UNCHANGED <<pointers, thread, at, emitting, sock, asked, received, joined,
                     channels_history, current_room, events, gui, windows, listed,
                     shown>>
    BY <1>16 DEF SendText
  <2> QED BY <1>16, <2>1 DEF Writers
<1>17. ASSUME Back PROVE Writers
  <2>1. UNCHANGED <<pointers, thread, at, emitting, sock, asked, received, joined, sent,
                     channels_history, current_room, events, gui, listed, shown>>
    BY <1>17 DEF Back
  <2> QED BY <1>17, <2>1 DEF Writers
<1>18. ASSUME UNCHANGED vars PROVE Writers
  BY <1>18 DEF vars, Writers
<1>19. ASSUME NEW a \in Attempt, MakeClient(a) PROVE Writers
  <2>1. UNCHANGED <<channels_client, chat_client, at, emitting, sock, asked, received,
                     joined, sent, channels_history, current_room, events, gui, windows,
                     listed, shown>>
    BY <1>19 DEF MakeClient
  <2> QED BY <1>19, <2>1 DEF Writers
<1>20. ASSUME NEW a \in Attempt, SetChannelsClient(a) PROVE Writers
  <2>1. UNCHANGED <<client, chat_client, at, emitting, sock, asked, received, joined,
                     sent, channels_history, current_room, events, gui, windows, listed,
                     shown>>
    BY <1>20 DEF SetChannelsClient
  <2> QED BY <1>20, <2>1 DEF Writers
<1> QED BY <1>1, <1>2, <1>3, <1>4, <1>5, <1>6, <1>7, <1>8, <1>9, <1>10, <1>11,
       <1>12, <1>13, <1>14, <1>15, <1>16, <1>17, <1>18, <1>19, <1>20 DEF Next

--------------------------------------------------------------------------------
(* Histories, and how often an element is in a sequence.                         *)

LEMMA WithType ==
  ASSUME NEW h, IsHistory(h), NEW r \in AnyRoom
  PROVE  /\ IsHistory(With(h, r)) /\ DOMAIN With(h, r) = DOMAIN h \cup {r}
         /\ \A s \in DOMAIN h : With(h, r)[s] = h[s]
         /\ r \notin DOMAIN h => With(h, r)[r] = <<>>
BY DEF IsHistory, With, Has

LEMMA PushType ==
  ASSUME NEW h, IsHistory(h), NEW r \in AnyRoom, NEW m \in Msg
  PROVE  /\ IsHistory(Push(h, r, m)) /\ DOMAIN Push(h, r, m) = DOMAIN h \cup {r}
         /\ \A s \in DOMAIN h \ {r} : Push(h, r, m)[s] = h[s]
         /\ Push(h, r, m)[r] = IF r \in DOMAIN h THEN Append(h[r], m) ELSE <<m>>
<1> DEFINE w == With(h, r)
<1>1. /\ IsHistory(w) /\ DOMAIN w = DOMAIN h \cup {r}
      /\ \A s \in DOMAIN h : w[s] = h[s]
      /\ r \notin DOMAIN h => w[r] = <<>>
  BY WithType
<1>2. Push(h, r, m) = [w EXCEPT ![r] = Append(w[r], m)]
  BY DEF Push
<1> HIDE DEF w
<1>3. w \in [DOMAIN w -> Seq(Msg)] /\ w[r] \in Seq(Msg) /\ Append(w[r], m) \in Seq(Msg)
  BY <1>1 DEF IsHistory
<1>4. Append(<<>>, m) = <<m>>
  OBVIOUS
<1>5. Push(h, r, m)[r] = Append(w[r], m)
  BY <1>1, <1>2, <1>3
<1>6. Push(h, r, m)[r] = IF r \in DOMAIN h THEN Append(h[r], m) ELSE <<m>>
  BY <1>1, <1>4, <1>5
<1>7. IsHistory(Push(h, r, m)) /\ DOMAIN Push(h, r, m) = DOMAIN w
  BY <1>1, <1>2, <1>3 DEF IsHistory
<1>8. \A s \in DOMAIN h \ {r} : Push(h, r, m)[s] = h[s]
  BY <1>1, <1>2, <1>3
<1> QED BY <1>1, <1>6, <1>7, <1>8

LEMMA ElementsAppend ==
  ASSUME NEW S, NEW s \in Seq(S), NEW x \in S
  PROVE  Elements(Append(s, x)) = Elements(s) \cup {x}
<1>1. /\ Len(Append(s, x)) = Len(s) + 1 /\ Len(s) \in Nat
      /\ \A k \in 1 .. Len(s) : Append(s, x)[k] = s[k]
      /\ Append(s, x)[Len(s) + 1] = x
  OBVIOUS
<1> DEFINE a == Append(s, x)
<1> HIDE DEF a
<1>2. \A y : (\E k \in 1 .. Len(a) : y = a[k]) <=> y = x \/ \E k \in 1 .. Len(s) : y = s[k]
  BY <1>1 DEF a
<1>3. \A y : y \in Elements(a) <=> y = x \/ y \in Elements(s)
  BY <1>2 DEF Elements
<1> QED BY <1>3 DEF a

LEMMA TimesType ==
  ASSUME NEW S, NEW s \in Seq(S), NEW x
  PROVE  /\ IsFiniteSet({k \in 1 .. Len(s) : s[k] = x}) /\ Times(x, s) \in Nat
         /\ x \notin Elements(s) => Times(x, s) = 0
<1> DEFINE P == {k \in 1 .. Len(s) : s[k] = x}
<1>1. IsFiniteSet(1 .. Len(s)) /\ P \subseteq 1 .. Len(s)
  BY FS_Interval
<1>2. IsFiniteSet(P)
  BY <1>1, FS_Subset
<1>3. Times(x, s) \in Nat
  BY <1>2, FS_CardinalityType DEF Times
<1>4. ASSUME x \notin Elements(s) PROVE Times(x, s) = 0
  <2>1. P = {}
    BY <1>4 DEF Elements
  <2> QED BY <2>1, FS_EmptySet DEF Times
<1> QED BY <1>2, <1>3, <1>4

LEMMA TimesAppend ==
  ASSUME NEW S, NEW s \in Seq(S), NEW y \in S, NEW x
  PROVE  Times(x, Append(s, y)) = IF x = y THEN Times(x, s) + 1 ELSE Times(x, s)
<1> DEFINE a == Append(s, y)
           P == {k \in 1 .. Len(s) : s[k] = x}
           Q == {k \in 1 .. Len(a) : a[k] = x}
           l == Len(s) + 1
<1>1. /\ Len(a) = l /\ Len(s) \in Nat
      /\ \A k \in 1 .. Len(s) : a[k] = s[k]
      /\ a[l] = y
  OBVIOUS
<1>2. IsFiniteSet(P) /\ Times(x, s) = Cardinality(P) /\ Times(x, a) = Cardinality(Q) /\ l \notin P
  <2>1. IsFiniteSet(P)
    BY TimesType
  <2>2. l \notin P
    BY <1>1
  <2> QED BY <2>1, <2>2 DEF Times
<1>3. Q = IF x = y THEN P \cup {l} ELSE P
  <2> HIDE DEF a
  <2> QED BY <1>1
<1> HIDE DEF P, Q, l
<1>4. Cardinality(P \cup {l}) = Cardinality(P) + 1
  BY <1>2, FS_AddElement
<1> QED BY <1>2, <1>3, <1>4

LEMMA TimesAlone ==
  ASSUME NEW s, NEW x, \A j, k \in 1 .. Len(s) : s[j] = x /\ s[k] = x => j = k
  PROVE  Times(x, s) <= 1
<1> DEFINE P == {k \in 1 .. Len(s) : s[k] = x}
<1>0. \A j, k \in P : j = k
  OBVIOUS
<1>1. P = {} \/ \E k : P = {k}
  <2> HIDE DEF P
  <2>1. CASE P # {}
    <3>1. PICK k : k \in P
      BY <2>1
    <3>2. P = {k}
      BY <1>0, <3>1
    <3> QED BY <3>2
  <2> QED BY <2>1
<1>2. Cardinality(P) <= 1
  <2> HIDE DEF P
  <2>1. CASE P = {}
    BY <2>1, FS_EmptySet
  <2>2. CASE \E k : P = {k}
    <3>1. PICK k : P = {k}
      BY <2>2
    <3>2. Cardinality({k}) = 1
      BY FS_Singleton
    <3> QED BY <3>1, <3>2
  <2> QED BY <1>1, <2>1, <2>2
<1> QED BY <1>2 DEF Times

\* What increases holds nothing twice.
LEMMA TimesOnce ==
  ASSUME NEW h \in Seq(Msg), Increasing(h), NEW m
  PROVE  Times(m, h) <= 1
<1>1. \A k \in 1 .. Len(h) : h[k].n \in Nat
  <2>1. \A k \in 1 .. Len(h) : h[k] \in Msg
    OBVIOUS
  <2> QED BY <2>1 DEF Msg
<1>2. \A j, k \in 1 .. Len(h) : h[j] = m /\ h[k] = m => j = k
  <2> SUFFICES ASSUME NEW j \in 1 .. Len(h), NEW k \in 1 .. Len(h), h[j] = m, h[k] = m,
                      j < k
               PROVE  FALSE
    OBVIOUS
  <2> QED BY <1>1 DEF Increasing
<1> QED BY <1>2, TimesAlone

LEMMA TailIs ==
  ASSUME NEW S, NEW s \in Seq(S), s # <<>>
  PROVE  /\ Tail(s) \in Seq(S) /\ Len(s) \in Nat /\ Len(s) > 0 /\ Len(Tail(s)) = Len(s) - 1
         /\ Head(s) \in S /\ Head(s) = s[1]
         /\ \A k \in 1 .. Len(s) - 1 : Tail(s)[k] = s[k + 1]
OBVIOUS

--------------------------------------------------------------------------------
(* What a step does to the histories and to the GUI thread's queue.              *)

\* The GUI thread has something to do only once its windows have Clients.
LEMMA ClientThere ==
  ASSUME TypeOK, StartInv,
         gui = "upload" \/ events # <<>> \/ listed # {} \/ windows # {"start"}
           \/ \E a \in Attempt : thread[a] \in {"run", "done"}
  PROVE  /\ client \in Attempt /\ client # NoClient
         /\ channels_client \in Attempt /\ channels_client # NoClient
         /\ chat_client \in Attempt /\ chat_client # NoClient
<1>1. chat_client \in Attempt /\ chat_client # NoClient
  BY DEF TypeOK, StartInv, Starting
<1>2. thread[chat_client] \notin Starting
  BY <1>1 DEF StartInv, PointersInv
<1>3. Published(chat_client) /\ InWindow(chat_client)
  BY <1>2 DEF Published, InWindow, Starting
<1> QED BY <1>1, <1>3 DEF TypeOK, StartInv, PointersInv

\* A sign-in gives the windows its own Client.
LEMMA OwnClient ==
  ASSUME TypeOK, StartInv, NEW a \in Attempt
  PROVE  /\ SetChannelsClient(a) => channels_client' = a
         /\ Connect(a) => chat_client' = a
BY DEF SetChannelsClient, Connect, Connecting, StartInv, PointersInv

LEMMA SignalType ==
  /\ \A k \in {"update", "accepted", "refused"} :
       Plain(k) \in Signal /\ \A m : Plain(k) # TextSignal(m)
  /\ \A m \in Msg : TextSignal(m) \in Signal /\ TextSignal(m) # NoEvent
  /\ \A l, m : TextSignal(l) = TextSignal(m) => l = m
<1>1. \A k \in {"update", "accepted", "refused"} :
        Plain(k) \in Signal /\ \A m : Plain(k) # TextSignal(m)
  <2> SUFFICES ASSUME NEW k \in {"update", "accepted", "refused"}, NEW m
               PROVE  Plain(k) \in Signal /\ Plain(k) # TextSignal(m)
    OBVIOUS
  <2>1. Plain(k).kind = k /\ TextSignal(m).kind = "text"
    BY DEF Plain, TextSignal
  <2>2. Plain(k) # TextSignal(m)
    BY <2>1
  <2> QED BY <2>2 DEF Plain, Signal
<1>2. \A m \in Msg : TextSignal(m) \in Signal
  BY DEF TextSignal, Signal
<1>3. \A l, m : TextSignal(l) = TextSignal(m) => l = m
  <2>1. \A m : TextSignal(m).msg = m
    BY DEF TextSignal
  <2> QED BY <2>1
<1> QED BY <1>1, <1>2, <1>3, EventAssumption

LEMMA TextSignals ==
  ASSUME NEW s \in Signal, s.kind = "text"
  PROVE  s.msg \in Msg /\ s = TextSignal(s.msg)
<1>1. s \in [kind : {"text"}, msg : Msg]
  BY DEF Signal
<1> QED BY <1>1 DEF TextSignal

LEMMA ReadText ==
  ASSUME TypeOK, NEW a \in Attempt, NEW r \in Room
  PROVE  LET m == Text(a, received[a] + 1, r) IN
         m \in Msg /\ m.by = a /\ m.n = received[a] + 1 /\ m.room = r
BY DEF TypeOK, Text, Msg

\* A handler that stores a text or a room has read it, and has no other to emit.
LEMMA ReceiveNext ==
  ASSUME TypeOK, NEW a \in Attempt, NEW r \in Room, Receive(a, r)
  PROVE  /\ at[a] = "read" /\ emitting[a] = NoEvent /\ r \in asked[a]
         /\ received[a] \in Nat /\ received' = [received EXCEPT ![a] = received[a] + 1]
         /\ at' = [at EXCEPT ![a] = "emit"]
         /\ UNCHANGED <<pointers, thread, sock, asked, sent, current_room, events,
                        gui, windows, listed, shown>>
BY DEF TypeOK, Receive, AtIO, guiVars, pointers

LEMMA HistoryNext ==
  ASSUME TypeOK, StartInv, [Next]_vars
  PROVE  /\ channels_history' = [a \in Attempt |-> channels_history'[a]]
         /\ \A a \in Attempt :
              \/ channels_history'[a] = channels_history[a]
              \/ \E r \in AnyRoom :
                   /\ channels_history'[a] = With(channels_history[a], r)
                   /\ \/ r \in Room /\ JoinAccepted(a, r)
                      \/ UploadHistory /\ a = chat_client /\ r = current_room[chat_client]
              \/ \E r \in Room :
                   /\ TextRead(a, r)
                   /\ channels_history'[a] =
                        Push(channels_history[a], r, Text(a, received[a] + 1, r))
<1> DEFINE H == channels_history
           OK == /\ H' = [a \in Attempt |-> H'[a]]
                 /\ \A a \in Attempt :
                      \/ H'[a] = H[a]
                      \/ \E r \in AnyRoom :
                           /\ H'[a] = With(H[a], r)
                           /\ \/ r \in Room /\ JoinAccepted(a, r)
                              \/ UploadHistory /\ a = chat_client /\ r = current_room[chat_client]
                      \/ \E r \in Room :
                           /\ TextRead(a, r)
                           /\ H'[a] = Push(H[a], r, Text(a, received[a] + 1, r))
<1>0. H = [a \in Attempt |-> H[a]]
  BY DEF TypeOK
<1>1. ASSUME NEW a \in Attempt, NEW r \in Room, JoinAccepted(a, r) PROVE OK
  <2>1. H' = [H EXCEPT ![a] = With(H[a], r)] /\ r \in AnyRoom
    BY <1>1 DEF JoinAccepted, AnyRoom
  <2> QED BY <1>0, <1>1, <2>1
<1>2. ASSUME NEW a \in Attempt, NEW r \in Room, TextRead(a, r) PROVE OK
  <2>1. H' = [H EXCEPT ![a] = Push(H[a], r, Text(a, received[a] + 1, r))]
    BY <1>2 DEF TextRead
  <2> QED BY <1>0, <1>2, <2>1
<1>3. ASSUME UploadHistory PROVE OK
  <2>1. chat_client \in Attempt
    BY <1>3, ClientThere DEF UploadHistory
  <2>2. H' = [H EXCEPT ![chat_client] = With(H[chat_client], current_room[chat_client])]
    BY <1>3 DEF UploadHistory
  <2>3. current_room[chat_client] \in AnyRoom
    BY <2>1 DEF TypeOK
  <2> QED BY <1>0, <1>3, <2>1, <2>2, <2>3
<1>4. ASSUME UNCHANGED channels_history PROVE OK
  BY <1>0, <1>4
<1>5. OK
  <2> HIDE DEF OK
  <2> QED BY <1>1, <1>2, <1>3, <1>4, WritersNext DEF Writers
<1> QED BY <1>5

LEMMA EventsNext ==
  ASSUME TypeOK, [Next]_vars
  PROVE  \/ UNCHANGED events
         \/ \E k \in {"accepted", "refused"} : events' = Append(events, Plain(k))
         \/ \E a \in Attempt : /\ Emit(a) /\ emitting[a] \in Signal
                               /\ events' = Append(events, emitting[a])
         \/ /\ ChangeWindow \/ UpdateChannels \/ PrintText
            /\ events # <<>> /\ events' = Tail(events)
<1>1. ASSUME NEW a \in Attempt, Accepted(a) \/ Refused(a)
      PROVE  \E k \in {"accepted", "refused"} : events' = Append(events, Plain(k))
  BY <1>1 DEF Accepted, Refused
<1>2. ASSUME NEW a \in Attempt, Emit(a)
      PROVE  emitting[a] \in Signal /\ events' = Append(events, emitting[a])
  BY <1>2 DEF Emit, AtIO, TypeOK
<1>3. ASSUME ChangeWindow \/ UpdateChannels \/ PrintText
      PROVE  events # <<>> /\ events' = Tail(events)
  BY <1>3 DEF ChangeWindow, UpdateChannels, PrintText, TakeEvent
<1> QED BY <1>1, <1>2, <1>3, WritersNext DEF Writers

LEMMA EmittingNext ==
  ASSUME TypeOK, FreshInv, [Next]_vars
  PROVE  /\ emitting' \in [Attempt -> Signal \cup {NoEvent}]
         /\ \A a \in Attempt :
              \/ emitting'[a] = emitting[a] /\ (at'[a] = "emit" <=> at[a] = "emit")
              \/ /\ Emit(a) /\ at[a] = "emit" /\ emitting[a] \in Signal
                 /\ emitting'[a] = NoEvent /\ at'[a] = "read"
              \/ \E r \in Room :
                   /\ JoinAccepted(a, r) /\ emitting[a] = NoEvent
                   /\ emitting'[a] = Plain("update") /\ at'[a] = "emit"
              \/ \E r \in Room :
                   /\ TextRead(a, r) /\ emitting[a] = NoEvent
                   /\ emitting'[a] = TextSignal(Text(a, received[a] + 1, r))
                   /\ at'[a] = "emit"
<1> DEFINE OK(a) ==
             \/ emitting'[a] = emitting[a] /\ (at'[a] = "emit" <=> at[a] = "emit")
             \/ /\ Emit(a) /\ at[a] = "emit" /\ emitting[a] \in Signal
                /\ emitting'[a] = NoEvent /\ at'[a] = "read"
             \/ \E r \in Room :
                  /\ JoinAccepted(a, r) /\ emitting[a] = NoEvent
                  /\ emitting'[a] = Plain("update") /\ at'[a] = "emit"
             \/ \E r \in Room :
                  /\ TextRead(a, r) /\ emitting[a] = NoEvent
                  /\ emitting'[a] = TextSignal(Text(a, received[a] + 1, r))
                  /\ at'[a] = "emit"
           All == emitting' \in [Attempt -> Signal \cup {NoEvent}] /\ \A a \in Attempt : OK(a)
<1>0. /\ emitting \in [Attempt -> Signal \cup {NoEvent}]
      /\ at \in [Attempt -> {"none", "answer", "read", "emit", "stopped"}]
      /\ \A a \in Attempt : at[a] = "emit" <=> emitting[a] # NoEvent
  BY DEF TypeOK
<1>1. ASSUME NEW a \in Attempt, NEW r \in Room, JoinAccepted(a, r) PROVE All
  <2>1. emitting' = [emitting EXCEPT ![a] = Plain("update")] /\ Receive(a, r)
    BY <1>1 DEF JoinAccepted
  <2>2. at' = [at EXCEPT ![a] = "emit"] /\ emitting[a] = NoEvent
    BY <2>1, ReceiveNext
  <2>3. Plain("update") \in Signal
    BY SignalType
  <2>4. OK(a)
    BY <1>0, <1>1, <2>1, <2>2
  <2>5. \A b \in Attempt \ {a} : OK(b)
    BY <1>0, <2>1, <2>2
  <2>6. emitting' \in [Attempt -> Signal \cup {NoEvent}]
    BY <1>0, <2>1, <2>3
  <2> QED BY <2>4, <2>5, <2>6
<1>2. ASSUME NEW a \in Attempt, NEW r \in Room, TextRead(a, r) PROVE All
  <2> DEFINE s == TextSignal(Text(a, received[a] + 1, r))
  <2>1. emitting' = [emitting EXCEPT ![a] = s] /\ Receive(a, r)
    BY <1>2 DEF TextRead
  <2>2. at' = [at EXCEPT ![a] = "emit"] /\ emitting[a] = NoEvent
    BY <2>1, ReceiveNext
  <2>3. s \in Signal
    BY SignalType, ReadText
  <2> HIDE DEF s
  <2>4. emitting'[a] = s /\ at'[a] = "emit"
    BY <1>0, <2>1, <2>2
  <2>5. OK(a)
    BY <1>2, <2>2, <2>4 DEF s
  <2>6. \A b \in Attempt \ {a} : OK(b)
    BY <1>0, <2>1, <2>2
  <2>7. emitting' \in [Attempt -> Signal \cup {NoEvent}]
    BY <1>0, <2>1, <2>3
  <2> QED BY <2>5, <2>6, <2>7
<1>3. ASSUME NEW a \in Attempt, Emit(a) PROVE All
  <2>1. emitting' = [emitting EXCEPT ![a] = NoEvent] /\ at[a] = "emit"
        /\ at' = [at EXCEPT ![a] = "read"]
    BY <1>3 DEF Emit, AtIO
  <2>2. OK(a)
    BY <1>0, <1>3, <2>1
  <2>3. \A b \in Attempt \ {a} : OK(b)
    BY <1>0, <2>1
  <2> QED BY <1>0, <2>1, <2>2, <2>3
<1>4. ASSUME UNCHANGED emitting,
             \A a \in Attempt : at'[a] = "emit" <=> at[a] = "emit"
      PROVE  All
  BY <1>0, <1>4
<1>5. ASSUME NEW a \in Attempt, Connect(a) PROVE All
  <2>1. /\ UNCHANGED emitting /\ at[a] = "none"
        /\ at' = [at EXCEPT ![a] = "answer"] \/ at' = [at EXCEPT ![a] = "stopped"]
    BY <1>5 DEF Connect, FreshInv, Unused, Starting
  <2> QED BY <1>0, <1>4, <2>1
<1>6. ASSUME NEW a \in Attempt, Accepted(a) \/ Refused(a) \/ ReadFails(a) PROVE All
  <2>1. UNCHANGED emitting /\ at[a] # "emit"
        /\ (at' = [at EXCEPT ![a] = "read"] \/ at' = [at EXCEPT ![a] = "stopped"])
    BY <1>6 DEF Accepted, Refused, ReadFails, AtIO
  <2> QED BY <1>0, <1>4, <2>1
<1>7. All
  <2> HIDE DEF All
  <2> QED BY <1>1, <1>2, <1>3, <1>4, <1>5, <1>6, WritersNext DEF Writers
<1> QED BY <1>7

LEMMA TypeNext == ASSUME TypeOK, FreshInv, StartInv, [Next]_vars PROVE TypeOK'
<1>0. Writers
  BY WritersNext
<1>1. {client', channels_client', chat_client'} \subseteq Attempt \cup {NoClient}
  BY <1>0 DEF Writers, TypeOK, MakeClient, SetChannelsClient, Connect
<1>2. thread' \in [Attempt -> {"none", "create", "channels", "chat", "run", "done"}]
  <2>1. thread \in [Attempt -> {"none", "create", "channels", "chat", "run", "done"}]
    BY DEF TypeOK
  <2>2. \A a \in Attempt :
          SignIn(a) \/ MakeClient(a) \/ SetChannelsClient(a) \/ Connect(a) \/ EndSession(a) =>
            \E to \in {"create", "channels", "chat", "run", "done"} :
              thread' = [thread EXCEPT ![a] = to]
    BY DEF SignIn, MakeClient, SetChannelsClient, Connect, EndSession
  <2> QED BY <1>0, <2>1, <2>2 DEF Writers
<1>3. at' \in [Attempt -> {"none", "answer", "read", "emit", "stopped"}]
  <2>1. at \in [Attempt -> {"none", "answer", "read", "emit", "stopped"}]
    BY DEF TypeOK
  <2>2. \A a \in Attempt :
          Connect(a) \/ Accepted(a) \/ Refused(a) \/ Emit(a) \/ ReadFails(a) =>
            \E to \in {"answer", "read", "stopped"} : at' = [at EXCEPT ![a] = to]
    BY DEF Connect, Accepted, Refused, Emit, ReadFails, AtIO
  <2>3. \A a \in Attempt, r \in Room :
          JoinAccepted(a, r) \/ TextRead(a, r) => at' = [at EXCEPT ![a] = "emit"]
    BY DEF JoinAccepted, TextRead, Receive, AtIO
  <2> QED BY <1>0, <2>1, <2>2, <2>3 DEF Writers
<1>4. /\ emitting' \in [Attempt -> Signal \cup {NoEvent}]
      /\ \A a \in Attempt : at'[a] = "emit" <=> emitting'[a] # NoEvent
  <2>1. /\ emitting' \in [Attempt -> Signal \cup {NoEvent}]
        /\ \A a \in Attempt :
             \/ emitting'[a] = emitting[a] /\ (at'[a] = "emit" <=> at[a] = "emit")
             \/ emitting'[a] = NoEvent /\ at'[a] = "read"
             \/ emitting'[a] = Plain("update") /\ at'[a] = "emit"
             \/ \E r \in Room : /\ at'[a] = "emit"
                                /\ emitting'[a] = TextSignal(Text(a, received[a] + 1, r))
    BY EmittingNext
  <2>2. \A a \in Attempt, r \in Room : TextSignal(Text(a, received[a] + 1, r)) # NoEvent
    BY ReadText, SignalType
  <2>3. Plain("update") # NoEvent
    BY SignalType, EventAssumption
  <2> QED BY <2>1, <2>2, <2>3 DEF TypeOK
<1>5. sock' \subseteq Attempt
  BY <1>0 DEF Writers, TypeOK, Connect, EndSession, Refused, ReadFails
<1>6. asked' \in [Attempt -> SUBSET Room]
  <2>1. asked \in [Attempt -> SUBSET Room]
    BY DEF TypeOK
  <2>2. \A r \in Room : AddChannel(r) =>
          \E R \in {asked[client], asked[client] \cup {r}} :
            asked' = [asked EXCEPT ![client] = R]
    BY DEF AddChannel
  <2> QED BY <1>0, <2>1, <2>2 DEF Writers
<1>7. received' \in [Attempt -> Nat]
  <2>1. received \in [Attempt -> Nat]
    BY DEF TypeOK
  <2>2. \A a \in Attempt, r \in Room : JoinAccepted(a, r) \/ TextRead(a, r) =>
          received' = [received EXCEPT ![a] = received[a] + 1]
    BY DEF JoinAccepted, TextRead, Receive
  <2> QED BY <1>0, <2>1, <2>2 DEF Writers
<1>8. joined' \in [Attempt -> SUBSET Room]
  <2>1. joined \in [Attempt -> SUBSET Room]
    BY DEF TypeOK
  <2>2. \A a \in Attempt, r \in Room : JoinAccepted(a, r) =>
          joined' = [joined EXCEPT ![a] = joined[a] \cup {r}]
    BY DEF JoinAccepted
  <2> QED BY <1>0, <2>1, <2>2 DEF Writers
<1>9. sent' \in [Attempt -> SUBSET AnyRoom]
  <2>1. sent \in [Attempt -> SUBSET AnyRoom] /\ current_room \in [Attempt -> AnyRoom]
    BY DEF TypeOK
  <2>2. SendText => \E R \in {sent[client], sent[client] \cup {current_room[chat_client]}} :
                      sent' = [sent EXCEPT ![client] = R]
    BY DEF SendText
  <2>3. SendText => chat_client \in Attempt
    BY ClientThere DEF SendText
  <2> QED BY <1>0, <2>1, <2>2, <2>3 DEF Writers
<1>10. channels_history' = [a \in Attempt |-> channels_history'[a]]
  BY HistoryNext
<1>11. ASSUME NEW a \in Attempt PROVE IsHistory(channels_history'[a])
  <2>0. IsHistory(channels_history[a])
    BY DEF TypeOK
  <2>1. \/ channels_history'[a] = channels_history[a]
        \/ \E r \in AnyRoom : channels_history'[a] = With(channels_history[a], r)
        \/ \E r \in Room : channels_history'[a] =
             Push(channels_history[a], r, Text(a, received[a] + 1, r))
    BY HistoryNext
  <2>2. \A r \in AnyRoom : IsHistory(With(channels_history[a], r))
    BY <2>0, WithType
  <2>3. ASSUME NEW r \in Room
        PROVE  IsHistory(Push(channels_history[a], r, Text(a, received[a] + 1, r)))
    <3>1. Text(a, received[a] + 1, r) \in Msg /\ r \in AnyRoom
      BY ReadText DEF AnyRoom
    <3> QED BY <2>0, <3>1, PushType
  <2> QED BY <2>0, <2>1, <2>2, <2>3
<1>12. current_room' \in [Attempt -> AnyRoom]
  BY <1>0 DEF Writers, TypeOK, OpenChannel
<1>13. events' \in Seq(Signal)
  <2>0. events \in Seq(Signal)
    BY DEF TypeOK
  <2>1. \A s \in Signal : Append(events, s) \in Seq(Signal)
    BY <2>0
  <2>2. events # <<>> => Tail(events) \in Seq(Signal)
    BY <2>0, TailIs
  <2>3. Plain("accepted") \in Signal /\ Plain("refused") \in Signal
    BY SignalType
  <2> QED BY <2>0, <2>1, <2>2, <2>3, EventsNext
<1>14. shown' \in Seq(Msg)
  <2>0. shown \in Seq(Msg)
    BY DEF TypeOK
  <2>1. CASE PrintText
    <3>1. events # <<>> /\ Head(events) \in Signal /\ Head(events).kind = "text"
      BY <2>1, TailIs DEF PrintText, TakeEvent, TypeOK
    <3>2. Head(events).msg \in Msg
      BY <3>1, TextSignals
    <3>3. shown' = Append(shown, Head(events).msg) \/ shown' = shown
      BY <2>1 DEF PrintText
    <3> QED BY <2>0, <3>2, <3>3
  <2>2. CASE UploadHistory
    <3>1. chat_client \in Attempt
      BY <2>2, ClientThere DEF UploadHistory
    <3>2. IsHistory(channels_history[chat_client]) /\ current_room[chat_client] \in AnyRoom
      BY <3>1 DEF TypeOK
    <3>3. \A r \in AnyRoom : LET h == With(channels_history[chat_client], r) IN
            IsHistory(h) /\ DOMAIN h = DOMAIN channels_history[chat_client] \cup {r}
      BY <3>2, WithType, Zenon
    <3> DEFINE h == With(channels_history[chat_client], current_room[chat_client])
    <3>4. IsHistory(h) /\ current_room[chat_client] \in DOMAIN h
      BY <3>2, <3>3
    <3>5. shown' = h[current_room[chat_client]]
      BY <2>2 DEF UploadHistory
    <3> HIDE DEF h
    <3> QED BY <3>4, <3>5 DEF IsHistory
  <2> QED BY <1>0, <2>0, <2>1, <2>2 DEF Writers
<1>15. gui' \in {"idle", "upload"}
  BY <1>0 DEF Writers, TypeOK, UploadHistory, OpenChannel
<1>16. windows' \subseteq {"start", "channels", "chat"}
  BY <1>0 DEF Writers, TypeOK, ChangeWindow, UploadHistory, Back
<1>17. listed' \subseteq AnyRoom
  <2>1. CASE UpdateChannels
    <3>1. channels_client \in Attempt
      BY <2>1, ClientThere DEF UpdateChannels, TakeEvent
    <3>2. listed' = DOMAIN channels_history[channels_client]
      BY <2>1 DEF UpdateChannels
    <3> QED BY <3>1, <3>2 DEF TypeOK, IsHistory
  <2> QED BY <1>0, <2>1 DEF Writers, TypeOK
<1> QED BY <1>1, <1>2, <1>3, <1>4, <1>5, <1>6, <1>7, <1>8, <1>9, <1>10, <1>11, <1>12,
           <1>13, <1>14, <1>15, <1>16, <1>17 DEF TypeOK

--------------------------------------------------------------------------------
(* What a Client is before it is published, and the windows before there is one. *)

LEMMA ThreadNext ==
  ASSUME TypeOK, [Next]_vars, NEW a \in Attempt
  PROVE  \/ /\ thread'[a] = thread[a]
            /\ ~MakeClient(a) /\ ~SetChannelsClient(a) /\ ~Connect(a) /\ ~EndSession(a)
         \/ thread[a] = "none" /\ thread'[a] = "create"
         \/ MakeClient(a) /\ thread[a] = "create" /\ thread'[a] = "channels"
         \/ SetChannelsClient(a) /\ thread[a] = "channels" /\ thread'[a] = "chat"
         \/ Connect(a) /\ thread[a] = "chat" /\ thread'[a] = "run"
         \/ EndSession(a) /\ thread[a] = "run" /\ thread'[a] = "done"
<1>1. thread \in [Attempt -> {"none", "create", "channels", "chat", "run", "done"}]
  BY DEF TypeOK
<1>2. \A b \in Attempt :
        /\ SignIn(b) => thread[b] = "none" /\ thread' = [thread EXCEPT ![b] = "create"]
        /\ MakeClient(b) => thread[b] = "create" /\ thread' = [thread EXCEPT ![b] = "channels"]
        /\ SetChannelsClient(b) =>
             thread[b] = "channels" /\ thread' = [thread EXCEPT ![b] = "chat"]
        /\ Connect(b) => thread[b] = "chat" /\ thread' = [thread EXCEPT ![b] = "run"]
        /\ EndSession(b) => thread[b] = "run" /\ thread' = [thread EXCEPT ![b] = "done"]
  BY DEF SignIn, MakeClient, SetChannelsClient, Connect, EndSession
<1> QED BY <1>1, <1>2, WritersNext DEF Writers

LEMMA PublishedStays ==
  ASSUME TypeOK, [Next]_vars, NEW a \in Attempt
  PROVE  (Published(a) => Published(a)') /\ (InWindow(a) => InWindow(a)')
BY ThreadNext DEF Published, InWindow

LEMMA FreshNext == ASSUME TypeOK, FreshInv, StartInv, [Next]_vars PROVE FreshInv'
<1> SUFFICES ASSUME NEW a \in Attempt, thread'[a] \in Starting
             PROVE  Unused(a)'
  BY DEF FreshInv, Starting
<1>0. Unused(a) /\ ~Connect(a)
  <2>1. thread[a] \in Starting /\ (Connect(a) => thread'[a] = "run")
    BY ThreadNext DEF Starting, Connect, TypeOK
  <2>2. ~Connect(a)
    BY <2>1 DEF Starting
  <2> QED BY <2>1, <2>2 DEF FreshInv
<1>w. Writers
  BY WritersNext
<1>1. chat_client' # a
  BY <1>0, <1>w, OwnClient DEF Writers, Unused
<1>2. at'[a] = "none"
  <2>1. at[a] = "none" /\ at \in [Attempt -> {"none", "answer", "read", "emit", "stopped"}]
    BY <1>0 DEF Unused, TypeOK
  <2>2. \A b \in Attempt :
          Connect(b) \/ Accepted(b) \/ Refused(b) \/ Emit(b) \/ ReadFails(b) =>
            b # a /\ \E to : at' = [at EXCEPT ![b] = to]
    BY <1>0, <2>1 DEF Connect, Accepted, Refused, Emit, ReadFails, AtIO
  <2>3. \A b \in Attempt, r \in Room :
          JoinAccepted(b, r) \/ TextRead(b, r) =>
            b # a /\ at' = [at EXCEPT ![b] = "emit"]
    BY <2>1 DEF JoinAccepted, TextRead, Receive, AtIO
  <2> QED BY <1>w, <2>1, <2>2, <2>3 DEF Writers
<1>3. a \notin sock'
  BY <1>0, <1>w DEF Writers, Unused, Connect, EndSession, Refused, ReadFails
<1>4. asked'[a] = {}
  <2>1. asked \in [Attempt -> SUBSET Room] /\ asked[a] = {} /\ a \notin sock
    BY <1>0 DEF TypeOK, Unused
  <2>2. \A r \in Room : AddChannel(r) =>
          \E R : asked' = [asked EXCEPT ![client] = R] /\ (client = a => R = asked[a])
    BY <2>1 DEF AddChannel
  <2> QED BY <1>w, <2>1, <2>2 DEF Writers
<1>5. \A b \in Attempt, r \in Room : JoinAccepted(b, r) \/ TextRead(b, r) =>
        b # a /\ received' = [received EXCEPT ![b] = received[b] + 1]
  BY <1>0 DEF JoinAccepted, TextRead, Receive, AtIO, Unused
<1>6. received'[a] = 0
  <2>1. received \in [Attempt -> Nat] /\ received[a] = 0
    BY <1>0 DEF TypeOK, Unused
  <2> QED BY <1>w, <1>5, <2>1 DEF Writers
<1>7. joined'[a] = {}
  <2>1. joined \in [Attempt -> SUBSET Room] /\ joined[a] = {}
    BY <1>0 DEF TypeOK, Unused
  <2>2. \A b \in Attempt, r \in Room : JoinAccepted(b, r) =>
          \E R : joined' = [joined EXCEPT ![b] = R]
    BY DEF JoinAccepted
  <2> QED BY <1>w, <1>5, <2>1, <2>2 DEF Writers
<1>8. channels_history'[a] = <<>>
  <2>1. channels_history'[a] = channels_history[a]
    BY <1>0, <1>5, HistoryNext DEF Unused
  <2> QED BY <1>0, <2>1 DEF Unused
<1> QED BY <1>1, <1>2, <1>3, <1>4, <1>6, <1>7, <1>8 DEF Unused

LEMMA PointersNext == ASSUME TypeOK, StartInv, [Next]_vars PROVE PointersInv'
<1>w. Writers
  BY WritersNext
<1>0. NoClient \notin Attempt
  BY ClientAssumption
<1> SUFFICES ASSUME NEW a \in Attempt
             PROVE  /\ client' = a => Published(a)'
                    /\ channels_client' = a => InWindow(a)'
                    /\ chat_client' = a => thread'[a] \notin Starting
                    /\ Connecting(a)' => client' = a
                    /\ Published(a)' => client' # NoClient
                    /\ InWindow(a)' => channels_client' # NoClient
  BY DEF PointersInv, Starting, Connecting
<1>1. /\ client = a => Published(a)
      /\ channels_client = a => InWindow(a)
      /\ chat_client = a => thread[a] \notin Starting
      /\ Connecting(a) => client = a
      /\ Published(a) => client # NoClient
      /\ InWindow(a) => channels_client # NoClient
  BY DEF StartInv, PointersInv
<1>2. \/ client' = client
      \/ \E b \in Attempt : MakeClient(b) /\ client' = b /\ (a # b => ~Connecting(a))
  BY <1>w DEF Writers, MakeClient
<1>3. channels_client' = channels_client
      \/ \E b \in Attempt : SetChannelsClient(b) /\ channels_client' = b
  BY <1>w, OwnClient DEF Writers
<1>4. chat_client' = chat_client \/ \E b \in Attempt : Connect(b) /\ chat_client' = b
  BY <1>w, OwnClient DEF Writers
<1>5. /\ Published(a)' => Published(a) \/ MakeClient(a)
      /\ InWindow(a)' => InWindow(a) \/ SetChannelsClient(a)
      /\ MakeClient(a) => Published(a)'
      /\ SetChannelsClient(a) => InWindow(a)'
      /\ thread[a] \notin Starting \/ Connect(a) => thread'[a] \notin Starting
      /\ Connecting(a)' => Connecting(a) \/ MakeClient(a)
  <2>1. thread \in [Attempt -> {"none", "create", "channels", "chat", "run", "done"}]
    BY DEF TypeOK
  <2>2. /\ MakeClient(a) => thread'[a] = "channels"
        /\ SetChannelsClient(a) => thread'[a] = "chat"
        /\ Connect(a) => thread'[a] = "run"
    BY <2>1 DEF MakeClient, SetChannelsClient, Connect
  <2>3. \/ thread'[a] = thread[a]
        \/ thread[a] = "none" /\ thread'[a] = "create"
        \/ MakeClient(a) /\ thread[a] = "create" /\ thread'[a] = "channels"
        \/ SetChannelsClient(a) /\ thread[a] = "channels" /\ thread'[a] = "chat"
        \/ Connect(a) /\ thread[a] = "chat" /\ thread'[a] = "run"
        \/ EndSession(a) /\ thread[a] = "run" /\ thread'[a] = "done"
    BY ThreadNext
  <2> QED BY <2>2, <2>3 DEF Published, InWindow, Starting, Connecting
<1>6. (MakeClient(a) => client' = a) /\ (SetChannelsClient(a) => channels_client' = a)
  BY OwnClient DEF MakeClient
<1> QED BY <1>0, <1>1, <1>2, <1>3, <1>4, <1>5, <1>6, PublishedStays

\* Until the chat window has a Client, only the buttons and connect_to_server do
\* anything.
LEMMA StartNext == ASSUME TypeOK, FreshInv, StartInv, [Next]_vars PROVE StartInv'
<1>p. PointersInv'
  BY PointersNext
<1> SUFFICES ASSUME chat_client' = NoClient PROVE StartInv'
  BY <1>p DEF StartInv
<1>w. Writers
  BY WritersNext
<1>1. chat_client = NoClient /\ \A a \in Attempt : ~Connect(a)
  BY <1>w, ClientAssumption, OwnClient DEF Writers
<1>2. /\ \A a \in Attempt : thread[a] \in Starting /\ Unused(a)
      /\ windows = {"start"} /\ events = <<>> /\ listed = {} /\ gui = "idle"
  BY <1>1 DEF StartInv, FreshInv
<1>4. \A a \in Attempt : thread'[a] \in Starting
  BY <1>1, <1>2, ThreadNext DEF Starting
<1>5. ~UploadHistory /\ ~ChangeWindow /\ ~UpdateChannels /\ ~PrintText /\ ~Back
  BY <1>2 DEF UploadHistory, ChangeWindow, UpdateChannels, PrintText, TakeEvent, Back
<1>6. \A r \in AnyRoom : ~OpenChannel(r)
  BY <1>2 DEF OpenChannel
<1>7. \A a \in Attempt : ~Accepted(a) /\ ~Refused(a) /\ ~Emit(a)
  BY <1>2 DEF Accepted, Refused, Emit, AtIO, Unused
<1>8. windows' = {"start"} /\ events' = <<>> /\ listed' = {} /\ gui' = "idle"
  BY <1>w, <1>2, <1>5, <1>6, <1>7 DEF Writers
<1> QED BY <1>p, <1>4, <1>8 DEF StartInv, Starting

--------------------------------------------------------------------------------
(* The histories.                                                                *)

\* A step of the program keeps what was stored; a read counts up.
LEMMA ReceivedNext ==
  ASSUME TypeOK, [Next]_vars, NEW a \in Attempt
  PROVE  received[a] \in Nat /\ received'[a] \in Nat /\ received[a] <= received'[a]
<1>1. received \in [Attempt -> Nat]
  BY DEF TypeOK
<1>2. \A b \in Attempt, r \in Room : JoinAccepted(b, r) \/ TextRead(b, r) =>
        received' = [received EXCEPT ![b] = received[b] + 1]
  BY DEF JoinAccepted, TextRead, Receive
<1>3. received' = received
      \/ \E b \in Attempt : received' = [received EXCEPT ![b] = received[b] + 1]
  BY <1>2, WritersNext DEF Writers
<1> QED BY <1>1, <1>3

LEMMA HistoryIs ==
  ASSUME TypeOK, NEW a \in Attempt, NEW r \in DOMAIN channels_history[a]
  PROVE  /\ r \in AnyRoom /\ channels_history[a][r] \in Seq(Msg)
         /\ Len(channels_history[a][r]) \in Nat
         /\ \A k \in 1 .. Len(channels_history[a][r]) : channels_history[a][r][k] \in Msg
<1>1. r \in AnyRoom /\ channels_history[a][r] \in Seq(Msg)
  BY DEF TypeOK, IsHistory
<1> QED BY <1>1

\* Of one room and Client: what a history is after a step.
LEMMA RoomNext ==
  ASSUME TypeOK, StartInv, [Next]_vars, NEW a \in Attempt
  PROVE  /\ DOMAIN channels_history[a] \subseteq DOMAIN channels_history'[a]
         /\ \A r \in DOMAIN channels_history'[a] :
              \/ /\ r \in DOMAIN channels_history[a]
                 /\ channels_history'[a][r] = channels_history[a][r]
              \/ /\ r \notin DOMAIN channels_history[a] /\ channels_history'[a][r] = <<>>
                 /\ (r \in Room /\ JoinAccepted(a, r))
                     \/ (UploadHistory /\ a = chat_client /\ r = current_room[chat_client])
              \/ /\ r \in Room /\ TextRead(a, r) /\ r \in DOMAIN channels_history[a]
                 /\ channels_history'[a][r] =
                      Append(channels_history[a][r], Text(a, received[a] + 1, r))
              \/ /\ r \in Room /\ TextRead(a, r) /\ r \notin DOMAIN channels_history[a]
                 /\ channels_history'[a][r] = <<Text(a, received[a] + 1, r)>>
<1> DEFINE h == channels_history[a]
<1>0. IsHistory(h)
  BY DEF TypeOK
<1>1. CASE channels_history'[a] = channels_history[a]
  BY <1>1
<1>2. ASSUME NEW r \in AnyRoom, channels_history'[a] = With(h, r),
             \/ r \in Room /\ JoinAccepted(a, r)
             \/ UploadHistory /\ a = chat_client /\ r = current_room[chat_client]
      PROVE  /\ DOMAIN h \subseteq DOMAIN channels_history'[a]
             /\ \A s \in DOMAIN channels_history'[a] :
                  \/ s \in DOMAIN h /\ channels_history'[a][s] = h[s]
                  \/ /\ s \notin DOMAIN h /\ channels_history'[a][s] = <<>>
                     /\ (s \in Room /\ JoinAccepted(a, s))
                         \/ (UploadHistory /\ a = chat_client /\ s = current_room[chat_client])
  <2>1. /\ DOMAIN With(h, r) = DOMAIN h \cup {r}
        /\ \A s \in DOMAIN h : With(h, r)[s] = h[s]
        /\ r \notin DOMAIN h => With(h, r)[r] = <<>>
    BY <1>0, WithType
  <2> QED BY <1>2, <2>1
<1>3. ASSUME NEW r \in Room, TextRead(a, r),
             channels_history'[a] = Push(h, r, Text(a, received[a] + 1, r))
      PROVE  /\ DOMAIN h \subseteq DOMAIN channels_history'[a]
             /\ \A s \in DOMAIN channels_history'[a] :
                  \/ s \in DOMAIN h /\ channels_history'[a][s] = h[s]
                  \/ /\ s \in Room /\ TextRead(a, s) /\ s \in DOMAIN h
                     /\ channels_history'[a][s] =
                          Append(h[s], Text(a, received[a] + 1, s))
                  \/ /\ s \in Room /\ TextRead(a, s) /\ s \notin DOMAIN h
                     /\ channels_history'[a][s] = <<Text(a, received[a] + 1, s)>>
  <2> DEFINE m == Text(a, received[a] + 1, r)
  <2>1. m \in Msg /\ r \in AnyRoom
    BY ReadText DEF AnyRoom
  <2>2. /\ DOMAIN Push(h, r, m) = DOMAIN h \cup {r}
        /\ \A s \in DOMAIN h \ {r} : Push(h, r, m)[s] = h[s]
        /\ Push(h, r, m)[r] = IF r \in DOMAIN h THEN Append(h[r], m) ELSE <<m>>
    BY <1>0, <2>1, PushType
  <2> QED BY <1>3, <2>2
<1> QED BY <1>1, <1>2, <1>3, HistoryNext

\* The text a handler reads is the next one, and it is counted.
LEMMA ReadNext ==
  ASSUME TypeOK, NEW a \in Attempt, NEW r \in Room, TextRead(a, r)
  PROVE  LET m == Text(a, received[a] + 1, r) IN
         /\ m \in Msg /\ m.by = a /\ m.room = r /\ m.n = received[a] + 1
         /\ received[a] \in Nat /\ received'[a] = received[a] + 1 /\ r \in asked[a]
<1>1. received \in [Attempt -> Nat]
  BY DEF TypeOK
<1>2. received' = [received EXCEPT ![a] = received[a] + 1] /\ r \in asked[a]
  BY DEF TextRead, Receive
<1> QED BY <1>1, <1>2, ReadText

LEMMA StoredNext ==
  ASSUME TypeOK, StartInv, StoredInv, [Next]_vars
  PROVE  StoredInv'
<1> SUFFICES ASSUME NEW a \in Attempt, NEW r \in DOMAIN channels_history'[a]
             PROVE  LET h == channels_history'[a][r] IN
                    /\ \A k \in 1 .. Len(h) : h[k].by = a /\ h[k].room = r
                                              /\ h[k].n \in 1 .. received'[a]
                    /\ \A j, k \in 1 .. Len(h) : j < k => h[j].n < h[k].n
  BY DEF StoredInv, Increasing
<1> DEFINE H == channels_history[a][r]
           h == channels_history'[a][r]
           m == Text(a, received[a] + 1, r)
           OK == /\ \A k \in 1 .. Len(h) : h[k].by = a /\ h[k].room = r
                                             /\ h[k].n \in 1 .. received'[a]
                 /\ \A j, k \in 1 .. Len(h) : j < k => h[j].n < h[k].n
<1>1. received[a] \in Nat /\ received'[a] \in Nat /\ received[a] <= received'[a]
  BY ReceivedNext
<1>2. ASSUME r \in DOMAIN channels_history[a]
      PROVE  /\ H \in Seq(Msg) /\ Len(H) \in Nat
             /\ \A k \in 1 .. Len(H) : H[k].by = a /\ H[k].room = r
                                       /\ H[k].n \in 1 .. received[a]
             /\ \A j, k \in 1 .. Len(H) : j < k => H[j].n < H[k].n
  BY <1>2, HistoryIs DEF StoredInv, Increasing
<1>3. ASSUME r \in DOMAIN channels_history[a], h = H PROVE OK
  <2> HIDE DEF H, h
  <2> QED BY <1>1, <1>2, <1>3
<1>4. ASSUME h = <<>> PROVE OK
  BY <1>4
<1>5. ASSUME r \in Room, TextRead(a, r) PROVE OK
  <2>1. /\ m \in Msg /\ m.by = a /\ m.room = r /\ m.n = received[a] + 1
        /\ received'[a] = received[a] + 1
    BY <1>5, ReadNext
  <2> HIDE DEF m
  <2>2. CASE r \in DOMAIN channels_history[a] /\ h = Append(H, m)
    <3>1. /\ Len(h) = Len(H) + 1 /\ h[Len(H) + 1] = m
          /\ \A k \in 1 .. Len(H) : h[k] = H[k]
      BY <1>2, <2>1, <2>2
    <3> HIDE DEF H, h
    <3>2. OK
      BY <1>1, <1>2, <2>1, <2>2, <3>1
    <3> QED BY <3>2
  <2>3. CASE h = <<m>>
    <3>1. Len(h) = 1 /\ h[1] = m
      BY <2>3
    <3> HIDE DEF h
    <3>2. OK
      BY <1>1, <2>1, <3>1
    <3> QED BY <3>2
  <2>4. \/ r \in DOMAIN channels_history[a] /\ h = H
        \/ h = <<>>
        \/ r \in DOMAIN channels_history[a] /\ h = Append(H, m)
        \/ h = <<m>>
    BY RoomNext DEF m
  <2> HIDE DEF OK
  <2> QED BY <1>3, <1>4, <2>2, <2>3, <2>4
<1>6. OK
  <2> HIDE DEF OK
  <2> QED BY <1>3, <1>4, <1>5, RoomNext
<1> QED BY <1>6

LEMMA StoredStays ==
  ASSUME TypeOK, StartInv, [Next]_vars, NEW m \in Msg, Stored(m)
  PROVE  Stored(m)'
<1> DEFINE a == m.by
           r == m.room
<1>1. a \in Attempt /\ r \in DOMAIN channels_history[a]
  BY DEF Msg, Stored
<1> DEFINE H == channels_history[a][r]
           h == channels_history'[a][r]
<1>2. H \in Seq(Msg) /\ \E k \in 1 .. Len(H) : H[k] = m
  BY <1>1, HistoryIs DEF Stored, Elements
<1>3. /\ r \in DOMAIN channels_history'[a]
      /\ \/ h = H
         \/ r \in Room /\ TextRead(a, r) /\ h = Append(H, Text(a, received[a] + 1, r))
  BY <1>1, RoomNext
<1>4. \E k \in 1 .. Len(h) : h[k] = m
  <2>1. CASE h = H
    BY <1>2, <2>1
  <2>2. CASE r \in Room /\ TextRead(a, r) /\ h = Append(H, Text(a, received[a] + 1, r))
    <3>1. Text(a, received[a] + 1, r) \in Msg
      BY <1>1, <2>2, ReadText
    <3>2. H \in Seq(Msg) /\ h = Append(H, Text(a, received[a] + 1, r))
      BY <1>2, <2>2
    <3> HIDE DEF h, H
    <3>3. Len(h) = Len(H) + 1 /\ \A k \in 1 .. Len(H) : h[k] = H[k]
      BY <3>1, <3>2
    <3>4. Len(H) \in Nat
      BY <3>2
    <3> QED BY <1>2, <3>3, <3>4
  <2> QED BY <1>3, <2>1, <2>2
<1> QED BY <1>3, <1>4 DEF Stored, Elements

LEMMA StoredRead ==
  ASSUME TypeOK, StartInv, [Next]_vars, NEW a \in Attempt, NEW r \in Room, TextRead(a, r),
         NEW m, m = Text(a, received[a] + 1, r)
  PROVE  Stored(m)'
<1> DEFINE H == channels_history[a][r]
           h == channels_history'[a][r]
<1>1. m \in Msg /\ m.by = a /\ m.room = r
  BY ReadText
<1>2. channels_history' = [channels_history EXCEPT ![a] = Push(channels_history[a], r, m)]
  BY DEF TextRead
<1>3. channels_history = [b \in Attempt |-> channels_history[b]] /\ IsHistory(channels_history[a])
  BY DEF TypeOK
<1>4. channels_history'[a] = Push(channels_history[a], r, m)
  BY <1>2, <1>3
<1>5. r \in AnyRoom
  BY DEF AnyRoom
<1>6. /\ r \in DOMAIN channels_history'[a]
      /\ h = IF r \in DOMAIN channels_history[a] THEN Append(H, m) ELSE <<m>>
  <2>1. /\ DOMAIN Push(channels_history[a], r, m) = DOMAIN channels_history[a] \cup {r}
        /\ Push(channels_history[a], r, m)[r] =
             IF r \in DOMAIN channels_history[a] THEN Append(H, m) ELSE <<m>>
    BY <1>1, <1>3, <1>5, PushType
  <2> QED BY <1>4, <2>1
<1>7. \E k \in 1 .. Len(h) : h[k] = m
  <2>1. CASE r \in DOMAIN channels_history[a]
    <3>1. H \in Seq(Msg) /\ Len(H) \in Nat
      BY <2>1, HistoryIs
    <3>2. Len(h) = Len(H) + 1 /\ h[Len(H) + 1] = m
      BY <1>1, <1>6, <2>1, <3>1
    <3> HIDE DEF h, H
    <3> QED BY <3>1, <3>2
  <2>2. CASE r \notin DOMAIN channels_history[a]
    <3>1. Len(h) = 1 /\ h[1] = m
      BY <1>6, <2>2
    <3> HIDE DEF h
    <3> QED BY <3>1
  <2> QED BY <2>1, <2>2
<1> QED BY <1>1, <1>6, <1>7 DEF Stored, Elements

--------------------------------------------------------------------------------
(* The signals.                                                                  *)

LEMMA AppendIs ==
  ASSUME NEW S, NEW s \in Seq(S), NEW x \in S
  PROVE  /\ Append(s, x) \in Seq(S) /\ Len(s) \in Nat /\ Len(Append(s, x)) = Len(s) + 1
         /\ Append(s, x)[Len(s) + 1] = x
         /\ \A k \in 1 .. Len(s) : Append(s, x)[k] = s[k]
OBVIOUS

\* What the queue of signals is after a step: as before, one longer, or without its head.
LEMMA QueueNext ==
  ASSUME TypeOK, [Next]_vars
  PROVE  \/ events' = events
         \/ \E s \in Signal :
              /\ events' = Append(events, s)
              /\ \/ \E k \in {"accepted", "refused"} : s = Plain(k)
                 \/ \E a \in Attempt : Emit(a) /\ s = emitting[a]
         \/ /\ events # <<>> /\ events' = Tail(events)
            /\ PrintText \/ Head(events).kind # "text"
<1>1. ASSUME ChangeWindow \/ UpdateChannels PROVE Head(events).kind # "text"
  BY <1>1 DEF ChangeWindow, UpdateChannels
<1>2. Plain("accepted") \in Signal /\ Plain("refused") \in Signal
  BY SignalType
<1> QED BY <1>1, <1>2, EventsNext

\* A text is signalled after a step if it was so before, or is the one just read.
LEMMA SignalledNext ==
  ASSUME TypeOK, FreshInv, SignalInv, [Next]_vars, NEW m \in Msg, Signalled(m)'
  PROVE  \/ Signalled(m)
         \/ \E r \in Room : TextRead(m.by, r) /\ m = Text(m.by, received[m.by] + 1, r)
<1> DEFINE e == TextSignal(m)
<1>0. m.by \in Attempt /\ events \in Seq(Signal) /\ Len(events) \in Nat
  BY DEF Msg, TypeOK
<1>1. CASE emitting'[m.by] = e
  <2>1. \/ emitting'[m.by] = emitting[m.by]
        \/ emitting'[m.by] = NoEvent
        \/ emitting'[m.by] = Plain("update")
        \/ \E r \in Room : /\ TextRead(m.by, r)
                           /\ emitting'[m.by] = TextSignal(Text(m.by, received[m.by] + 1, r))
    BY <1>0, EmittingNext
  <2>2. e # NoEvent /\ e # Plain("update")
    BY SignalType
  <2>3. \A r : e = TextSignal(Text(m.by, received[m.by] + 1, r)) =>
                 m = Text(m.by, received[m.by] + 1, r)
    BY SignalType
  <2> QED BY <1>1, <2>1, <2>2, <2>3 DEF Signalled
<1>2. ASSUME NEW k \in 1 .. Len(events'), events'[k] = e PROVE Signalled(m)
  <2>1. CASE events' = events
    BY <1>2, <2>1 DEF Signalled
  <2>2. ASSUME NEW s \in Signal, events' = Append(events, s),
               \/ \E p \in {"accepted", "refused"} : s = Plain(p)
               \/ \E a \in Attempt : Emit(a) /\ s = emitting[a]
        PROVE  Signalled(m)
    <3>1. /\ Len(events') = Len(events) + 1 /\ events'[Len(events) + 1] = s
          /\ \A j \in 1 .. Len(events) : events'[j] = events[j]
      BY <1>0, <2>2, AppendIs
    <3>2. CASE k \in 1 .. Len(events)
      BY <1>2, <3>1, <3>2 DEF Signalled
    <3>3. CASE k = Len(events) + 1
      <4>1. s = e
        BY <1>2, <3>1, <3>3
      <4>2. \A p \in {"accepted", "refused"} : e # Plain(p)
        BY SignalType
      <4>3. PICK a \in Attempt : emitting[a] = e
        BY <2>2, <4>1, <4>2
      <4>4. m.by = a
        BY <4>3 DEF SignalInv
      <4> QED BY <4>3, <4>4 DEF Signalled
    <3> QED BY <1>0, <1>2, <3>1, <3>2, <3>3
  <2>3. CASE events # <<>> /\ events' = Tail(events)
    <3>1. /\ Len(events') = Len(events) - 1
          /\ \A j \in 1 .. Len(events) - 1 : events'[j] = events[j + 1]
      BY <1>0, <2>3, TailIs
    <3>2. k + 1 \in 1 .. Len(events) /\ events[k + 1] = e
      BY <1>0, <1>2, <3>1
    <3> QED BY <3>2 DEF Signalled
  <2> QED BY <2>1, <2>2, <2>3, QueueNext
<1> QED BY <1>1, <1>2 DEF Signalled

\* A text stays signalled until the chat window takes its signal.
LEMMA SignalledStays ==
  ASSUME TypeOK, FreshInv, [Next]_vars, NEW m \in Msg, Signalled(m)
  PROVE  \/ Signalled(m)'
         \/ PrintText /\ events # <<>> /\ Head(events) = TextSignal(m)
<1> DEFINE e == TextSignal(m)
<1>0. /\ m.by \in Attempt /\ events \in Seq(Signal) /\ Len(events) \in Nat
      /\ e \in Signal /\ e # NoEvent /\ e.kind = "text"
  BY SignalType DEF Msg, TypeOK, TextSignal
<1>1. CASE emitting[m.by] = e
  <2>1. emitting'[m.by] = e \/ Emit(m.by)
    BY <1>0, <1>1, EmittingNext
  <2>2. CASE Emit(m.by)
    <3>1. events' = Append(events, e)
      BY <1>1, <2>2 DEF Emit
    <3>2. Len(events') = Len(events) + 1 /\ events'[Len(events) + 1] = e
      BY <1>0, <3>1, AppendIs
    <3>3. \E k \in 1 .. Len(events') : events'[k] = e
      BY <1>0, <3>2
    <3> QED BY <3>3 DEF Signalled
  <2> QED BY <2>1, <2>2 DEF Signalled
<1>2. ASSUME NEW k \in 1 .. Len(events), events[k] = e
      PROVE  \/ \E j \in 1 .. Len(events') : events'[j] = e
             \/ PrintText /\ events # <<>> /\ Head(events) = e
  <2>1. CASE events' = events
    BY <1>2, <2>1
  <2>2. ASSUME NEW s \in Signal, events' = Append(events, s)
        PROVE  \E j \in 1 .. Len(events') : events'[j] = e
    <3>1. /\ Len(events') = Len(events) + 1
          /\ \A j \in 1 .. Len(events) : events'[j] = events[j]
      BY <1>0, <2>2, AppendIs
    <3> QED BY <1>0, <1>2, <3>1
  <2>3. CASE /\ events # <<>> /\ events' = Tail(events)
             /\ PrintText \/ Head(events).kind # "text"
    <3>1. /\ Len(events') = Len(events) - 1 /\ Head(events) = events[1]
          /\ \A j \in 1 .. Len(events) - 1 : events'[j] = events[j + 1]
      BY <1>0, <2>3, TailIs
    <3>2. CASE k = 1
      BY <1>0, <1>2, <2>3, <3>1, <3>2
    <3>3. CASE k # 1
      <4>1. k - 1 \in 1 .. Len(events') /\ events'[k - 1] = e
        <5>1. k - 1 \in 1 .. Len(events) - 1 /\ (k - 1) + 1 = k
          BY <1>0, <1>2, <3>3
        <5> QED BY <1>2, <3>1, <5>1
      <4> QED BY <4>1
    <3> QED BY <3>2, <3>3
  <2> QED BY <2>1, <2>2, <2>3, QueueNext
<1>3. (\E j \in 1 .. Len(events') : events'[j] = e) => Signalled(m)'
  BY DEF Signalled
<1> QED BY <1>1, <1>2, <1>3 DEF Signalled

LEMMA SignalNext ==
  ASSUME TypeOK, FreshInv, StartInv, StoredInv, SignalInv, [Next]_vars
  PROVE  SignalInv'
<1>0. events \in Seq(Signal) /\ Len(events) \in Nat
  BY DEF TypeOK
<1>1. ASSUME NEW m \in Msg, Signalled(m)' PROVE Stored(m)'
  <2>1. m.by \in Attempt
    BY DEF Msg
  <2>2. CASE Signalled(m)
    BY <2>2, StoredStays DEF SignalInv
  <2>3. CASE \E r \in Room : TextRead(m.by, r) /\ m = Text(m.by, received[m.by] + 1, r)
    BY <2>1, <2>3, StoredRead
  <2> QED BY <1>1, <2>2, <2>3, SignalledNext
<1>2. ASSUME NEW a \in Attempt, NEW m \in Msg, emitting'[a] = TextSignal(m) PROVE m.by = a
  <2>1. \/ emitting'[a] = emitting[a]
        \/ emitting'[a] = NoEvent
        \/ emitting'[a] = Plain("update")
        \/ \E r \in Room : emitting'[a] = TextSignal(Text(a, received[a] + 1, r))
    BY EmittingNext
  <2>2. TextSignal(m) # NoEvent /\ TextSignal(m) # Plain("update")
    BY SignalType
  <2>3. \A r \in Room : /\ TextSignal(m) = TextSignal(Text(a, received[a] + 1, r)) =>
                             m = Text(a, received[a] + 1, r)
                        /\ Text(a, received[a] + 1, r).by = a
    BY SignalType, ReadText
  <2> QED BY <1>2, <2>1, <2>2, <2>3 DEF SignalInv
<1>3. ASSUME NEW k \in 1 .. Len(events'), NEW l \in Msg, NEW m \in Msg,
             events'[k] = TextSignal(m), l.by = m.by, emitting'[m.by] = TextSignal(l)
      PROVE  m.n < l.n
  <2>0. m.by \in Attempt /\ TextSignal(l) # NoEvent /\ TextSignal(l) # Plain("update")
    BY SignalType DEF Msg
  <2>1. \/ emitting'[m.by] = emitting[m.by] /\ ~Emit(m.by)
        \/ \E r \in Room : /\ TextRead(m.by, r) /\ emitting[m.by] = NoEvent
                           /\ l = Text(m.by, received[m.by] + 1, r)
    <3>1. \/ emitting'[m.by] = emitting[m.by] /\ (at'[m.by] = "emit" <=> at[m.by] = "emit")
          \/ \E r \in Room :
               /\ TextRead(m.by, r) /\ emitting[m.by] = NoEvent
               /\ emitting'[m.by] = TextSignal(Text(m.by, received[m.by] + 1, r))
      BY <1>3, <2>0, EmittingNext
    <3>2. Emit(m.by) => emitting'[m.by] = NoEvent
      BY <2>0 DEF Emit, TypeOK
    <3>3. \A r : TextSignal(l) = TextSignal(Text(m.by, received[m.by] + 1, r)) =>
                   l = Text(m.by, received[m.by] + 1, r)
      BY SignalType
    <3> QED BY <1>3, <2>0, <3>1, <3>2, <3>3
  <2>2. CASE emitting'[m.by] = emitting[m.by] /\ ~Emit(m.by)
    <3>1. emitting[m.by] = TextSignal(l)
      BY <1>3, <2>2
    <3>2. ASSUME NEW j \in 1 .. Len(events), events[j] = TextSignal(m) PROVE m.n < l.n
      BY <1>3, <3>1, <3>2 DEF SignalInv
    <3>3. CASE events' = events
      BY <1>3, <3>2, <3>3
    <3>4. ASSUME NEW s \in Signal, events' = Append(events, s),
                 \/ \E p \in {"accepted", "refused"} : s = Plain(p)
                 \/ \E a \in Attempt : Emit(a) /\ s = emitting[a]
          PROVE  m.n < l.n
      <4>1. /\ Len(events') = Len(events) + 1 /\ events'[Len(events) + 1] = s
            /\ \A j \in 1 .. Len(events) : events'[j] = events[j]
        BY <1>0, <3>4, AppendIs
      <4>2. s # TextSignal(m)
        <5>1. \A p \in {"accepted", "refused"} : TextSignal(m) # Plain(p)
          BY SignalType
        <5>2. \A a \in Attempt : emitting[a] = TextSignal(m) => m.by = a
          BY DEF SignalInv
        <5> QED BY <2>2, <3>4, <5>1, <5>2
      <4>3. k \in 1 .. Len(events)
        BY <1>0, <1>3, <4>1, <4>2
      <4> QED BY <1>3, <3>2, <4>1, <4>3
    <3>5. CASE events # <<>> /\ events' = Tail(events)
      <4>1. /\ Len(events') = Len(events) - 1
            /\ \A j \in 1 .. Len(events) - 1 : events'[j] = events[j + 1]
        BY <1>0, <3>5, TailIs
      <4>2. k + 1 \in 1 .. Len(events) /\ events[k + 1] = TextSignal(m)
        BY <1>0, <1>3, <4>1
      <4> QED BY <3>2, <4>2
    <3> QED BY <3>3, <3>4, <3>5, QueueNext
  <2>3. CASE \E r \in Room : /\ TextRead(m.by, r) /\ emitting[m.by] = NoEvent
                             /\ l = Text(m.by, received[m.by] + 1, r)
    <3>1. PICK r \in Room : TextRead(m.by, r) /\ l = Text(m.by, received[m.by] + 1, r)
      BY <2>3
    <3>2. l.n = received[m.by] + 1 /\ received[m.by] \in Nat
      BY <2>0, <3>1, ReadNext
    <3>3. events' = events
      BY <3>1 DEF TextRead, Receive
    <3>4. Stored(m)
      BY <1>3, <3>3 DEF SignalInv, Signalled
    <3>5. m.n \in 1 .. received[m.by]
      BY <2>0, <3>4 DEF Stored, Elements, StoredInv
    <3> QED BY <3>2, <3>5
  <2> QED BY <2>1, <2>2, <2>3
<1>4. ASSUME NEW k \in 1 .. Len(events'), NEW l \in Msg, NEW m \in Msg,
             events'[k] = TextSignal(m), l.by = m.by,
             NEW j \in 1 .. k - 1, events'[j] = TextSignal(l)
      PROVE  l.n < m.n
  <2>0. ASSUME NEW q \in 1 .. Len(events), NEW p \in 1 .. q - 1,
               events[q] = TextSignal(m), events[p] = TextSignal(l)
        PROVE  l.n < m.n
    BY <1>4, <2>0 DEF SignalInv
  <2>1. CASE events' = events
    BY <1>4, <2>0, <2>1
  <2>2. ASSUME NEW s \in Signal, events' = Append(events, s),
               \/ \E p \in {"accepted", "refused"} : s = Plain(p)
               \/ \E a \in Attempt : Emit(a) /\ s = emitting[a]
        PROVE  l.n < m.n
    <3>1. /\ Len(events') = Len(events) + 1 /\ events'[Len(events) + 1] = s
          /\ \A i \in 1 .. Len(events) : events'[i] = events[i]
      BY <1>0, <2>2, AppendIs
    <3>2. j \in 1 .. Len(events) /\ events[j] = TextSignal(l)
      BY <1>0, <1>4, <3>1
    <3>3. CASE k \in 1 .. Len(events)
      <4>1. events[k] = TextSignal(m)
        BY <1>4, <3>1, <3>3
      <4> QED BY <1>4, <2>0, <3>2, <3>3, <4>1
    <3>4. CASE k = Len(events) + 1
      <4>1. s = TextSignal(m)
        BY <1>4, <3>1, <3>4
      <4>2. \A p \in {"accepted", "refused"} : TextSignal(m) # Plain(p)
        BY SignalType
      <4>3. PICK a \in Attempt : emitting[a] = TextSignal(m)
        BY <2>2, <4>1, <4>2
      <4>4. emitting[l.by] = TextSignal(m)
        BY <1>4, <4>3 DEF SignalInv
      <4> QED BY <1>4, <3>2, <4>4 DEF SignalInv
    <3> QED BY <1>0, <1>4, <3>1, <3>3, <3>4
  <2>3. CASE events # <<>> /\ events' = Tail(events)
    <3>1. /\ Len(events') = Len(events) - 1
          /\ \A i \in 1 .. Len(events) - 1 : events'[i] = events[i + 1]
      BY <1>0, <2>3, TailIs
    <3>2. k \in 1 .. Len(events) - 1 /\ j \in 1 .. Len(events) - 1
      BY <1>0, <3>1
    <3>3. k + 1 \in 1 .. Len(events) /\ j + 1 \in 1 .. (k + 1) - 1
      BY <1>0, <3>2
    <3>4. events[k + 1] = TextSignal(m) /\ events[j + 1] = TextSignal(l)
      BY <1>4, <3>1, <3>2
    <3> QED BY <2>0, <3>3, <3>4
  <2> QED BY <2>1, <2>2, <2>3, QueueNext
<1> QED BY <1>1, <1>2, <1>3, <1>4 DEF SignalInv

--------------------------------------------------------------------------------
(* What is on the screen.                                                        *)

\* The chat window takes a text at the head of the queue, and after that the text is
\* signalled no more: a text's signal is in the queue once.
LEMMA PrintNext ==
  ASSUME TypeOK, StoredInv, FreshInv, SignalInv, [Next]_vars, PrintText,
         NEW m, m = Head(events).msg
  PROVE  /\ m \in Msg /\ events # <<>> /\ Head(events) = TextSignal(m) /\ Signalled(m)
         /\ events[1] = TextSignal(m) /\ ~Signalled(m)'
         /\ events' = Tail(events) /\ UNCHANGED <<emitting, received, channels_history,
                                                  chat_client, current_room, gui>>
         /\ shown' = IF m.room = current_room[chat_client] THEN Append(shown, m) ELSE shown
<1>0. /\ events \in Seq(Signal) /\ events # <<>> /\ events' = Tail(events)
      /\ Head(events).kind = "text"
  BY DEF PrintText, TakeEvent, TypeOK
<1>1. /\ Len(events) \in Nat /\ Len(events) > 0 /\ Len(Tail(events)) = Len(events) - 1
      /\ Head(events) \in Signal /\ Head(events) = events[1]
      /\ \A k \in 1 .. Len(events) - 1 : Tail(events)[k] = events[k + 1]
  BY <1>0, TailIs
<1>2. m \in Msg /\ Head(events) = TextSignal(m)
  BY <1>0, <1>1, TextSignals
<1>3. UNCHANGED <<emitting, received, channels_history, chat_client, current_room, gui>>
  BY DEF PrintText, clientVars, pointers
<1>4. shown' = IF m.room = current_room[chat_client] THEN Append(shown, m) ELSE shown
  BY DEF PrintText
<1>5. events[1] = TextSignal(m) /\ 1 \in 1 .. Len(events) /\ m.n \in Nat
  BY <1>1, <1>2 DEF Msg
<1>6. emitting[m.by] # TextSignal(m)
  BY <1>2, <1>5 DEF SignalInv
<1>7. \A k \in 1 .. Len(events) : k # 1 => events[k] # TextSignal(m)
  <2> SUFFICES ASSUME NEW k \in 1 .. Len(events), k # 1, events[k] = TextSignal(m)
               PROVE  FALSE
    OBVIOUS
  <2>1. 1 \in 1 .. k - 1
    OBVIOUS
  <2> QED BY <1>2, <1>5, <2>1 DEF SignalInv
<1>8. \A k \in 1 .. Len(events') : events'[k] # TextSignal(m)
  <2> SUFFICES ASSUME NEW k \in 1 .. Len(events') PROVE events'[k] # TextSignal(m)
    OBVIOUS
  <2>1. events'[k] = events[k + 1] /\ k + 1 \in 1 .. Len(events) /\ k + 1 # 1
    BY <1>0, <1>1
  <2> QED BY <1>7, <2>1
<1>9. ~Signalled(m)'
  BY <1>3, <1>6, <1>8 DEF Signalled
<1>10. Signalled(m)
  BY <1>5 DEF Signalled
<1> QED BY <1>0, <1>2, <1>3, <1>4, <1>5, <1>9, <1>10

\* upload_history shows a history: one that is there, or none.
LEMMA UploadNext ==
  ASSUME TypeOK, StartInv, UploadHistory
  PROVE  LET r == current_room[chat_client] IN
         /\ chat_client \in Attempt /\ chat_client # NoClient /\ r \in AnyRoom
         /\ r \in DOMAIN channels_history'[chat_client] /\ shown' = channels_history'[chat_client][r]
         /\ \/ r \in DOMAIN channels_history[chat_client] /\ shown' = channels_history[chat_client][r]
            \/ shown' = <<>>
         /\ gui' = "idle" /\ UNCHANGED <<chat_client, emitting, events, received, current_room>>
<1> DEFINE r == current_room[chat_client]
           h == channels_history[chat_client]
<1>1. chat_client \in Attempt /\ chat_client # NoClient
  BY ClientThere DEF UploadHistory
<1>2. IsHistory(h) /\ r \in AnyRoom /\ channels_history = [a \in Attempt |-> channels_history[a]]
  BY <1>1 DEF TypeOK
<1>3. channels_history' = [channels_history EXCEPT ![chat_client] = With(h, r)] /\ shown' = With(h, r)[r]
  BY DEF UploadHistory
<1>4. channels_history'[chat_client] = With(h, r)
  BY <1>1, <1>2, <1>3
<1>5. /\ DOMAIN With(h, r) = DOMAIN h \cup {r}
      /\ \A s \in DOMAIN h : With(h, r)[s] = h[s]
      /\ r \notin DOMAIN h => With(h, r)[r] = <<>>
  BY <1>2, WithType
<1>6. gui' = "idle" /\ UNCHANGED <<chat_client, emitting, events, received, current_room>>
  BY DEF UploadHistory, clientVars, pointers
<1> QED BY <1>1, <1>2, <1>3, <1>4, <1>5, <1>6

LEMMA ShownNext ==
  ASSUME TypeOK, FreshInv, StartInv, StoredInv, SignalInv, ShownInv, [Next]_vars
  PROVE  ShownInv'
<1>0. shown \in Seq(Msg) /\ \A m \in Elements(shown) : m \in Msg /\ m.by \in Attempt
  <2>1. shown \in Seq(Msg)
    BY DEF TypeOK
  <2>2. \A k \in 1 .. Len(shown) : shown[k] \in Msg
    BY <2>1
  <2>3. \A m \in Msg : m.by \in Attempt
    BY DEF Msg
  <2> QED BY <2>1, <2>2, <2>3 DEF Elements
<1>1. ASSUME NEW m \in Msg, m.n \in 1 .. received[m.by] PROVE m.n \in 1 .. received'[m.by]
  <2>1. m.by \in Attempt /\ m.n \in Nat
    BY DEF Msg
  <2>2. received[m.by] \in Nat /\ received'[m.by] \in Nat /\ received[m.by] <= received'[m.by]
    BY <2>1, ReceivedNext
  <2> QED BY <1>1, <2>1, <2>2
<1>2. ASSUME NEW m \in Msg, Signalled(m)' PROVE Times(m, shown) <= 1
  <2>1. CASE Signalled(m)
    BY <2>1 DEF ShownInv
  <2>2. ASSUME NEW r \in Room, TextRead(m.by, r), m = Text(m.by, received[m.by] + 1, r)
        PROVE  Times(m, shown) <= 1
    <3>1. m.by \in Attempt
      BY DEF Msg
    <3>2. m.n = received[m.by] + 1 /\ received[m.by] \in Nat
      BY <2>2, <3>1, ReadNext
    <3>3. m \notin Elements(shown)
      BY <3>2 DEF ShownInv
    <3>4. Times(m, shown) = 0
      BY <1>0, <3>3, TimesType
    <3> QED BY <3>4
  <2> QED BY <1>2, <2>1, <2>2, SignalledNext
<1>3. ASSUME shown' = shown PROVE ShownInv'
  <2>1. \A m \in Elements(shown) : m.n \in 1 .. received'[m.by]
    BY <1>0, <1>1 DEF ShownInv
  <2>2. Elements(shown)' = Elements(shown) /\ \A m : Times(m, shown)' = Times(m, shown)
    BY <1>3 DEF Elements, Times
  <2> QED BY <1>2, <2>1, <2>2 DEF ShownInv
<1>4. ASSUME PrintText PROVE ShownInv'
  <2>1. PICK p : p = Head(events).msg
    OBVIOUS
  <2>2. p \in Msg /\ Signalled(p) /\ ~Signalled(p)'
    BY <1>4, <2>1, PrintNext
  <2>3. shown' = shown \/ shown' = Append(shown, p)
    BY <1>4, <2>1, PrintNext
  <2>4. CASE shown' = Append(shown, p)
    <3>1. Elements(shown)' = Elements(shown) \cup {p}
      <4>1. Elements(Append(shown, p)) = Elements(shown) \cup {p}
        BY <1>0, <2>2, ElementsAppend
      <4> QED BY <2>4, <4>1 DEF Elements
    <3>2. p.n \in 1 .. received[p.by]
      <4>1. Stored(p)
        BY <2>2 DEF SignalInv
      <4>2. p.by \in Attempt
        BY <2>2 DEF Msg
      <4> QED BY <4>1, <4>2 DEF Stored, Elements, StoredInv
    <3>3. \A m \in Elements(shown)' : m.n \in 1 .. received'[m.by]
      BY <1>0, <1>1, <2>2, <3>1, <3>2 DEF ShownInv
    <3>4. ASSUME NEW m \in Msg
          PROVE  Times(m, shown)' <= 2 /\ (Signalled(m)' => Times(m, shown)' <= 1)
      <4>1. Times(m, Append(shown, p)) = IF m = p THEN Times(m, shown) + 1 ELSE Times(m, shown)
        BY <1>0, <2>2, TimesAppend
      <4>2. Times(m, shown)' = Times(m, Append(shown, p))
        BY <2>4 DEF Times
      <4>3. Times(m, shown) \in Nat
        BY <1>0, TimesType
      <4>4. CASE m = p
        <5>1. Times(m, shown) <= 1
          BY <2>2, <4>4 DEF ShownInv
        <5>2. Times(m, shown)' = Times(m, shown) + 1
          BY <4>1, <4>2, <4>4
        <5> QED BY <2>2, <4>3, <4>4, <5>1, <5>2
      <4>5. CASE m # p
        <5>1. Times(m, shown)' = Times(m, shown)
          BY <4>1, <4>2, <4>5
        <5>2. Times(m, shown) <= 2
          BY DEF ShownInv
        <5> QED BY <1>2, <5>1, <5>2
      <4> QED BY <4>4, <4>5
    <3> QED BY <3>3, <3>4 DEF ShownInv
  <2> QED BY <1>3, <2>3, <2>4
<1>5. ASSUME UploadHistory PROVE ShownInv'
  <2>1. PICK r : r = current_room[chat_client]
    OBVIOUS
  <2>2. /\ chat_client \in Attempt /\ UNCHANGED received
        /\ \/ r \in DOMAIN channels_history[chat_client] /\ shown' = channels_history[chat_client][r]
           \/ shown' = <<>>
    BY <1>5, <2>1, UploadNext
  <2>3. /\ shown' \in Seq(Msg) /\ Increasing(shown')
        /\ \A k \in 1 .. Len(shown') : /\ shown'[k].by = chat_client
                                       /\ shown'[k].n \in 1 .. received[chat_client]
    <3>1. CASE r \in DOMAIN channels_history[chat_client] /\ shown' = channels_history[chat_client][r]
      <4>1. channels_history[chat_client][r] \in Seq(Msg)
        BY <2>2, <3>1, HistoryIs
      <4> QED BY <2>2, <3>1, <4>1 DEF StoredInv
    <3>2. CASE shown' = <<>>
      BY <3>2 DEF Increasing
    <3> QED BY <2>2, <3>1, <3>2
  <2>4. \A m \in Elements(shown)' : m.n \in 1 .. received'[m.by]
    BY <2>2, <2>3 DEF Elements
  <2>5. ASSUME NEW m \in Msg PROVE Times(m, shown)' \in Nat /\ Times(m, shown)' <= 1
    <3>1. Times(m, shown') <= 1 /\ Times(m, shown') \in Nat
      BY <2>3, TimesOnce, TimesType
    <3> QED BY <3>1 DEF Times
  <2>6. \A m \in Msg : Times(m, shown)' <= 2
    BY <2>5
  <2> QED BY <2>4, <2>5, <2>6 DEF ShownInv
<1> QED BY <1>3, <1>4, <1>5, WritersNext DEF Writers

--------------------------------------------------------------------------------
(* The channels window.                                                          *)

LEMMA JoinedNext == ASSUME TypeOK, StartInv, JoinedInv, [Next]_vars PROVE JoinedInv'
<1> SUFFICES ASSUME NEW a \in Attempt PROVE joined'[a] \subseteq DOMAIN channels_history'[a]
  BY DEF JoinedInv
<1>0. joined \in [Attempt -> SUBSET Room]
  BY DEF TypeOK
<1>1. joined[a] \subseteq DOMAIN channels_history[a]
  BY DEF JoinedInv
<1>2. DOMAIN channels_history[a] \subseteq DOMAIN channels_history'[a]
  BY RoomNext
<1>3. ASSUME NEW b \in Attempt, NEW r \in Room, JoinAccepted(b, r)
      PROVE  joined'[a] \subseteq DOMAIN channels_history'[a]
  <2>1. joined' = [joined EXCEPT ![b] = joined[b] \cup {r}]
    BY <1>3 DEF JoinAccepted
  <2>2. CASE a = b
    <3>1. channels_history' = [channels_history EXCEPT ![a] = With(channels_history[a], r)]
      BY <1>3, <2>2 DEF JoinAccepted
    <3>2. channels_history = [c \in Attempt |-> channels_history[c]]
      BY DEF TypeOK
    <3>3. channels_history'[a] = With(channels_history[a], r)
      BY <3>1, <3>2
    <3>4. r \in DOMAIN channels_history'[a]
      BY <3>3 DEF With
    <3> QED BY <1>0, <1>1, <1>2, <2>1, <2>2, <3>4
  <2> QED BY <1>0, <1>1, <1>2, <2>1, <2>2
<1> QED BY <1>1, <1>2, <1>3, WritersNext DEF Writers

\* An update that is under way stays so until the channels window takes it.
LEMMA UpdateStays ==
  ASSUME TypeOK, FreshInv, [Next]_vars, NEW a \in Attempt, Coming(a, Plain("update"))
  PROVE  Coming(a, Plain("update"))' \/ UpdateChannels
<1> DEFINE u == Plain("update")
<1>0. /\ events \in Seq(Signal) /\ Len(events) \in Nat /\ u \in Signal
      /\ u.kind = "update" /\ u # NoEvent
  BY SignalType, EventAssumption DEF TypeOK, Plain
<1>c. (emitting'[a] = u \/ \E j \in 1 .. Len(events') : events'[j] = u) => Coming(a, u)'
  BY DEF Coming
<1> HIDE DEF u
<1>1. CASE emitting[a] = u
  <2>1. emitting'[a] = u \/ Emit(a)
    BY <1>0, <1>1, EmittingNext
  <2>2. CASE Emit(a)
    <3>1. events' = Append(events, u)
      BY <1>1, <2>2 DEF Emit
    <3>2. Len(events') = Len(events) + 1 /\ events'[Len(events) + 1] = u
      BY <1>0, <3>1, AppendIs
    <3>3. \E j \in 1 .. Len(events') : events'[j] = u
      BY <1>0, <3>2
    <3> QED BY <1>c, <3>3 DEF u
  <2> QED BY <1>c, <2>1, <2>2 DEF u
<1>2. ASSUME NEW k \in 1 .. Len(events), events[k] = u
      PROVE  (\E j \in 1 .. Len(events') : events'[j] = u) \/ UpdateChannels
  <2>1. CASE events' = events
    BY <1>2, <2>1
  <2>2. ASSUME NEW s \in Signal, events' = Append(events, s)
        PROVE  \E j \in 1 .. Len(events') : events'[j] = u
    <3>1. /\ Len(events') = Len(events) + 1
          /\ \A j \in 1 .. Len(events) : events'[j] = events[j]
      BY <1>0, <2>2, AppendIs
    <3> QED BY <1>0, <1>2, <3>1
  <2>3. ASSUME events # <<>>, events' = Tail(events),
               ChangeWindow \/ UpdateChannels \/ PrintText
        PROVE  (\E j \in 1 .. Len(events') : events'[j] = u) \/ UpdateChannels
    <3>1. /\ Len(events') = Len(events) - 1 /\ Head(events) = events[1]
          /\ \A j \in 1 .. Len(events) - 1 : events'[j] = events[j + 1]
      BY <1>0, <2>3, TailIs
    <3>2. CASE k = 1
      BY <1>0, <1>2, <2>3, <3>1, <3>2 DEF ChangeWindow, PrintText
    <3>3. CASE k # 1
      <4>1. k - 1 \in 1 .. Len(events) - 1 /\ (k - 1) + 1 = k
        BY <1>0, <1>2, <3>3
      <4>2. k - 1 \in 1 .. Len(events') /\ events'[k - 1] = u
        BY <1>2, <3>1, <4>1
      <4> QED BY <4>2
    <3> QED BY <3>2, <3>3
  <2>4. \/ events' = events
        \/ \E s \in Signal : events' = Append(events, s)
        \/ /\ events # <<>> /\ events' = Tail(events)
           /\ ChangeWindow \/ UpdateChannels \/ PrintText
    BY SignalType, EventsNext
  <2> QED BY <2>1, <2>2, <2>3, <2>4
<1>3. emitting[a] = u \/ \E k \in 1 .. Len(events) : events[k] = u
  BY DEF Coming, u
<1>4. (\E j \in 1 .. Len(events') : events'[j] = u) => Coming(a, Plain("update"))'
  BY <1>c DEF u
<1> QED BY <1>1, <1>2, <1>3, <1>4

LEMMA ListNext ==
  ASSUME TypeOK, FreshInv, StartInv, JoinedInv, ListAgrees, [Next]_vars
  PROVE  ListAgrees'
<1> DEFINE u == Plain("update")
<1> SUFFICES ASSUME channels_client' # NoClient, ~Coming(channels_client, u)'
             PROVE  joined'[channels_client'] \subseteq listed'
  BY DEF ListAgrees
<1>0. joined \in [Attempt -> SUBSET Room]
  BY DEF TypeOK
<1>1. ASSUME NEW a \in Attempt, SetChannelsClient(a)
      PROVE  joined'[channels_client'] \subseteq listed'
  <2>1. channels_client' = a /\ UNCHANGED joined /\ joined[a] = {}
    BY <1>1, OwnClient DEF SetChannelsClient, FreshInv, Unused, Starting, clientVars
  <2> QED BY <2>1
<1>2. ASSUME channels_client' = channels_client PROVE joined'[channels_client'] \subseteq listed'
  <2>1. channels_client \in Attempt
    BY <1>2 DEF TypeOK
  <2>2. CASE UpdateChannels
    <3>1. listed' = DOMAIN channels_history[channels_client] /\ UNCHANGED joined
      BY <2>2 DEF UpdateChannels, clientVars
    <3> QED BY <1>2, <2>1, <3>1 DEF JoinedInv
  <2>3. CASE ~UpdateChannels
    <3>0. emitting'[channels_client] # u
      BY <1>2 DEF Coming
    <3>1. joined'[channels_client] = joined[channels_client]
      <4>1. ASSUME NEW b \in Attempt, NEW r \in Room, JoinAccepted(b, r)
            PROVE  b # channels_client /\ joined' = [joined EXCEPT ![b] = joined[b] \cup {r}]
        <5>1. emitting' = [emitting EXCEPT ![b] = u] /\ emitting \in [Attempt -> Signal \cup {NoEvent}]
          BY <1>2, <4>1 DEF JoinAccepted, TypeOK
        <5>2. emitting'[b] = u
          BY <5>1
        <5> QED BY <3>0, <4>1, <5>2 DEF JoinAccepted
      <4> QED BY <1>0, <2>1, <4>1, WritersNext DEF Writers
    <3>2. listed' = listed
      BY <2>3, WritersNext DEF Writers
    <3>3. ~Coming(channels_client, u)
      <4>1. ASSUME NEW a \in Attempt, a = channels_client, Coming(a, u) PROVE FALSE
        <5>1. Coming(a, u)'
          BY <2>3, <4>1, UpdateStays
        <5>2. Coming(channels_client, u)'
          BY <1>2, <4>1, <5>1 DEF Coming
        <5> QED BY <5>2
      <4> QED BY <2>1, <4>1
    <3> QED BY <1>2, <3>1, <3>2, <3>3 DEF ListAgrees
  <2> QED BY <2>2, <2>3
<1> QED BY <1>1, <1>2, WritersNext DEF Writers

--------------------------------------------------------------------------------
(* The rooms asked for.                                                          *)

LEMMA AskedNext ==
  ASSUME TypeOK, [Next]_vars
  PROVE  /\ \A a \in Attempt : asked[a] \subseteq asked'[a]
         /\ Two => Two'
         /\ \A r : Known(r) => Known(r)'
<1>1. asked \in [Attempt -> SUBSET Room]
  BY DEF TypeOK
<1>2. asked' = asked \/ \E r \in Room : \E R \in {asked[client], asked[client] \cup {r}} :
                          asked' = [asked EXCEPT ![client] = R]
  <2>1. \A r \in Room : AddChannel(r) =>
          \E R \in {asked[client], asked[client] \cup {r}} :
            asked' = [asked EXCEPT ![client] = R]
    BY DEF AddChannel
  <2> QED BY <2>1, WritersNext DEF Writers
<1>3. \A a \in Attempt : asked[a] \subseteq asked'[a]
  BY <1>1, <1>2
<1>4. Two => Two'
  BY PublishedStays DEF Two
<1>5. ASSUME NEW r, Known(r) PROVE Known(r)'
  BY <1>3, <1>4, <1>5 DEF Known
<1> QED BY <1>3, <1>4, <1>5

\* The chat window has one of two Clients in use, or it is on a room asked for.
LEMMA OpenKnown ==
  ASSUME TypeOK, StartInv, RoomsInv, [Next]_vars, NEW r \in AnyRoom, OpenChannel(r),
         NEW s, s = current_room'[chat_client']
  PROVE  Known(s)'
<1>1. /\ client \in Attempt /\ chat_client \in Attempt /\ channels_client \in Attempt
  BY ClientThere DEF OpenChannel
<1>2. /\ r \in listed /\ UNCHANGED chat_client
      /\ current_room' = [current_room EXCEPT ![channels_client] = r, ![client] = r]
  BY DEF OpenChannel, pointers
<1>3. current_room \in [Attempt -> AnyRoom] /\ Known(r)
  BY <1>2 DEF TypeOK, RoomsInv
<1>4. CASE s = r
  BY <1>3, <1>4, AskedNext
<1>5. CASE s # r
  <2>1. chat_client # client /\ s = current_room[chat_client]
    BY <1>1, <1>2, <1>3, <1>5
  <2>2. Published(client) /\ Published(chat_client)
    BY <1>1 DEF StartInv, PointersInv, Published, Starting
  <2>3. Two
    BY <1>1, <2>1, <2>2 DEF Two
  <2>4. Known(s)
    BY <1>1, <2>1, <2>3 DEF RoomsInv, Known
  <2> QED BY <2>4, AskedNext
<1> QED BY <1>4, <1>5

LEMMA RoomsNext ==
  ASSUME TypeOK, FreshInv, StartInv, RoomsInv, [Next]_vars
  PROVE  RoomsInv'
<1>w. Writers
  BY WritersNext
<1>0. \A r : Known(r) => Known(r)'
  BY AskedNext
<1>1. ASSUME NEW a \in Attempt, NEW r \in DOMAIN channels_history'[a] PROVE Known(r)'
  <2>1. \/ r \in DOMAIN channels_history[a]
        \/ r \in Room /\ (JoinAccepted(a, r) \/ TextRead(a, r))
        \/ UploadHistory /\ r = current_room[chat_client]
    BY RoomNext
  <2>2. CASE r \in DOMAIN channels_history[a]
    BY <1>0, <2>2 DEF RoomsInv
  <2>3. CASE r \in Room /\ (JoinAccepted(a, r) \/ TextRead(a, r))
    <3>1. Known(r)
      BY <2>3 DEF JoinAccepted, TextRead, Receive, Known
    <3> QED BY <1>0, <3>1
  <2>4. CASE UploadHistory /\ r = current_room[chat_client]
    <3>1. Known(r)
      BY <2>4 DEF UploadHistory, RoomsInv
    <3> QED BY <1>0, <3>1
  <2> QED BY <2>1, <2>2, <2>3, <2>4
<1>2. ASSUME NEW r \in listed' PROVE Known(r)'
  <2>1. CASE UpdateChannels
    <3>1. channels_client \in Attempt /\ listed' = DOMAIN channels_history[channels_client]
      BY <2>1, ClientThere DEF UpdateChannels, TakeEvent
    <3>2. Known(r)
      BY <1>2, <3>1 DEF RoomsInv
    <3> QED BY <1>0, <3>2
  <2>2. CASE UNCHANGED listed
    BY <1>0, <1>2, <2>2 DEF RoomsInv
  <2> QED BY <1>w, <2>1, <2>2 DEF Writers
<1>3. ASSUME NEW a \in Attempt, NEW s, s = current_room'[a], s # NoRoom PROVE Known(s)'
  <2>1. current_room[a] = NoRoom \/ Known(current_room[a])
    BY DEF RoomsInv
  <2>2. ASSUME NEW r \in AnyRoom, OpenChannel(r)
        PROVE  Known(r) /\ s \in {r, current_room[a]}
    BY <1>3, <2>2 DEF OpenChannel, RoomsInv, TypeOK
  <2>3. s = current_room[a] \/ Known(s)
    BY <1>w, <1>3, <2>2 DEF Writers, Known
  <2>4. Known(s)
    BY <1>3, <2>1, <2>3 DEF Known
  <2> QED BY <1>0, <2>4
<1>4. ASSUME gui' = "upload" \/ "chat" \in windows', NEW s, s = current_room'[chat_client']
      PROVE  Known(s)'
  <2>1. CASE \E r \in AnyRoom : OpenChannel(r)
    BY <1>4, <2>1, OpenKnown
  <2>2. CASE UNCHANGED current_room /\ \A r \in AnyRoom : ~OpenChannel(r)
    <3>1. gui = "upload" \/ "chat" \in windows
      <4>1. UploadHistory => gui = "upload"
        BY DEF UploadHistory
      <4>2. ChangeWindow \/ Back => ("chat" \in windows' => "chat" \in windows)
        BY DEF ChangeWindow, Back
      <4> QED BY <1>w, <1>4, <2>2, <4>1, <4>2 DEF Writers
    <3>2. CASE UNCHANGED chat_client
      <4>1. Known(s)
        BY <1>4, <2>2, <3>1, <3>2 DEF RoomsInv
      <4> QED BY <1>0, <4>1
    <3>3. ASSUME NEW b \in Attempt, Connect(b) PROVE Known(s)'
      <4>1. chat_client' = b /\ thread[b] = "chat"
        BY <3>3, OwnClient DEF Connect
      <4>2. chat_client \in Attempt
        BY <3>1, ClientThere
      <4>3. Published(b) /\ Published(chat_client) /\ chat_client # b
        BY <4>1, <4>2 DEF StartInv, PointersInv, Published, Starting
      <4>4. Two'
        <5>1. Two
          BY <4>2, <4>3 DEF Two
        <5> QED BY <5>1, AskedNext
      <4>5. s # NoRoom => Known(s)'
        BY <1>3, <1>4, <4>1
      <4> QED BY <4>4, <4>5 DEF Known
    <3> QED BY <1>w, <3>2, <3>3 DEF Writers
  <2> QED BY <1>w, <2>1, <2>2 DEF Writers
<1>5. \A a \in Attempt : current_room'[a] = NoRoom \/ Known(current_room[a])'
  <2> SUFFICES ASSUME NEW a \in Attempt, current_room'[a] # NoRoom
               PROVE  Known(current_room[a])'
    OBVIOUS
  <2>1. PICK s : s = current_room'[a]
    OBVIOUS
  <2>2. Known(s)'
    BY <1>3, <2>1
  <2> QED BY <2>1, <2>2 DEF Known
<1>6. gui' = "upload" \/ "chat" \in windows' => Known(current_room[chat_client])'
  <2> SUFFICES ASSUME gui' = "upload" \/ "chat" \in windows'
               PROVE  Known(current_room[chat_client])'
    OBVIOUS
  <2>1. PICK s : s = current_room'[chat_client']
    OBVIOUS
  <2>2. Known(s)'
    BY <1>4, <2>1
  <2> QED BY <2>1, <2>2 DEF Known
<1>7. \A a \in Attempt : \A r \in DOMAIN channels_history'[a] : Known(r)'
  BY <1>1
<1>8. \A r \in listed' : Known(r)'
  BY <1>2
<1> QED BY <1>5, <1>6, <1>7, <1>8 DEF RoomsInv

\* What SentWhereAsked says of a room that a text is sent to.
Allowed(a, r) ==
  r \in asked[a] \/ \E b \in Attempt \ {a} : r \in asked[b] \/ (r = NoRoom /\ Published(b))

LEMMA SentNext ==
  ASSUME TypeOK, StartInv, RoomsInv, SentWhereAsked, [Next]_vars
  PROVE  SentWhereAsked'
<1>1. SentWhereAsked <=> \A a \in Attempt : \A r \in sent[a] : Allowed(a, r)
  BY DEF SentWhereAsked, Allowed, Published
<1>2. SentWhereAsked' <=> \A a \in Attempt : \A r \in sent'[a] : Allowed(a, r)'
  BY DEF SentWhereAsked, Allowed, Published
<1> SUFFICES ASSUME NEW a \in Attempt, NEW r \in sent'[a] PROVE Allowed(a, r)'
  BY <1>2
<1>3. Allowed(a, r) => Allowed(a, r)'
  BY AskedNext, PublishedStays DEF Allowed
<1>4. CASE r \in sent[a]
  BY <1>1, <1>3, <1>4
<1>5. CASE SendText /\ r \notin sent[a]
  <2>1. /\ "chat" \in windows
        /\ \E R \in {sent[client], sent[client] \cup {current_room[chat_client]}} :
             sent' = [sent EXCEPT ![client] = R]
    BY <1>5 DEF SendText
  <2>2. sent \in [Attempt -> SUBSET AnyRoom]
    BY DEF TypeOK
  <2>3. a = client /\ r = current_room[chat_client]
    BY <1>5, <2>1, <2>2
  <2>4. Known(r)
    BY <2>1, <2>3 DEF RoomsInv
  <2>5. Allowed(a, r)
    BY <2>4 DEF Known, Allowed, Two
  <2> QED BY <1>3, <2>5
<1>6. UNCHANGED sent \/ SendText
  BY WritersNext DEF Writers
<1> QED BY <1>4, <1>5, <1>6

--------------------------------------------------------------------------------
(* What the chat window shows of the room it is on.                              *)

\* Only print_text takes a text's signal from the queue.
LEMMA SignalledKept ==
  ASSUME TypeOK, FreshInv, [Next]_vars, ~PrintText, NEW m \in Msg, Signalled(m)
  PROVE  Signalled(m)'
BY SignalledStays

\* A history's texts, each with its number.
TextsOf(h, c, r) ==
  /\ h \in Seq(Msg) /\ Len(h) \in Nat
  /\ \A j \in 1 .. Len(h) : h[j] \in Msg /\ h[j].by = c /\ h[j].room = r /\ h[j].n \in Nat
  /\ \A i, j \in 1 .. Len(h) : i < j => h[i].n < h[j].n
  /\ h # <<>> => r \in Room

LEMMA HistoryTexts ==
  ASSUME TypeOK, StoredInv, NEW c \in Attempt, NEW r \in DOMAIN channels_history[c],
         NEW h, h = channels_history[c][r]
  PROVE  TextsOf(h, c, r)
<1>1. /\ h \in Seq(Msg) /\ Len(h) \in Nat
      /\ \A j \in 1 .. Len(h) : h[j] \in Msg /\ h[j].by = c /\ h[j].room = r
      /\ \A i, j \in 1 .. Len(h) : i < j => h[i].n < h[j].n
  BY HistoryIs DEF StoredInv, Increasing
<1>2. \A m \in Msg : m.n \in Nat /\ m.room \in Room
  BY DEF Msg
<1>3. h # <<>> => r \in Room
  <2>1. h # <<>> => 1 \in 1 .. Len(h)
    BY <1>1
  <2> QED BY <1>1, <1>2, <2>1
<1> QED BY <1>1, <1>2, <1>3 DEF TextsOf

LEMMA PrintShows ==
  ASSUME TypeOK, FreshInv, StoredInv, SignalInv, [Next]_vars, PrintText,
         NEW c \in Attempt, c = chat_client, NEW r \in DOMAIN channels_history[c],
         r = current_room[c], NEW h, h = channels_history[c][r],
         NEW k \in 0 .. Len(h), ShowsFirst(c, h, k)
  PROVE  \E i \in 0 .. Len(h) : ShowsFirst(c, h, i)'
<1>1. PICK p : p = Head(events).msg
  OBVIOUS
<1>2. /\ p \in Msg /\ events # <<>> /\ Head(events) = TextSignal(p) /\ Signalled(p)
      /\ events[1] = TextSignal(p)
      /\ shown' = IF p.room = r THEN Append(shown, p) ELSE shown
  BY <1>1, PrintNext
<1>3. /\ h \in Seq(Msg) /\ Len(h) \in Nat
      /\ \A j \in 1 .. Len(h) : h[j] \in Msg /\ h[j].by = c /\ h[j].room = r
                                /\ h[j].n \in Nat
      /\ \A i, j \in 1 .. Len(h) : i < j => h[i].n < h[j].n
  <2>1. TextsOf(h, c, r)
    BY HistoryTexts
  <2> QED BY <2>1 DEF TextsOf
<1>4. \A j \in 1 .. Len(h) : Signalled(h[j]) /\ h[j] # p => Signalled(h[j])'
  <2>1. ASSUME NEW m \in Msg, Signalled(m), m # p PROVE Signalled(m)'
    <3>1. TextSignal(m) # TextSignal(p)
      BY <2>1, SignalType
    <3> QED BY <1>2, <2>1, <3>1, SignalledStays
  <2> QED BY <1>3, <2>1
<1>5. /\ ShownOf(c) = {h[j] : j \in 1 .. k}
      /\ \A j \in k + 1 .. Len(h) : Signalled(h[j])
  BY DEF ShowsFirst
<1>6. ShownOf(c)' = IF p.room = r /\ p.by = c THEN ShownOf(c) \cup {p} ELSE ShownOf(c)
  <2>1. CASE p.room = r
    <3>1. Elements(Append(shown, p)) = Elements(shown) \cup {p}
      BY <1>2, ElementsAppend DEF TypeOK
    <3>2. Elements(shown)' = Elements(shown) \cup {p}
      BY <1>2, <2>1, <3>1 DEF Elements
    <3> QED BY <2>1, <3>2 DEF ShownOf
  <2>2. CASE p.room # r
    BY <1>2, <2>2 DEF ShownOf, Elements
  <2> QED BY <2>1, <2>2
<1>7. CASE ~(p.room = r /\ p.by = c)
  <2>1. \A j \in k + 1 .. Len(h) : h[j] # p
    BY <1>3, <1>7
  <2>2. ShowsFirst(c, h, k)'
    BY <1>3, <1>4, <1>5, <1>6, <1>7, <2>1 DEF ShowsFirst
  <2> QED BY <2>2
<1>8. CASE p.room = r /\ p.by = c
  <2>1. PICK i \in 1 .. Len(h) : h[i] = p
    BY <1>2, <1>8 DEF SignalInv, Stored, Elements
  <2>2. \A j \in 1 .. Len(h) : j # i => h[j] # p
    BY <1>3, <2>1
  <2>3. ShownOf(c)' = ShownOf(c) \cup {h[i]}
    BY <1>6, <1>8, <2>1
  <2>4. CASE i <= k
    <3>1. ShownOf(c)' = {h[j] : j \in 1 .. k}
      BY <1>5, <2>3, <2>4
    <3>2. \A j \in k + 1 .. Len(h) : Signalled(h[j])'
      BY <1>3, <1>4, <1>5, <2>2, <2>4
    <3>3. ShowsFirst(c, h, k)'
      BY <3>1, <3>2 DEF ShowsFirst
    <3> QED BY <3>3
  <2>5. CASE i > k
    <3>1. i = k + 1
      <4> SUFFICES ASSUME i # k + 1 PROVE FALSE
        OBVIOUS
      <4>1. k + 1 \in 1 .. Len(h) /\ k + 1 < i /\ k + 1 \in k + 1 .. Len(h)
        BY <1>3, <2>5
      <4>2. PICK l : l = h[k + 1]
        OBVIOUS
      <4>3. l \in Msg /\ l.by = p.by /\ l.n \in Nat /\ p.n \in Nat /\ l.n < p.n /\ Signalled(l)
        BY <1>3, <1>5, <1>8, <2>1, <4>1, <4>2
      <4>4. 1 \in 1 .. Len(events)
        <5>1. events \in Seq(Signal)
          BY DEF TypeOK
        <5> QED BY <1>2, <5>1, TailIs
      <4>5. CASE emitting[l.by] = TextSignal(l)
        <5>1. p.n < l.n
          BY <1>2, <4>3, <4>4, <4>5 DEF SignalInv
        <5> QED BY <4>3, <5>1
      <4>6. ASSUME NEW q \in 1 .. Len(events), events[q] = TextSignal(l) PROVE FALSE
        <5>1. CASE q = 1
          <6>1. l = p
            BY <1>2, <4>6, <5>1, SignalType
          <6> QED BY <4>3, <6>1
        <5>2. CASE q # 1
          <6>1. 1 \in 1 .. q - 1
            BY <5>2
          <6>2. p.n < l.n
            BY <1>2, <4>3, <4>6, <6>1 DEF SignalInv
          <6> QED BY <4>3, <6>2
        <5> QED BY <5>1, <5>2
      <4> QED BY <4>3, <4>5, <4>6 DEF Signalled
    <3>2. ShownOf(c)' = {h[j] : j \in 1 .. k + 1}
      <4>1. \A x : (\E j \in 1 .. k + 1 : x = h[j]) <=> (\E j \in 1 .. k : x = h[j]) \/ x = h[k + 1]
        BY <1>3
      <4> QED BY <1>5, <2>3, <3>1, <4>1
    <3>3. \A j \in (k + 1) + 1 .. Len(h) : Signalled(h[j])'
      BY <1>3, <1>4, <1>5, <2>2, <3>1
    <3>4. ShowsFirst(c, h, k + 1)'
      BY <3>2, <3>3 DEF ShowsFirst
    <3>5. k + 1 \in 0 .. Len(h)
      BY <1>3, <3>1
    <3> QED BY <3>4, <3>5
  <2> QED BY <1>3, <2>4, <2>5
<1> QED BY <1>7, <1>8

\* A text that is read is about to be signalled.
LEMMA ReadSignalled ==
  ASSUME TypeOK, NEW c \in Attempt, NEW r \in Room, TextRead(c, r),
         NEW m, m = Text(c, received[c] + 1, r)
  PROVE  Signalled(m)'
<1>1. m.by = c
  BY ReadText
<1>2. emitting' = [emitting EXCEPT ![c] = TextSignal(m)]
  BY DEF TextRead
<1>3. emitting \in [Attempt -> Signal \cup {NoEvent}]
  BY DEF TypeOK
<1> QED BY <1>1, <1>2, <1>3 DEF Signalled

\* What ScreenInv says after a step, of the Client and room there are then.
LEMMA ScreenFrom ==
  ASSUME NEW c, c = chat_client', NEW r, r = current_room'[c],
         r \notin DOMAIN channels_history'[c] => ShownOf(c)' = {},
         r \in DOMAIN channels_history'[c] =>
           \E h : /\ h = channels_history'[c][r]
                  /\ \E k \in 0 .. Len(h) : ShowsFirst(c, h, k)'
  PROVE  ScreenInv'
<1>1. CASE r \notin DOMAIN channels_history'[c]
  <2>1. ShownOf(chat_client)' = {}
    BY <1>1 DEF ShownOf
  <2>2. current_room'[chat_client'] \notin DOMAIN channels_history'[chat_client']
    BY <1>1
  <2> QED BY <2>1, <2>2 DEF ScreenInv
<1>2. CASE r \in DOMAIN channels_history'[c]
  <2>1. PICK h : /\ h = channels_history'[c][r]
                 /\ \E k \in 0 .. Len(h) : ShowsFirst(c, h, k)'
    BY <1>2
  <2>2. PICK k \in 0 .. Len(h) : ShowsFirst(c, h, k)'
    BY <2>1
  <2>3. ShowsFirst(chat_client, channels_history[chat_client][current_room[chat_client]], k)'
    <3>1. /\ ShownOf(c)' = {h[j] : j \in 1 .. k}
          /\ \A j \in k + 1 .. Len(h) : Signalled(h[j])'
      BY <2>2 DEF ShowsFirst
    <3>2. ShownOf(chat_client)' = ShownOf(c)'
      BY DEF ShownOf
    <3>3. h = channels_history'[chat_client'][current_room'[chat_client']]
      BY <2>1
    <3>4. ShownOf(chat_client)' =
            {channels_history'[chat_client'][current_room'[chat_client']][j] : j \in 1 .. k}
      BY <3>1, <3>2, <3>3
    <3>5. \A j \in k + 1 .. Len(channels_history'[chat_client'][current_room'[chat_client']]) :
            Signalled(channels_history[chat_client][current_room[chat_client]][j])'
      BY <3>1, <3>3 DEF Signalled
    <3> QED BY <3>4, <3>5 DEF ShowsFirst
  <2>4. /\ current_room'[chat_client'] \in DOMAIN channels_history'[chat_client']
        /\ k \in 0 .. Len(channels_history'[chat_client'][current_room'[chat_client']])
    BY <1>2, <2>1, <2>2
  <2> QED BY <2>3, <2>4 DEF ScreenInv
<1> QED BY <1>1, <1>2

\* While none of its texts is on the screen, a history is shown by its first 0 texts.
LEMMA ShowsNone ==
  ASSUME NEW c, NEW h, ShownOf(c)' = {}, Len(h) \in Nat,
         \A j \in 1 .. Len(h) : Signalled(h[j])'
  PROVE  \E k \in 0 .. Len(h) : ShowsFirst(c, h, k)'
<1>1. ShownOf(c)' = {h[j] : j \in 1 .. 0}
  OBVIOUS
<1>2. ShowsFirst(c, h, 0)'
  BY <1>1 DEF ShowsFirst
<1> QED BY <1>2

LEMMA ScreenNext ==
  ASSUME TypeOK, FreshInv, StartInv, StoredInv, SignalInv, ShownInv, ScreenInv, [Next]_vars
  PROVE  ScreenInv'
<1> SUFFICES ASSUME chat_client' # NoClient, gui' = "idle" PROVE ScreenInv'
  BY DEF ScreenInv
<1>w. Writers
  BY WritersNext
<1>0. PICK c, r : c = chat_client' /\ r = current_room'[c]
  OBVIOUS
<1>1. ASSUME NEW a \in Attempt, Connect(a) PROVE ScreenInv'
  <2>1. c = a /\ UNCHANGED <<channels_history, shown>> /\ Unused(a)
    BY <1>0, <1>1, OwnClient DEF Connect, FreshInv, guiVars, Starting
  <2>2. channels_history'[a] = <<>> /\ received[a] = 0
    BY <1>0, <2>1 DEF Unused
  <2>3. \A m \in Elements(shown) : m.by # a
    BY <2>2 DEF ShownInv
  <2>4. ShownOf(c)' = {}
    BY <2>1, <2>3 DEF ShownOf, Elements
  <2>5. r \notin DOMAIN channels_history'[c]
    BY <2>1, <2>2
  <2> QED BY <1>0, <2>4, <2>5, ScreenFrom
<1>2. ASSUME UploadHistory PROVE ScreenInv'
  <2>1. /\ c = chat_client /\ r = current_room[chat_client] /\ c \in Attempt /\ r \in AnyRoom
        /\ r \in DOMAIN channels_history'[c]
    BY <1>0, <1>2, UploadNext
  <2>2. PICK h : h = channels_history'[c][r]
    OBVIOUS
  <2>3. shown' = h /\ (h = <<>> \/ (r \in DOMAIN channels_history[c]
                                      /\ h = channels_history[c][r]))
    BY <1>2, <2>1, <2>2, UploadNext
  <2>4. /\ h \in Seq(Msg) /\ \A j \in 1 .. Len(h) : h[j].by = c
        /\ h # <<>> => r \in Room
    <3>1. ASSUME r \in DOMAIN channels_history[c], h = channels_history[c][r]
          PROVE  /\ h \in Seq(Msg) /\ \A j \in 1 .. Len(h) : h[j].by = c
                 /\ h # <<>> => r \in Room
      <4>1. TextsOf(h, c, r)
        BY <2>1, <3>1, HistoryTexts
      <4> QED BY <4>1 DEF TextsOf
    <3>2. ASSUME h = <<>> PROVE h \in Seq(Msg) /\ Len(h) = 0
      BY <3>2
    <3> QED BY <2>3, <3>1, <3>2
  <2>5. ShownOf(c)' = {h[j] : j \in 1 .. Len(h)}
    BY <2>3, <2>4 DEF ShownOf, Elements
  <2>7. Len(h) \in 0 .. Len(h) /\ \A j \in Len(h) + 1 .. Len(h) : FALSE
    BY <2>4
  <2>8. ShowsFirst(c, h, Len(h))'
    BY <2>5, <2>7 DEF ShowsFirst
  <2>9. \E k \in 0 .. Len(h) : ShowsFirst(c, h, k)'
    BY <2>7, <2>8
  <2> QED BY <1>0, <2>1, <2>2, <2>9, ScreenFrom
<1>3. ASSUME UNCHANGED <<chat_client, gui, current_room>>, ~UploadHistory PROVE ScreenInv'
  <2>1. c = chat_client /\ c \in Attempt /\ r = current_room[c] /\ r \in AnyRoom /\ gui = "idle"
    BY <1>0, <1>3 DEF TypeOK
  <2>2. CASE r \notin DOMAIN channels_history[c]
    <3>1. ShownOf(c) = {}
      BY <1>3, <2>1, <2>2 DEF ScreenInv
    <3>2. ShownOf(c)' = {}
      <4>1. CASE PrintText
        <5>1. PICK p : p = Head(events).msg
          OBVIOUS
        <5>2. /\ p \in Msg /\ Signalled(p)
              /\ shown' = IF p.room = r THEN Append(shown, p) ELSE shown
          BY <2>1, <4>1, <5>1, PrintNext
        <5>3. p.room = r => p.by # c
          BY <2>2, <5>2 DEF SignalInv, Stored
        <5>4. Elements(Append(shown, p)) = Elements(shown) \cup {p}
          BY <5>2, ElementsAppend DEF TypeOK
        <5>5. Elements(shown') \in {Elements(shown), Elements(shown) \cup {p}}
              /\ (p.room # r => Elements(shown') = Elements(shown))
          BY <5>2, <5>4
        <5> QED BY <3>1, <5>3, <5>5 DEF ShownOf, Elements
      <4>2. CASE UNCHANGED shown
        BY <3>1, <4>2 DEF ShownOf, Elements
      <4> QED BY <1>3, <1>w, <4>1, <4>2 DEF Writers
    <3>3. ASSUME r \in DOMAIN channels_history'[c]
          PROVE  \E h : /\ h = channels_history'[c][r]
                        /\ \E k \in 0 .. Len(h) : ShowsFirst(c, h, k)'
      <4>1. PICK h : h = channels_history'[c][r]
        OBVIOUS
      <4>2. h = <<>> \/ (r \in Room /\ TextRead(c, r) /\ h = <<Text(c, received[c] + 1, r)>>)
        BY <2>1, <2>2, <3>3, <4>1, RoomNext
      <4>3. Len(h) \in Nat /\ \A j \in 1 .. Len(h) : Signalled(h[j])'
        <5>1. CASE h = <<>>
          <6>1. Len(h) = 0
            BY <5>1
          <6> QED BY <6>1
        <5>2. CASE r \in Room /\ TextRead(c, r) /\ h = <<Text(c, received[c] + 1, r)>>
          <6>1. PICK m : m = Text(c, received[c] + 1, r)
            OBVIOUS
          <6>2. Signalled(m)'
            BY <2>1, <5>2, <6>1, ReadSignalled
          <6>3. Len(h) = 1 /\ h[1] = m
            BY <5>2, <6>1
          <6>4. \A j \in 1 .. Len(h) : h[j] = m
            BY <6>3
          <6> QED BY <6>2, <6>3, <6>4 DEF Signalled
        <5> QED BY <4>2, <5>1, <5>2
      <4>4. \E k \in 0 .. Len(h) : ShowsFirst(c, h, k)'
        BY <3>2, <4>3, ShowsNone
      <4> QED BY <4>1, <4>4
    <3> QED BY <1>0, <3>2, <3>3, ScreenFrom
  <2>3. CASE r \in DOMAIN channels_history[c]
    <3>1. \E k \in 0 .. Len(channels_history[c][r]) :
               ShowsFirst(c, channels_history[c][r], k)
      BY <1>3, <2>1, <2>3 DEF ScreenInv
    <3>2. PICK h : h = channels_history[c][r]
      OBVIOUS
    <3>3. PICK k \in 0 .. Len(h) : ShowsFirst(c, h, k)
      BY <3>1, <3>2
    <3>4. /\ h \in Seq(Msg) /\ Len(h) \in Nat
          /\ \A j \in 1 .. Len(h) : h[j] \in Msg
      BY <2>1, <2>3, <3>2, HistoryIs
    <3>5. r \in DOMAIN channels_history'[c]
      BY <2>1, <2>3, RoomNext
    <3>6. CASE PrintText
      <4>1. \E i \in 0 .. Len(h) : ShowsFirst(c, h, i)'
        <5>1. /\ TypeOK /\ FreshInv /\ StoredInv /\ SignalInv /\ [Next]_vars /\ PrintText
              /\ c \in Attempt /\ c = chat_client /\ r \in DOMAIN channels_history[c]
              /\ r = current_room[c] /\ h = channels_history[c][r]
              /\ k \in 0 .. Len(h) /\ ShowsFirst(c, h, k)
          BY <2>1, <2>3, <3>2, <3>3, <3>6
        <5> QED BY ONLY <5>1, PrintShows
      <4>2. h = channels_history'[c][r]
        BY <3>2, <3>6 DEF PrintText
      <4> QED BY <1>0, <2>3, <3>5, <4>1, <4>2, ScreenFrom
    <3>7. CASE ~PrintText
      <4>1. shown' = shown
        BY <1>3, <1>w, <3>7 DEF Writers
      <4>2. ShownOf(c)' = {h[j] : j \in 1 .. k}
        BY <3>3, <4>1 DEF ShowsFirst, ShownOf, Elements
      <4>3. \A j \in k + 1 .. Len(h) : Signalled(h[j])'
        <5>1. \A m \in Msg : Signalled(m) => Signalled(m)'
          BY <3>7, SignalledKept
        <5>2. \A j \in k + 1 .. Len(h) : h[j] \in Msg /\ Signalled(h[j])
          BY <3>3, <3>4 DEF ShowsFirst
        <5> QED BY <5>1, <5>2
      <4>4. CASE h = channels_history'[c][r]
        <5>1. ShowsFirst(c, h, k)'
          BY <4>2, <4>3 DEF ShowsFirst
        <5>2. \E i \in 0 .. Len(h) : ShowsFirst(c, h, i)'
          BY <5>1
        <5> QED BY <1>0, <2>3, <3>5, <4>4, <5>2, ScreenFrom
      <4>5. ASSUME r \in Room, TextRead(c, r),
                   channels_history'[c][r] = Append(h, Text(c, received[c] + 1, r))
            PROVE  ScreenInv'
        <5>1. PICK m : m = Text(c, received[c] + 1, r)
          OBVIOUS
        <5>2. PICK g : g = Append(h, m)
          OBVIOUS
        <5>3. m \in Msg /\ m.by = c
          BY <2>1, <4>5, <5>1, ReadText
        <5>4. /\ Len(g) = Len(h) + 1 /\ g[Len(h) + 1] = m
              /\ \A j \in 1 .. Len(h) : g[j] = h[j]
          BY <3>4, <5>2, <5>3, AppendIs
        <5>6. Signalled(m)'
          BY <2>1, <4>5, <5>1, ReadSignalled
        <5>7. \A j \in k + 1 .. Len(g) : Signalled(g[j])'
          <6> SUFFICES ASSUME NEW j \in k + 1 .. Len(g) PROVE Signalled(g[j])'
            OBVIOUS
          <6>1. CASE j = Len(h) + 1
            BY <5>4, <5>6, <6>1 DEF Signalled
          <6>2. CASE j # Len(h) + 1
            <7>1. j \in k + 1 .. Len(h) /\ g[j] = h[j]
              BY <3>4, <5>4, <6>2
            <7> QED BY <4>3, <7>1 DEF Signalled
          <6> QED BY <6>1, <6>2
        <5>8. {g[j] : j \in 1 .. k} = {h[j] : j \in 1 .. k}
          BY <3>4, <5>4
        <5>9. ShowsFirst(c, g, k)' /\ k \in 0 .. Len(g)
          BY <3>4, <4>2, <5>4, <5>7, <5>8 DEF ShowsFirst
        <5>10. \E i \in 0 .. Len(g) : ShowsFirst(c, g, i)'
          BY <5>9
        <5>11. g = channels_history'[c][r]
          BY <4>5, <5>1, <5>2
        <5> QED BY <1>0, <2>3, <3>5, <5>10, <5>11, ScreenFrom
      <4>6. \/ h = channels_history'[c][r]
            \/ /\ r \in Room /\ TextRead(c, r)
               /\ channels_history'[c][r] = Append(h, Text(c, received[c] + 1, r))
        BY <2>1, <2>3, <3>2, <3>5, RoomNext
      <4> QED BY <4>4, <4>5, <4>6
    <3> QED BY <3>6, <3>7
  <2> QED BY <2>2, <2>3
<1>4. \A s \in AnyRoom : ~OpenChannel(s)
  BY DEF OpenChannel
<1> QED BY <1>w, <1>1, <1>2, <1>3, <1>4 DEF Writers

--------------------------------------------------------------------------------
(* The invariant, and the theorems.                                              *)

LEMMA InvInit == Init => Inv
<1> SUFFICES ASSUME Init PROVE Inv
  OBVIOUS
<1>1. TypeOK
  BY DEF Init, TypeOK, IsHistory, AnyRoom
<1>2. FreshInv /\ StartInv
  BY ClientAssumption DEF Init, FreshInv, Unused, StartInv, PointersInv, Starting, Published,
     InWindow, Connecting
<1>3. StoredInv /\ JoinedInv
  BY DEF Init, StoredInv, JoinedInv
<1>4. Elements(shown) = {} /\ events = <<>> /\ shown = <<>>
  BY DEF Init, Elements
<1>5. \A m \in Msg : m.by \in Attempt
  BY DEF Msg
<1>6. \A a \in Attempt : \A m \in Msg : emitting[a] # TextSignal(m)
  BY SignalType DEF Init
<1>7. \A m \in Msg : ~Signalled(m)
  BY <1>4, <1>5, <1>6 DEF Signalled
<1>8. SignalInv
  BY <1>4, <1>6, <1>7 DEF SignalInv
<1>9. ShownInv
  <2>1. \A m \in Msg : Times(m, shown) = 0
    <3>1. shown \in Seq(Msg)
      BY <1>1 DEF TypeOK
    <3> QED BY <1>4, <3>1, TimesType
  <2> QED BY <1>4, <2>1 DEF ShownInv
<1>10. ListAgrees /\ ScreenInv
  BY DEF Init, ListAgrees, ScreenInv
<1>11. RoomsInv /\ SentWhereAsked
  BY DEF Init, RoomsInv, SentWhereAsked
<1> QED BY <1>1, <1>2, <1>3, <1>8, <1>9, <1>10, <1>11 DEF Inv

LEMMA InvNext == Inv /\ [Next]_vars => Inv'
BY TypeNext, FreshNext, StartNext, StoredNext, SignalNext, ShownNext, JoinedNext, ListNext,
   RoomsNext, SentNext, ScreenNext DEF Inv

LEMMA Invariance == Spec => []Inv
BY InvInit, InvNext, PTL DEF Spec

\* Every variable of the chat_client program keeps its type, and a handler has a signal
\* exactly when it is about to emit one.
THEOREM TypeCorrect == Spec => []TypeOK
<1>1. Inv => TypeOK
  BY DEF Inv
<1> QED BY <1>1, Invariance, PTL

\* do_read_join_room_response stores the room before it emits
\* sig_update_channels: every room the Client was told it joined is in the channels
\* window, or an update_list_channels is still to come.
THEOREM ListUpToDate == Spec => []ListAgrees
<1>1. Inv => ListAgrees
  BY DEF Inv
<1> QED BY <1>1, Invariance, PTL

\* on_push_send_clicked sends to a room that was asked for over the same Client.  When
\* the user has signed in twice, the windows and Control may have different Clients:
\* then it may be a room asked for over the other one, or room 0.
THEOREM TextsSentWhereAsked == Spec => []SentWhereAsked
<1>1. Inv => SentWhereAsked
  BY DEF Inv
<1> QED BY <1>1, Invariance, PTL

LEMMA ShownTwice == ASSUME Inv PROVE AtMostTwice
<1> SUFFICES ASSUME NEW m \in Elements(shown)
             PROVE  Times(m, shown) + Times(TextSignal(m), events) <= 2
  BY DEF AtMostTwice
<1>0. /\ shown \in Seq(Msg) /\ events \in Seq(Signal)
      /\ SignalInv /\ ShownInv
  BY DEF Inv, TypeOK
<1>1. m \in Msg /\ m.n \in Nat
  <2>1. \A k \in 1 .. Len(shown) : shown[k] \in Msg
    BY <1>0
  <2> QED BY <2>1 DEF Elements, Msg
<1>2. /\ Times(m, shown) \in Nat /\ Times(m, shown) <= 2
      /\ Signalled(m) => Times(m, shown) <= 1
  BY <1>0, <1>1, TimesType DEF ShownInv
<1>3. /\ Times(TextSignal(m), events) \in Nat
      /\ TextSignal(m) \notin Elements(events) => Times(TextSignal(m), events) = 0
  BY <1>0, TimesType
<1>4. TextSignal(m) \in Elements(events) => Signalled(m)
  BY DEF Elements, Signalled
<1>5. \A j, k \in 1 .. Len(events) :
        events[j] = TextSignal(m) /\ events[k] = TextSignal(m) => j = k
  <2> SUFFICES ASSUME NEW j \in 1 .. Len(events), NEW k \in 1 .. Len(events), j < k,
                      events[j] = TextSignal(m), events[k] = TextSignal(m)
               PROVE  FALSE
    OBVIOUS
  <2>1. j \in 1 .. k - 1
    OBVIOUS
  <2>2. m.n < m.n
    BY <1>0, <1>1, <2>1 DEF SignalInv
  <2> QED BY <1>1, <2>2
<1>6. Times(TextSignal(m), events) <= 1
  BY <1>5, TimesAlone
<1> QED BY <1>2, <1>3, <1>4, <1>6

\* upload_history clears the chat window before it fills it, and a text has one
\* signal: it is on the screen once, or twice if its signal was still in the GUI
\* thread's queue when its room was opened.
THEOREM TextsShownTwice == Spec => []AtMostTwice
<1>1. Inv => AtMostTwice
  BY ShownTwice
<1> QED BY <1>1, Invariance, PTL

LEMMA ScreenShown == ASSUME Inv PROVE ScreenAgrees
<1>0. TypeOK /\ StoredInv /\ ScreenInv
  BY DEF Inv
<1> SUFFICES ASSUME chat_client # NoClient, gui = "idle", NEW r, r = current_room[chat_client],
                    r \in DOMAIN channels_history[chat_client],
                    NEW h, h = channels_history[chat_client][r]
             PROVE  \E k \in 0 .. Len(h) :
                      /\ {m \in Elements(shown) : m.by = chat_client} = Elements(SubSeq(h, 1, k))
                      /\ \A j \in k + 1 .. Len(h) : Coming(chat_client, TextSignal(h[j]))
  BY DEF ScreenAgrees, Has
<1>1. chat_client \in Attempt
  BY <1>0 DEF TypeOK
<1>2. /\ h \in Seq(Msg) /\ Len(h) \in Nat
      /\ \A j \in 1 .. Len(h) : h[j] \in Msg /\ h[j].by = chat_client
      /\ h # <<>> => r \in Room
  <2>1. TextsOf(h, chat_client, r)
    BY <1>0, <1>1, HistoryTexts
  <2> QED BY <2>1 DEF TextsOf
<1>3. PICK k \in 0 .. Len(h) : ShowsFirst(chat_client, h, k)
  BY <1>0 DEF ScreenInv
<1>4. Elements(SubSeq(h, 1, k)) = {h[j] : j \in 1 .. k}
  <2>1. Len(SubSeq(h, 1, k)) = k /\ \A j \in 1 .. k : SubSeq(h, 1, k)[j] = h[j]
    BY <1>2
  <2> QED BY <2>1 DEF Elements
<1>5. \A j \in k + 1 .. Len(h) : Coming(chat_client, TextSignal(h[j]))
  BY <1>2, <1>3 DEF ShowsFirst, Signalled, Coming
<1> QED BY <1>3, <1>4, <1>5 DEF ShowsFirst, ShownOf

\* do_read_echo_response stores a text before it emits it, and Control's windows are
\* told of it in that order: the chat window shows the first texts of its room, none
\* skipped, and each of the others is still signalled.
THEOREM ScreenShows == Spec => []ScreenAgrees
<1>1. Inv => ScreenAgrees
  BY ScreenShown
<1> QED BY <1>1, Invariance, PTL
================================================================================
