------------------------------- MODULE ChatClient ------------------------------
(***************************************************************************)
(* The client program: the windows and Control on the GUI thread, and for  *)
(* every press of a sign-in button a Client with a thread that runs its    *)
(* io_service until nothing is left to do.                                 *)
(*                                                                         *)
(* A Client's handlers store what they read in channels_history and emit a *)
(* signal; the signal waits in the GUI thread's event queue.  The GUI      *)
(* reads channels_history too.  Every step below is one access to what the *)
(* threads share.                                                          *)
(*                                                                         *)
(* Connecting and sending the first request are one step, and the client's *)
(* send queue is left out: it is the server's, which SendQueue describes.  *)
(***************************************************************************)
EXTENDS Integers, Sequences, FiniteSets

CONSTANTS
  Attempt,     \* presses of a sign-in button, and the Client each one makes
  Room,
  NoClient, NoRoom, NoEvent,
  MaxReceived, \* bound: join answers and texts the server sends to each Client
  MaxTexts     \* bound: rooms the user sends texts to over each Client

ASSUME ClientAssumption ==
  /\ NoClient \notin Attempt /\ NoRoom \notin Room
  /\ MaxReceived \in [Attempt -> Nat] /\ MaxTexts \in [Attempt -> Nat]

AnyRoom == Room \cup {NoRoom}

\* The n-th thing the server sent to a Client.
Msg == [by : Attempt, n : Nat, room : Room]
Text(a, n, r) == [by |-> a, n |-> n, room |-> r]

\* A signal: send_text, sig_update_channels, or send_input_code's two outcomes.
Signal == [kind : {"text"}, msg : Msg] \cup [kind : {"update", "accepted", "refused"}]
TextSignal(m) == [kind |-> "text", msg |-> m]
Plain(k) == [kind |-> k]

ASSUME EventAssumption == NoEvent \notin Signal

\* What the map channels_history may be.
IsHistory(h) == DOMAIN h \subseteq AnyRoom /\ h \in [DOMAIN h -> Seq(Msg)]

VARIABLES
  client,      \* Control::client
  channels_client, chat_client,  \* client_ptr of ChannelsWindow and of ChatWindow
  thread,      \* each attempt's thread in connect_to_server
  at,          \* what each Client's io_service does next
  emitting,    \* the signal a handler is about to emit
  sock,        \* Clients whose socket is open
  asked,       \* rooms asked for over each Client
  received,    \* number of join answers and texts each Client read
  joined,      \* rooms each Client was told it joined
  sent,        \* rooms texts were sent to over each Client
  channels_history, current_room,  \* members of Client
  events,      \* the GUI thread's queue
  gui,         \* where the GUI thread is
  windows,     \* the windows shown
  listed,      \* rooms in the channels window
  shown        \* texts in the chat window

clientVars == <<sock, asked, received, joined, sent>>
guiVars == <<gui, windows, listed, shown>>
pointers == <<client, channels_client, chat_client>>
vars == <<pointers, thread, at, emitting, clientVars, channels_history,
          current_room, events, guiVars>>

Init ==
  /\ client = NoClient /\ channels_client = NoClient /\ chat_client = NoClient
  /\ thread = [a \in Attempt |-> "none"]
  /\ at = [a \in Attempt |-> "none"]
  /\ emitting = [a \in Attempt |-> NoEvent]
  /\ sock = {}
  /\ asked = [a \in Attempt |-> {}]
  /\ received = [a \in Attempt |-> 0]
  /\ joined = [a \in Attempt |-> {}]
  /\ sent = [a \in Attempt |-> {}]
  /\ channels_history = [a \in Attempt |-> <<>>] \* the empty map
  /\ current_room = [a \in Attempt |-> NoRoom]
  /\ events = <<>>
  /\ gui = "idle" /\ windows = {"start"} /\ listed = {} /\ shown = <<>>

\* operator[] and try_emplace: a key that is missing gets an empty deque.
Has(h, r) == r \in DOMAIN h
With(h, r) == [s \in DOMAIN h \cup {r} |-> IF Has(h, s) THEN h[s] ELSE <<>>]
Push(h, r, m) == [With(h, r) EXCEPT ![r] = Append(@, m)]

--------------------------------------------------------------------------------
(* Signing in.                                                                   *)

\* The start window stays there until an answer comes: it may be used again.
SignIn(a) ==
  /\ gui = "idle" /\ "start" \in windows /\ thread[a] = "none"
  /\ thread' = [thread EXCEPT ![a] = "create"]
  /\ UNCHANGED <<pointers, at, emitting, clientVars, channels_history,
                 current_room, events, guiVars>>

\* Between here and its io_service's run, connect_to_server uses the Client that
\* Control has.
Connecting(a) == thread[a] \in {"channels", "chat"}

\* It makes its Client that of Control, ...  Two sign-ins that did this at once would
\* destroy a Client that is being connected: undefined, and left out.
MakeClient(a) ==
  /\ thread[a] = "create" /\ \A b \in Attempt : ~Connecting(b)
  /\ client' = a
  /\ thread' = [thread EXCEPT ![a] = "channels"]
  /\ UNCHANGED <<channels_client, chat_client, at, emitting, clientVars,
                 channels_history, current_room, events, guiVars>>

\* ... of the channels window, ...
SetChannelsClient(a) ==
  /\ thread[a] = "channels"
  /\ channels_client' = client
  /\ thread' = [thread EXCEPT ![a] = "chat"]
  /\ UNCHANGED <<client, chat_client, at, emitting, clientVars, channels_history,
                 current_room, events, guiVars>>

\* ... and of the chat window, and runs io_service: connected, or nobody answers.
Connect(a) ==
  /\ thread[a] = "chat"
  /\ chat_client' = client
  /\ thread' = [thread EXCEPT ![a] = "run"]
  /\ \/ at' = [at EXCEPT ![a] = "answer"] /\ sock' = sock \cup {a}
     \/ at' = [at EXCEPT ![a] = "stopped"] /\ UNCHANGED sock
  /\ UNCHANGED <<client, channels_client, emitting, asked, received, joined, sent,
                 channels_history, current_room, events, guiVars>>

\* The run is over: the thread closes the Client that Control has by now.
EndSession(a) ==
  /\ thread[a] = "run" /\ at[a] = "stopped"
  /\ thread' = [thread EXCEPT ![a] = "done"]
  /\ sock' = sock \ {client}
  /\ UNCHANGED <<pointers, at, emitting, asked, received, joined, sent,
                 channels_history, current_room, events, guiVars>>

--------------------------------------------------------------------------------
(* The handlers of a Client, on its io_service's thread.                         *)

AtIO(a, from, to) == at[a] = from /\ at' = [at EXCEPT ![a] = to]

\* do_read_input_response, do_read_reg_response.
Accepted(a) ==
  /\ a \in sock /\ AtIO(a, "answer", "read")
  /\ events' = Append(events, Plain("accepted"))
  /\ UNCHANGED <<pointers, thread, emitting, clientVars, channels_history,
                 current_room, guiVars>>

Refused(a) ==
  /\ a \in sock /\ AtIO(a, "answer", "stopped")
  /\ events' = Append(events, Plain("refused"))
  /\ sock' = sock \ {a}
  /\ UNCHANGED <<pointers, thread, emitting, asked, received, joined, sent,
                 channels_history, current_room, guiVars>>

\* The server sends a Client join answers and texts, in any order.
Receive(a, r) ==
  /\ a \in sock /\ r \in asked[a] /\ received[a] < MaxReceived[a]
  /\ AtIO(a, "read", "emit")
  /\ received' = [received EXCEPT ![a] = @ + 1]
  /\ UNCHANGED <<pointers, thread, sock, asked, sent, current_room, events, guiVars>>

\* Mutant: try_emplace is forgotten, and the history is made when a text comes.
JoinNotStored(a, r) ==
  /\ a \in sock /\ r \in asked[a] /\ received[a] < MaxReceived[a]
  /\ at[a] = "read" /\ received' = [received EXCEPT ![a] = @ + 1]
  /\ joined' = [joined EXCEPT ![a] = @ \cup {r}]
  /\ events' = Append(events, Plain("update"))
  /\ UNCHANGED <<pointers, thread, at, emitting, sock, asked, sent, channels_history,
                 current_room, guiVars>>

\* do_read_join_room_response, status OK: try_emplace, then the signal.
JoinAccepted(a, r) ==
  /\ Receive(a, r)
  /\ joined' = [joined EXCEPT ![a] = @ \cup {r}]
  /\ channels_history' = [channels_history EXCEPT ![a] = With(@, r)]
  /\ emitting' = [emitting EXCEPT ![a] = Plain("update")]

\* Mutant: the text is handed to the windows and not stored.
TextNotStored(a, r) ==
  /\ Receive(a, r)
  /\ emitting' = [emitting EXCEPT ![a] = TextSignal(Text(a, received[a] + 1, r))]
  /\ UNCHANGED <<joined, channels_history>>

\* do_read_echo_response: push_back, then the signal.
TextRead(a, r) ==
  LET m == Text(a, received[a] + 1, r) IN
  /\ Receive(a, r)
  /\ channels_history' = [channels_history EXCEPT ![a] = Push(@, r, m)]
  /\ emitting' = [emitting EXCEPT ![a] = TextSignal(m)]
  /\ UNCHANGED joined

\* Mutant: the signal is not reset.
EmitAgain(a) ==
  /\ AtIO(a, "emit", "read")
  /\ events' = Append(events, emitting[a])
  /\ UNCHANGED <<pointers, thread, emitting, clientVars, channels_history,
                 current_room, guiVars>>

\* emit, and the next header read is started.
Emit(a) ==
  /\ AtIO(a, "emit", "read")
  /\ events' = Append(events, emitting[a])
  /\ emitting' = [emitting EXCEPT ![a] = NoEvent]
  /\ UNCHANGED <<pointers, thread, clientVars, channels_history, current_room, guiVars>>

\* A refused join, a lost connection, and a socket that another thread closed.
ReadFails(a) ==
  /\ AtIO(a, "answer", "stopped") \/ AtIO(a, "read", "stopped")
  /\ sock' = sock \ {a}
  /\ UNCHANGED <<pointers, thread, emitting, asked, received, joined, sent,
                 channels_history, current_room, events, guiVars>>

--------------------------------------------------------------------------------
(* The GUI thread.                                                               *)

TakeEvent == gui = "idle" /\ events # <<>> /\ events' = Tail(events)

\* Control::change_window: a refusal only brings up a message box.
ChangeWindow ==
  /\ TakeEvent /\ Head(events).kind \in {"accepted", "refused"}
  /\ windows' = IF Head(events).kind = "refused" THEN windows
                ELSE (windows \ {"start"}) \cup {"channels"}
  /\ UNCHANGED <<pointers, thread, at, emitting, clientVars, channels_history,
                 current_room, gui, listed, shown>>

\* ChannelsWindow::update_list_channels.
UpdateChannels ==
  /\ TakeEvent /\ Head(events).kind = "update"
  /\ listed' = DOMAIN channels_history[channels_client]
  /\ UNCHANGED <<pointers, thread, at, emitting, clientVars, channels_history,
                 current_room, gui, windows, shown>>

\* ChatWindow::print_text shows a text of the current channel.
PrintText ==
  LET m == Head(events).msg IN
  /\ TakeEvent /\ Head(events).kind = "text"
  /\ shown' = IF m.room = current_room[chat_client] THEN Append(shown, m) ELSE shown
  /\ UNCHANGED <<pointers, thread, at, emitting, clientVars, channels_history,
                 current_room, gui, windows, listed>>

\* A number typed in the channels window is asked for; a closed Client loses it.
AddChannel(r) ==
  /\ gui = "idle" /\ "channels" \in windows
  /\ asked' = [asked EXCEPT ![client] = IF client \in sock THEN @ \cup {r} ELSE @]
  /\ UNCHANGED <<pointers, thread, at, emitting, sock, received, joined, sent,
                 channels_history, current_room, events, guiVars>>

\* Mutant: the room is not set, as the signal alone opens the chat window.
OpenOnly(r) ==
  /\ gui = "idle" /\ "channels" \in windows /\ r \in listed
  /\ gui' = "upload"
  /\ UNCHANGED <<pointers, thread, at, emitting, clientVars, channels_history,
                 current_room, events, windows, listed, shown>>

\* A room in the list is opened: the window sets the current channel of its Client,
\* and go_channel that of Control's, ...
OpenChannel(r) ==
  /\ gui = "idle" /\ "channels" \in windows /\ r \in listed
  /\ current_room' = [current_room EXCEPT ![channels_client] = r, ![client] = r]
  /\ gui' = "upload"
  /\ UNCHANGED <<pointers, thread, at, emitting, clientVars, channels_history,
                 events, windows, listed, shown>>

\* Mutant: the text window is not cleared.
UploadUncleared ==
  LET r == current_room[chat_client] h == With(channels_history[chat_client], r) IN
  /\ gui = "upload" /\ gui' = "idle"
  /\ shown' = shown \o h[r]
  /\ channels_history' = [channels_history EXCEPT ![chat_client] = h]
  /\ windows' = (windows \ {"channels"}) \cup {"chat"}
  /\ UNCHANGED <<pointers, thread, at, emitting, clientVars, current_room, events, listed>>

\* ... and upload_history clears the text window and fills it from the history of the
\* Client that the chat window has by then.
UploadHistory ==
  LET r == current_room[chat_client] h == With(channels_history[chat_client], r) IN
  /\ gui = "upload" /\ gui' = "idle"
  /\ shown' = h[r]
  /\ channels_history' = [channels_history EXCEPT ![chat_client] = h]
  /\ windows' = (windows \ {"channels"}) \cup {"chat"}
  /\ UNCHANGED <<pointers, thread, at, emitting, clientVars, current_room, events, listed>>

\* on_push_send_clicked: a text for the current room of the Client the window has by
\* then, be that the one whose texts it shows or not, over Control's; a closed one
\* loses it.
SendText ==
  /\ gui = "idle" /\ "chat" \in windows
  /\ Cardinality(sent[client]) < MaxTexts[client]
  /\ sent' = [sent EXCEPT ![client] =
                IF client \in sock THEN @ \cup {current_room[chat_client]} ELSE @]
  /\ UNCHANGED <<pointers, thread, at, emitting, sock, asked, received, joined,
                 channels_history, current_room, events, guiVars>>

Back ==
  /\ gui = "idle" /\ "chat" \in windows
  /\ windows' = (windows \ {"chat"}) \cup {"channels"}
  /\ UNCHANGED <<pointers, thread, at, emitting, clientVars, channels_history,
                 current_room, events, gui, listed, shown>>

--------------------------------------------------------------------------------
Next ==
  \/ \E a \in Attempt :
       \/ SignIn(a) \/ MakeClient(a) \/ SetChannelsClient(a) \/ Connect(a) \/ EndSession(a)
       \/ Accepted(a) \/ Refused(a) \/ Emit(a) \/ ReadFails(a)
       \/ \E r \in Room : JoinAccepted(a, r) \/ TextRead(a, r)
  \/ ChangeWindow \/ UpdateChannels \/ PrintText \/ UploadHistory \/ Back
  \/ SendText
  \/ \E r \in AnyRoom : OpenChannel(r)
  \/ \E r \in Room : AddChannel(r)

Spec == Init /\ [][Next]_vars

--------------------------------------------------------------------------------
(* Properties.                                                                   *)

\* Every variable has its type, and a handler has a signal when it emits one.
TypeOK ==
  /\ {client, channels_client, chat_client} \subseteq Attempt \cup {NoClient}
  /\ thread \in [Attempt -> {"none", "create", "channels", "chat", "run", "done"}]
  /\ at \in [Attempt -> {"none", "answer", "read", "emit", "stopped"}]
  /\ emitting \in [Attempt -> Signal \cup {NoEvent}]
  /\ \A a \in Attempt : at[a] = "emit" <=> emitting[a] # NoEvent
  /\ sock \subseteq Attempt /\ asked \in [Attempt -> SUBSET Room]
  /\ received \in [Attempt -> Nat]
  /\ joined \in [Attempt -> SUBSET Room]
  /\ sent \in [Attempt -> SUBSET AnyRoom]
  /\ channels_history = [a \in Attempt |-> channels_history[a]]
  /\ \A a \in Attempt : IsHistory(channels_history[a])
  /\ current_room \in [Attempt -> AnyRoom]
  /\ events \in Seq(Signal) /\ shown \in Seq(Msg)
  /\ gui \in {"idle", "upload"} /\ windows \subseteq {"start", "channels", "chat"}
  /\ listed \subseteq AnyRoom

\* A signal that will still reach the GUI thread.
Coming(a, s) ==
  emitting[a] = s \/ \E k \in 1 .. Len(events) : events[k] = s

Elements(s) == {s[k] : k \in 1 .. Len(s)}

\* The chat window shows the texts of the room it is on as they were received,
\* none skipped: a first part of that room's history, and each later one will
\* still be signalled.  do_read_echo_response stores a text before it emits.
ScreenAgrees ==
  LET a == chat_client r == current_room[a] h == channels_history[a] IN
  a # NoClient /\ gui = "idle" /\ Has(h, r) =>
    \E k \in 0 .. Len(h[r]) :
      /\ {m \in Elements(shown) : m.by = a} = Elements(SubSeq(h[r], 1, k))
      /\ \A j \in k + 1 .. Len(h[r]) : Coming(a, TextSignal(h[r][j]))

\* A room that the Client of the channels window was told it joined is in the
\* window, or the window is about to be brought up to date.
ListAgrees ==
  LET a == channels_client IN
  a # NoClient /\ ~Coming(a, Plain("update")) => joined[a] \subseteq listed

\* "sender's room": a text goes to a room its user asked for over the same Client.
\* When another Client is in use too, the windows may have the one and Control the
\* other: then the room may be one asked for over that, or none at all.
SentWhereAsked ==
  \A a \in Attempt : \A r \in sent[a] \ asked[a] : \E b \in Attempt \ {a} :
    r \in asked[b] \/ (r = NoRoom /\ thread[b] \notin {"none", "create"})

Times(x, s) == Cardinality({k \in 1 .. Len(s) : s[k] = x})

\* A text is on the screen once, or twice if its signal was still in the queue
\* when the room was opened, and never more often.
AtMostTwice ==
  \A m \in Elements(shown) :
    Times(m, shown) + Times(TextSignal(m), events) <= 2

================================================================================
