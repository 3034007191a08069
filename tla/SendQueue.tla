------------------------------- MODULE SendQueue -------------------------------
(***************************************************************************)
(* The sending half of one Connection: send_msg_to_client puts a message   *)
(* on send_msgs_queue, and the first one in starts a chain of async_writes *)
(* whose completions, on the network thread, pop the message written and   *)
(* start the next.  Client::add_msg_to_send and start_send_msgs do the     *)
(* same with msg_to_server, pushed by the GUI thread.                      *)
(*                                                                         *)
(* Nothing protects the queue.  A step here is one operation on it, done   *)
(* whole: what two of them at the same moment would do is left out, and a  *)
(* run ends with the first front() or pop() of an empty queue, after which *)
(* nothing is defined.                                                     *)
(***************************************************************************)
EXTENDS Integers, Sequences, FiniteSets

CONSTANTS
  IO,          \* the network thread: it runs the completions
  Sender,      \* the threads that call send_msg_to_client on this connection
  MaxMessages  \* bound: messages each sender sends

Thread == Sender \cup {IO}

\* A message is its sender's n-th, and its sender starts a write for it or found
\* the queue in use and relies on the chain.
Msg == [by : Sender, n : 1 .. MaxMessages, relies : BOOLEAN]

ASSUME SendAssumption == MaxMessages \in Nat

VARIABLES
  send_msgs_queue,
  writes,         \* async_writes under way, each with the socket as it found it
  is_open,        \* the socket
  written,        \* messages the client has received whole
  failed,         \* a write was reported as failed
  undefined,      \* front() or pop() of an empty queue
  at,             \* where each thread is: "out" of these methods, or ...
  process_write,  \* add_msg_send_queue's local
  count           \* messages each sender has sent

threadVars == <<at, process_write, count>>
vars == <<send_msgs_queue, writes, is_open, written, failed, undefined, threadVars>>

Init ==
  /\ send_msgs_queue = <<>> /\ writes = <<>>
  /\ is_open = TRUE /\ written = <<>>
  /\ failed = FALSE /\ undefined = FALSE
  /\ at = [t \in Thread |-> "out"]
  /\ process_write = [t \in Thread |-> FALSE]
  /\ count = [t \in Sender |-> 0]

Goto(t, l) == at' = [at EXCEPT ![t] = l]

--------------------------------------------------------------------------------
(* A sender's call of send_msg_to_client.                                        *)

\* add_msg_send_queue: bool process_write = !send_msgs_queue.empty(); ...
CheckEmpty(t) ==
  /\ at[t] = "out" /\ count[t] < MaxMessages
  /\ process_write' = [process_write EXCEPT ![t] = send_msgs_queue # <<>>]
  /\ count' = [count EXCEPT ![t] = @ + 1]
  /\ Goto(t, "push")
  /\ UNCHANGED <<send_msgs_queue, writes, is_open, written, failed, undefined>>

NewMsg(t) == [by |-> t, n |-> count[t], relies |-> process_write[t]]

\* ... send_msgs_queue.push; if (!process_write) ...
Push(t) ==
  /\ at[t] = "push"
  /\ send_msgs_queue' = Append(send_msgs_queue, NewMsg(t))
  /\ Goto(t, IF process_write[t] THEN "out" ELSE "start")
  /\ UNCHANGED <<writes, is_open, written, failed, undefined, process_write, count>>

\* ... sending_msgs_to_client(): async_write of send_msgs_queue.front(), which is
\* short enough to be copied into the socket when the write starts.
Start(t) ==
  /\ at[t] = "start"
  /\ IF send_msgs_queue = <<>>
       THEN undefined' = TRUE /\ UNCHANGED writes
       ELSE writes' = Append(writes, [msg |-> Head(send_msgs_queue), open |-> is_open])
            /\ UNCHANGED undefined
  /\ Goto(t, "out")
  /\ UNCHANGED <<send_msgs_queue, is_open, written, failed, process_write, count>>

--------------------------------------------------------------------------------
(* The completions, on the network thread.                                       *)

WritesBut(k) == SubSeq(writes, 1, k - 1) \o SubSeq(writes, k + 1, Len(writes))

\* The write went out: pop.  One that was started on a closed socket cannot.
WriteDone(k) ==
  /\ at[IO] = "out" /\ writes[k].open
  /\ written' = Append(written, writes[k].msg)
  /\ writes' = WritesBut(k)
  /\ IF send_msgs_queue = <<>>
       THEN undefined' = TRUE /\ UNCHANGED send_msgs_queue
       ELSE send_msgs_queue' = Tail(send_msgs_queue) /\ UNCHANGED undefined
  /\ Goto(IO, "more")
  /\ UNCHANGED <<is_open, failed, process_write, count>>

\* Mutant: the completion leaves the rest of the queue where it is.
NextMessageForgotten ==
  /\ at[IO] = "more"
  /\ Goto(IO, "out")
  /\ UNCHANGED <<send_msgs_queue, writes, is_open, written, failed, undefined, process_write, count>>

\* if (!send_msgs_queue.empty()) sending_msgs_to_client();
NextMessage ==
  /\ at[IO] = "more"
  /\ Goto(IO, IF send_msgs_queue = <<>> THEN "out" ELSE "start")
  /\ UNCHANGED <<send_msgs_queue, writes, is_open, written, failed, undefined, process_write, count>>

\* The peer failed or the socket was closed: free_connection closes it, and the
\* message stays in front.  What free_connection announces to this connection
\* too is a call like any other.
WriteFails(k) ==
  /\ at[IO] = "out"
  /\ writes' = WritesBut(k)
  /\ failed' = TRUE /\ is_open' = FALSE
  /\ UNCHANGED <<send_msgs_queue, written, undefined, threadVars>>

\* free_connection closes the socket on behalf of the reading half.
CloseSocket ==
  /\ at[IO] = "out" /\ is_open
  /\ is_open' = FALSE
  /\ UNCHANGED <<send_msgs_queue, writes, written, failed, undefined, threadVars>>

--------------------------------------------------------------------------------
Call(t) == CheckEmpty(t) \/ Push(t)

Completion == \E k \in 1 .. Len(writes) : WriteDone(k) \/ WriteFails(k)

Next ==
  /\ ~undefined
  /\ \/ \E t \in Sender : Call(t)
     \/ \E t \in Thread : Start(t)
     \/ Completion \/ NextMessage \/ CloseSocket

\* A thread inside these methods goes on, and a write is completed in the end:
\* sent, or refused by the peer, its host or the closed socket.
Fairness ==
  /\ \A t \in Sender : WF_vars(Push(t))
  /\ \A t \in Thread : WF_vars(Start(t))
  /\ WF_vars(Completion) /\ WF_vars(NextMessage)

Spec == Init /\ [][Next]_vars
FairSpec == Spec /\ Fairness

--------------------------------------------------------------------------------
(* Properties.                                                                   *)

Write == [msg : Msg, open : BOOLEAN]

\* Every variable has its type, and only the network thread runs completions.
TypeOK ==
  /\ send_msgs_queue \in Seq(Msg) /\ writes \in Seq(Write) /\ written \in Seq(Msg)
  /\ is_open \in BOOLEAN /\ failed \in BOOLEAN /\ undefined \in BOOLEAN
  /\ at \in [Thread -> {"out", "push", "start", "more"}]
  /\ \A t \in Thread \ {IO} : at[t] # "more"
  /\ \A t \in Thread \ Sender : at[t] # "push"
  /\ process_write \in [Thread -> BOOLEAN]
  /\ count \in [Sender -> 0 .. MaxMessages]
  /\ \A t \in Sender : at[t] = "push" => count[t] > 0

Queued(m) == \E k \in 1 .. Len(send_msgs_queue) : send_msgs_queue[k] = m
Written(m) == \E k \in 1 .. Len(written) : written[k] = m

\* "Notify all room's subscribers": a message handed over is written, unless the
\* connection is closed.
AllSent == \A m \in Msg : Queued(m) ~> (Written(m) \/ ~is_open \/ undefined)

\* The queue comes to rest with messages in it only when each of them was pushed
\* by a thread that had found another's message there and left the writing to its
\* chain: a message whose sender found the queue empty has a write under way, or
\* about to be, as long as it waits, whichever threads send beside it.
AtRest == writes = <<>> /\ \A t \in Thread : at[t] \notin {"start", "more"}
OnlyReliersLeft ==
  AtRest /\ ~failed /\ ~undefined =>
    \A k \in 1 .. Len(send_msgs_queue) : send_msgs_queue[k].relies

================================================================================
