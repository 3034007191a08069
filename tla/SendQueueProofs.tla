---------------------------- MODULE SendQueueProofs ----------------------------
(* What the send queue keeps whichever threads send at the same time.            *)
EXTENDS SendQueue, TLAPS

\* Thread t starts a write, or will if it finds the queue with something in it.
Turns(t) == at[t] \in {"start", "more"}

\* A message whose sender took on its writing has somebody at it while it waits.
ServedInv ==
  \A k \in 1 .. Len(send_msgs_queue) :
    \/ send_msgs_queue[k].relies
    \/ failed \/ undefined \/ writes # <<>>
    \/ \E t \in Thread : Turns(t)

Inv == TypeOK /\ ServedInv

LEMMA InvInit == Init => Inv
<1> SUFFICES ASSUME Init PROVE Inv
  OBVIOUS
<1>1. is_open \in BOOLEAN /\ failed \in BOOLEAN /\ undefined \in BOOLEAN
      /\ process_write \in [Thread -> BOOLEAN]
  BY Zenon DEF Init
<1>2. count \in [Sender -> 0 .. MaxMessages]
  BY SendAssumption DEF Init
<1>3. at = [t \in Thread |-> "out"] /\ Sender \subseteq Thread
  BY DEF Init, Thread
<1>4. TypeOK
  BY <1>1, <1>2, <1>3 DEF Init, TypeOK
<1>5. ServedInv
  BY DEF Init, ServedInv
<1> QED BY <1>4, <1>5 DEF Inv

\* Taking one write out of those under way leaves writes.
LEMMA WritesButType ==
  ASSUME writes \in Seq(Write), NEW k \in 1 .. Len(writes)
  PROVE  WritesBut(k) \in Seq(Write)
BY DEF WritesBut

LEMMA InvNext == ASSUME Inv, [Next]_vars PROVE Inv'
<1> USE DEF Inv, TypeOK, Goto
<1>0. IO \in Thread /\ Sender \subseteq Thread
  BY DEF Thread
<1>1. ASSUME NEW t \in Sender, CheckEmpty(t) PROVE Inv'
  <2>1. /\ at' = [at EXCEPT ![t] = "push"] /\ count' = [count EXCEPT ![t] = @ + 1]
        /\ at[t] = "out" /\ count[t] \in 0 .. MaxMessages /\ count[t] < MaxMessages
        /\ UNCHANGED <<send_msgs_queue, writes, is_open, written, failed, undefined>>
    BY <1>1 DEF CheckEmpty
  <2>2. process_write' \in [Thread -> BOOLEAN]
    BY <1>1 DEF CheckEmpty
  <2>3. count' \in [Sender -> 0 .. MaxMessages] /\ count'[t] > 0
        /\ \A u \in Sender : u # t => count'[u] = count[u]
    BY <2>1, SendAssumption
  <2>4. at' \in [Thread -> {"out", "push", "start", "more"}] /\ at'[t] = "push"
        /\ \A u \in Thread : u # t => at'[u] = at[u]
    BY <1>0, <2>1
  <2>5. TypeOK'
    BY <1>0, <2>1, <2>2, <2>3, <2>4
  <2>6. ServedInv'
    BY <2>1, <2>4 DEF ServedInv, Turns
  <2> QED BY <2>5, <2>6
<1>2. ASSUME NEW t \in Sender, Push(t) PROVE Inv'
  <2>1. NewMsg(t) \in Msg /\ (process_write[t] <=> NewMsg(t).relies)
    BY <1>0, <1>2, SendAssumption DEF Push, NewMsg, Msg
  <2>2. send_msgs_queue' = Append(send_msgs_queue, NewMsg(t))
    BY <1>2 DEF Push
  <2>3. /\ send_msgs_queue' \in Seq(Msg)
        /\ \A k \in 1 .. Len(send_msgs_queue') :
             \/ k \in 1 .. Len(send_msgs_queue) /\ send_msgs_queue'[k] = send_msgs_queue[k]
             \/ send_msgs_queue'[k] = NewMsg(t)
    BY <2>1, <2>2
  <2>4. /\ at' = [at EXCEPT ![t] = IF process_write[t] THEN "out" ELSE "start"]
        /\ at[t] = "push"
        /\ UNCHANGED <<writes, is_open, written, failed, undefined, process_write, count>>
    BY <1>2 DEF Push
  <2>5. at' \in [Thread -> {"out", "push", "start", "more"}] /\ at'[t] # "push" /\ at'[t] # "more"
        /\ (~process_write[t] => at'[t] = "start")
        /\ \A u \in Thread : u # t => at'[u] = at[u]
    BY <1>0, <2>4
  <2>6. TypeOK'
    BY <1>0, <2>3, <2>4, <2>5
  <2>7. ASSUME NEW k \in 1 .. Len(send_msgs_queue'), ~send_msgs_queue'[k].relies
        PROVE  failed' \/ undefined' \/ writes' # <<>> \/ \E u \in Thread : Turns(u)'
    <3>1. CASE send_msgs_queue'[k] = NewMsg(t)
      BY <1>0, <2>1, <2>5, <2>7, <3>1 DEF Turns
    <3>2. CASE k \in 1 .. Len(send_msgs_queue) /\ send_msgs_queue'[k] = send_msgs_queue[k]
      BY <2>4, <2>5, <2>7, <3>2 DEF ServedInv, Turns
    <3> QED BY <2>3, <3>1, <3>2
  <2> QED BY <2>6, <2>7 DEF ServedInv
<1>3. ASSUME NEW t \in Thread, Start(t) PROVE Inv'
  <2>1. /\ at' = [at EXCEPT ![t] = "out"]
        /\ UNCHANGED <<send_msgs_queue, is_open, written, failed, process_write, count>>
    BY <1>3 DEF Start
  <2>2. \/ undefined' = TRUE /\ writes' = writes
        \/ writes' \in Seq(Write) /\ writes' # <<>> /\ undefined' = undefined
    <3>1. CASE send_msgs_queue = <<>>
      BY <1>3, <3>1 DEF Start
    <3>2. CASE send_msgs_queue # <<>>
      <4> DEFINE x == [msg |-> Head(send_msgs_queue), open |-> is_open]
      <4>1. x \in Write
        BY <3>2 DEF Write
      <4>2. writes' = Append(writes, x) /\ undefined' = undefined
        BY <1>3, <3>2 DEF Start
      <4> HIDE DEF x
      <4> QED BY <4>1, <4>2
    <3> QED BY <3>1, <3>2
  <2>3. TypeOK'
    <3>1. undefined' \in BOOLEAN /\ writes' \in Seq(Write)
      BY <2>2
    <3> QED BY <1>0, <2>1, <3>1
  <2>4. ServedInv'
    BY <2>1, <2>2 DEF ServedInv
  <2> QED BY <2>3, <2>4
<1>4. ASSUME NEW k \in 1 .. Len(writes), WriteDone(k) PROVE Inv'
  <2>1. /\ at' = [at EXCEPT ![IO] = "more"] /\ at[IO] = "out"
        /\ writes' \in Seq(Write)
        /\ UNCHANGED <<is_open, failed, process_write, count>>
    BY <1>4, WritesButType DEF WriteDone
  <2>2. written' \in Seq(Msg)
    <3>1. writes[k] \in Write
      OBVIOUS
    <3>2. writes[k].msg \in Msg
      BY <3>1 DEF Write
    <3> QED BY <1>4, <3>2 DEF WriteDone
  <2>3. send_msgs_queue' \in Seq(Msg) /\ undefined' \in BOOLEAN
    <3>1. CASE send_msgs_queue = <<>>
      BY <1>4, <3>1 DEF WriteDone
    <3>2. CASE send_msgs_queue # <<>>
      <4>1. send_msgs_queue' = Tail(send_msgs_queue) /\ undefined' = undefined
        BY <1>4, <3>2 DEF WriteDone
      <4> QED BY <3>2, <4>1
    <3> QED BY <3>1, <3>2
  <2>4. TypeOK'
    BY <1>0, <2>1, <2>2, <2>3
  <2>5. Turns(IO)'
    BY <1>0, <2>1 DEF Turns
  <2>6. ServedInv'
    BY <1>0, <2>5 DEF ServedInv
  <2> QED BY <2>4, <2>6
<1>5. ASSUME NEW k \in 1 .. Len(writes), WriteFails(k) PROVE Inv'
  <2>1. /\ failed' = TRUE /\ is_open' = FALSE /\ writes' \in Seq(Write)
        /\ UNCHANGED <<send_msgs_queue, written, undefined, at, process_write, count>>
    BY <1>5, WritesButType DEF WriteFails, threadVars
  <2>2. is_open' \in BOOLEAN /\ failed' \in BOOLEAN
    BY <2>1, Zenon
  <2>3. TypeOK'
    BY <2>1, <2>2
  <2>4. ServedInv'
    BY <2>1 DEF ServedInv
  <2> QED BY <2>3, <2>4
<1>6. ASSUME NextMessage PROVE Inv'
  <2>1. /\ at' = [at EXCEPT ![IO] = IF send_msgs_queue = <<>> THEN "out" ELSE "start"]
        /\ UNCHANGED <<send_msgs_queue, writes, is_open, written, failed, undefined,
                       process_write, count>>
    BY <1>6 DEF NextMessage
  <2>2. TypeOK'
    BY <1>0, <2>1
  <2>3. send_msgs_queue # <<>> => Turns(IO)'
    BY <1>0, <2>1 DEF Turns
  <2>4. ServedInv'
    BY <1>0, <2>1, <2>3 DEF ServedInv
  <2> QED BY <2>2, <2>4
<1>7. ASSUME CloseSocket PROVE Inv'
  BY <1>7 DEF CloseSocket, threadVars, ServedInv, Turns
<1>8. ASSUME UNCHANGED vars PROVE Inv'
  BY <1>8 DEF vars, threadVars, ServedInv, Turns
<1> QED BY <1>1, <1>2, <1>3, <1>4, <1>5, <1>6, <1>7, <1>8 DEF Next, Call, Completion

\* Whichever threads send beside each other and beside the completions of
\* sending_msgs_to_client, the queue comes to rest, no write having failed, only on
\* messages whose senders add_msg_send_queue told that a chain was running.
THEOREM ReliersLeft == Spec => []OnlyReliersLeft
<1>1. ASSUME Inv, [Next]_vars PROVE Inv'
  BY <1>1, InvNext
<1>2. ASSUME Inv PROVE OnlyReliersLeft
  BY <1>2 DEF Inv, ServedInv, OnlyReliersLeft, AtRest, Turns
<1> QED BY <1>1, <1>2, InvInit, PTL DEF Spec

================================================================================
