---------------------------- MODULE MediaMailbox ----------------------------
(***************************************************************************)
(* The mailboxes through which the three CPUs of the chip call each other  *)
(* (components/multimedia/mailbox): media_app_mailbox.c on CPU0,           *)
(* media_major_mailbox.c on CPU1, media_minor_mailbox.c on CPU2.           *)
(*                                                                         *)
(* A message is a struct on the stack of the caller; what travels is its   *)
(* address, so that all CPUs write to the same struct.  Each CPU has one   *)
(* mailbox thread with a list of messages to send or to handle (req), a    *)
(* list of requests that wait for their answer (rsp), and a queue that its *)
(* interrupt handlers fill.                                                *)
(***************************************************************************)
EXTENDS Naturals, FiniteSets, SequencesExt

CONSTANTS
    Calls,          \* requests sent with ..._sync, each from its own thread
    Notes,          \* notifications
    From, To,       \* the CPU a message starts from, and the CPU it is for
    QueueLen,       \* capacity of the queue from the interrupt handlers
    Faulty,         \* the messages that meet faults
    FailingWrites,  \* the types under which their mb_chnl_write may fail
    LosableTypes,   \* the types under which the channel may lose them
    MaxFaults       \* bound: failed writes and lost messages together

Cpus == {"app", "major", "minor"}
Types == {"REQ", "RSP", "NOTIFY"}
Msgs == Calls \cup Notes

ASSUME MailboxAssumption ==
    /\ From \in [Msgs -> Cpus] /\ To \in [Msgs -> Cpus]
    /\ Calls \cap Notes = {} /\ "none" \notin Msgs
    \* media_app_mailbox.c sends no notification and media_minor_mailbox.c
    \* has no caller of msg_send_req_to_media_minor_mailbox_sync.
    /\ \A m \in Calls : <<From[m], To[m]>> \in
           {<<"app", "major">>, <<"major", "app">>, <<"major", "minor">>}
    /\ \A m \in Notes : <<From[m], To[m]>> \in
           {<<"major", "app">>, <<"major", "minor">>, <<"minor", "major">>}
    /\ QueueLen \in Nat \ {0} /\ MaxFaults \in Nat
    /\ Faulty \subseteq Msgs
    /\ FailingWrites \subseteq Types /\ LosableTypes \subseteq Types

VARIABLES
    req, rsp,        \* the two lists of each CPU
    queue,           \* of <<message, ori>>: 0 came in, 1 was sent
    sem, rsp_sem,    \* tokens: something to do; the channel is done
    at,              \* the place of each mailbox thread
    cur,             \* the message it is sending
    send_ack_flag,   \* whether that message has to be acknowledged
    wire,            \* the channel from each CPU: none, sent or taken
    msg,             \* the structs
    given,           \* the token of msg->sem
    outcome,         \* of each call: idle, waiting, ok or fail
    service,         \* at the other end: none, serving, ok or fail
    faults           \* failed writes and lost messages so far

lists == <<req, rsp, queue>>
thread == <<at, cur, send_ack_flag>>
ends == <<given, outcome, service>>
vars == <<lists, sem, rsp_sem, thread, wire, msg, ends, faults>>

(* The CPU at the other end of the channel a message travels on.            *)
Peer(c, m) == IF c = From[m] THEN To[m] ELSE From[m]

(* What a sender puts into the struct before it queues it.                  *)
Addressed(m, c, d, type) ==
    [msg[m] EXCEPT !.src = c, !.dest = d, !.type = type, !.count = 0]

(* msg_send_to_media_*_mailbox_list: append and wake the thread.            *)
PushReq(c, m) == /\ req' = [req EXCEPT ![c] = Append(@, m)]
                 /\ sem' = [sem EXCEPT ![c] = 1]

(* media_send_msg_to_queue: an entry that finds the queue full is dropped.  *)
Enqueued(c, entry) ==
    IF Len(queue[c]) < QueueLen
    THEN [queue EXCEPT ![c] = Append(@, entry)]
    ELSE queue

Blank == [type |-> "REQ", src |-> "app", dest |-> "app", count |-> 0,
          ack |-> "SEND", result |-> "ok"]

Init ==
    /\ req = [c \in Cpus |-> <<>>] /\ rsp = [c \in Cpus |-> <<>>]
    /\ queue = [c \in Cpus |-> <<>>]
    /\ sem = [c \in Cpus |-> 0] /\ rsp_sem = [c \in Cpus |-> 0]
    /\ at = [c \in Cpus |-> "pop"]
    /\ cur \in [Cpus -> {"none"}]
    /\ send_ack_flag = [c \in Cpus |-> FALSE]
    /\ wire = [c \in Cpus |-> "none"]
    /\ msg = [m \in Msgs |-> Blank]
    /\ given = [m \in Calls |-> 0]
    /\ outcome = [m \in Calls |-> "idle"]
    /\ service = [m \in Msgs |-> "none"]
    /\ faults = 0
-----------------------------------------------------------------------------
(* The threads that use the mailboxes.                                      *)

(* msg_send_req_to_media_*_mailbox_sync, up to the wait for msg.sem.        *)
Call(m) ==
    LET c == From[m] IN
    /\ outcome[m] = "idle"
    /\ outcome' = [outcome EXCEPT ![m] = "waiting"]
    /\ msg' = [msg EXCEPT ![m] = Addressed(m, c, To[m], "REQ")]
    /\ PushReq(c, m)
    /\ UNCHANGED <<rsp, queue, rsp_sem, thread, wire, given, service, faults>>

(* From the wait on: the struct is gone when the call returns.              *)
Return(m) ==
    /\ outcome[m] = "waiting" /\ given[m] = 1
    /\ given' = [given EXCEPT ![m] = 0]
    /\ outcome' = [outcome EXCEPT ![m] = msg[m].result]
    /\ msg' = [msg EXCEPT ![m] = Blank]
    /\ UNCHANGED <<lists, sem, rsp_sem, thread, wire, service, faults>>

Notify(m) ==
    LET c == From[m] IN
    /\ msg[m].src # c
    /\ msg' = [msg EXCEPT ![m] = Addressed(m, c, To[m], "NOTIFY")]
    /\ PushReq(c, m)
    /\ UNCHANGED <<rsp, queue, rsp_sem, thread, wire, ends, faults>>

(* What an answer puts into the struct; faulty forms that forget the result *)
(* or address the answer to the CPU that gives it.                          *)
AnsweredWithoutResult(m, c, r) == Addressed(m, c, From[m], "RSP")
AnsweredToSelf(m, c, r) == [Addressed(m, c, c, "RSP") EXCEPT !.result = r]

Answered(m, c, r) == [Addressed(m, c, From[m], "RSP") EXCEPT !.result = r]

(* msg_send_rsp_to_media_*_mailbox, by the thread that handled the request. *)
Answer(m) ==
    LET c == To[m] IN
    /\ service[m] = "serving"
    /\ \E r \in {"ok", "fail"} :
          /\ service' = [service EXCEPT ![m] = r]
          /\ msg' = [msg EXCEPT ![m] = Answered(m, c, r)]
    /\ PushReq(c, m)
    /\ UNCHANGED <<rsp, queue, rsp_sem, thread, wire, given, outcome, faults>>
-----------------------------------------------------------------------------
(* The mailbox thread: media_*_mailbox_message_handle.                      *)

Goto(c, place) == at' = [at EXCEPT ![c] = place]

(* The function that sends a message returns, and with it go its variables. *)
SendEnds(c) == /\ Goto(c, "drain")
               /\ cur' = [cur EXCEPT ![c] = "none"]
               /\ send_ack_flag' = [send_ack_flag EXCEPT ![c] = FALSE]

Popped(c, m) == at[c] = "pop" /\ req[c] # <<>> /\ m = Head(req[c])

PopEmpty(c) ==
    /\ at[c] = "pop" /\ req[c] = <<>>
    /\ Goto(c, "sem")
    /\ UNCHANGED <<lists, sem, rsp_sem, cur, send_ack_flag, wire, msg, ends, faults>>

WakeUp(c) ==
    /\ at[c] = "sem" /\ sem[c] = 1
    /\ sem' = [sem EXCEPT ![c] = 0]
    /\ Goto(c, "drain")
    /\ UNCHANGED <<lists, rsp_sem, cur, send_ack_flag, wire, msg, ends, faults>>

(* Faulty form: a message that could not be sent comes back as a success.   *)
SentBackAsSuccess(c, m) ==
    IF c = "major" THEN msg[m] ELSE Addressed(m, c, c, "RSP")

(* msg_send_back_to_media_*_mailbox: CPU0 and CPU2 turn the message into a  *)
(* failed response to themselves; on CPU1 these lines are compiled out.     *)
SentBack(c, m) ==
    IF c = "major" THEN msg[m]
    ELSE [Addressed(m, c, c, "RSP") EXCEPT !.result = "fail"]

(* Appending the message just popped again.                                 *)
Resubmitted(c, m) == [req EXCEPT ![c] = Append(Tail(@), m)]

(* The limit on attempts; a faulty form allows one more.                    *)
ExhaustedLate(m) == msg[m].count > 3
Exhausted(m) == msg[m].count > 2

(* A message sent three times without success.                              *)
PopExhausted(c, m) ==
    /\ Popped(c, m) /\ Exhausted(m)
    /\ IF msg[m].type = "REQ"
       THEN /\ req' = Resubmitted(c, m)
            /\ sem' = [sem EXCEPT ![c] = 1]
            /\ msg' = [msg EXCEPT ![m] = SentBack(c, m)]
       ELSE req' = [req EXCEPT ![c] = Tail(@)] /\ UNCHANGED <<sem, msg>>
    /\ UNCHANGED <<rsp, queue, rsp_sem, thread, wire, ends, faults>>

(* The message goes to the hardware channel and the thread waits for it.    *)
PopSend(c, m) ==
    /\ Popped(c, m) /\ ~Exhausted(m) /\ msg[m].dest # c
    /\ req' = [req EXCEPT ![c] = Tail(@)]
    /\ msg' = [msg EXCEPT ![m].ack = "SEND"]
    /\ send_ack_flag' = [send_ack_flag EXCEPT ![c] = msg[m].type # "RSP"]
    /\ cur' = [cur EXCEPT ![c] = m]
    /\ wire' = [wire EXCEPT ![c] = "sent"]
    /\ Goto(c, "ack")
    /\ UNCHANGED <<rsp, queue, sem, rsp_sem, ends, faults>>

(* mb_chnl_write fails: the message is sent back at once.                   *)
PopSendFails(c, m) ==
    /\ Popped(c, m) /\ ~Exhausted(m) /\ msg[m].dest # c
    /\ m \in Faulty /\ msg[m].type \in FailingWrites /\ faults < MaxFaults
    /\ faults' = faults + 1
    /\ req' = Resubmitted(c, m)
    /\ sem' = [sem EXCEPT ![c] = 1]
    /\ msg' = [msg EXCEPT ![m] = [SentBack(c, m) EXCEPT !.ack = "SEND"]]
    /\ Goto(c, "drain")
    /\ UNCHANGED <<rsp, queue, rsp_sem, cur, send_ack_flag, wire, ends>>

(* media_mailbox_list_del_node: the first entry for the message goes; in a  *)
(* faulty form nothing goes.                                                *)
KeptListed(list, m) == list

Unlisted(list, m) == RemoveFirst(list, m)

(* media_*_mailbox_msg_handle: a request goes to the thread it is for, a    *)
(* response wakes its caller (CPU2 has no callers and ignores it).          *)
PopHandle(c, m) ==
    /\ Popped(c, m) /\ ~Exhausted(m) /\ msg[m].dest = c
    /\ req' = [req EXCEPT ![c] = Tail(@)]
    /\ IF msg[m].type = "RSP"
       THEN /\ IF c # "minor" /\ m \in Calls
               THEN /\ rsp' = [rsp EXCEPT ![c] = Unlisted(@, m)]
                    /\ given' = [given EXCEPT ![m] = 1]
               ELSE UNCHANGED <<rsp, given>>
            /\ UNCHANGED service
       ELSE /\ service' = [service EXCEPT ![m] =
                              IF msg[m].type = "REQ" THEN "serving" ELSE "ok"]
            /\ UNCHANGED <<rsp, given>>
    /\ Goto(c, "drain")
    /\ UNCHANGED <<queue, sem, rsp_sem, cur, send_ack_flag, wire, msg, outcome, faults>>

(* A request that did not arrive is counted and queued again; in a faulty   *)
(* form it is forgotten.                                                    *)
RequeueNothing(c, m) == UNCHANGED <<req, sem, msg>>

Requeue(c, m) ==
    IF msg[m].type = "REQ"
    THEN msg' = [msg EXCEPT ![m].count = @ + 1] /\ PushReq(c, m)
    ELSE UNCHANGED <<req, sem, msg>>

(* Whether the other CPU has seen the message; a faulty form never looks.   *)
NeverAcknowledged(m) == FALSE
Acknowledged(m) == msg[m].ack = "ACK"

(* The channel is done with the message: is it acknowledged?                *)
AckWake(c) ==
    LET m == cur[c] IN
    /\ at[c] = "ack" /\ rsp_sem[c] = 1
    /\ rsp_sem' = [rsp_sem EXCEPT ![c] = 0]
    /\ IF send_ack_flag[c] /\ Acknowledged(m) /\ msg[m].type = "REQ"
       THEN Goto(c, "note") /\ UNCHANGED <<cur, send_ack_flag>>
       ELSE SendEnds(c)
    /\ IF send_ack_flag[c] /\ ~Acknowledged(m)
       THEN Requeue(c, m) ELSE UNCHANGED <<req, sem, msg>>
    /\ UNCHANGED <<rsp, queue, wire, ends, faults>>

(* Entries of the queue: a message that was sent, and a message that came   *)
(* in; a faulty form confuses them.                                         *)
SentAsReceived(m) == <<m, 0>>
Sent(m) == <<m, 1>>
Received(m) == <<m, 0>>

(* An acknowledged request is noted through the queue, as the answer will   *)
(* come through it; the answer may be there first.                          *)
NoteSent(c) ==
    /\ at[c] = "note"
    /\ queue' = Enqueued(c, Sent(cur[c]))
    /\ SendEnds(c)
    /\ UNCHANGED <<req, rsp, sem, rsp_sem, wire, msg, ends, faults>>

(* 2000 ms without a sign of the message: a request is queued again.  The   *)
(* wait is taken to run out only when the message was lost.                 *)
AckTimeout(c) ==
    LET m == cur[c] IN
    /\ at[c] = "ack" /\ rsp_sem[c] = 0 /\ wire[c] = "none"
    /\ Requeue(c, m)
    /\ SendEnds(c)
    /\ UNCHANGED <<rsp, queue, rsp_sem, wire, ends, faults>>

(* One turn of the loop that empties the queue into the lists.              *)
Drain(c) ==
    LET entry == Head(queue[c]) IN
    /\ at[c] = "drain" /\ queue[c] # <<>>
    /\ queue' = [queue EXCEPT ![c] = Tail(@)]
    /\ IF entry[2] = 0
       THEN req' = [req EXCEPT ![c] = Append(@, entry[1])] /\ UNCHANGED rsp
       ELSE rsp' = [rsp EXCEPT ![c] = Append(@, entry[1])] /\ UNCHANGED req
    /\ UNCHANGED <<sem, rsp_sem, thread, wire, msg, ends, faults>>

DrainEnd(c) ==
    /\ at[c] = "drain" /\ queue[c] = <<>>
    /\ Goto(c, "pop")
    /\ UNCHANGED <<lists, sem, rsp_sem, cur, send_ack_flag, wire, msg, ends, faults>>
-----------------------------------------------------------------------------
(* The interrupt handlers and the hardware channel from CPU c.              *)

(* media_*_mailbox_rx_isr, on the CPU that receives.                        *)
RxIsr(c) ==
    LET m == cur[c]  d == Peer(c, cur[c]) IN
    /\ wire[c] = "sent"
    /\ wire' = [wire EXCEPT ![c] = "taken"]
    /\ IF msg[m].ack = "SEND"
       THEN /\ msg' = [msg EXCEPT ![m].ack = "ACK"]
            /\ queue' = Enqueued(d, Received(m))
            /\ sem' = [sem EXCEPT ![d] = 1]
       ELSE UNCHANGED <<msg, queue, sem>>
    /\ UNCHANGED <<req, rsp, rsp_sem, thread, ends, faults>>

(* media_*_mailbox_tx_cmpl_isr, on the CPU that sent.                       *)
TxCmplIsr(c) ==
    /\ wire[c] = "taken"
    /\ wire' = [wire EXCEPT ![c] = "none"]
    /\ rsp_sem' = [rsp_sem EXCEPT ![c] = 1]
    /\ UNCHANGED <<lists, sem, thread, msg, ends, faults>>

Lose(c) ==
    /\ wire[c] = "sent"
    /\ cur[c] \in Faulty /\ msg[cur[c]].type \in LosableTypes /\ faults < MaxFaults
    /\ faults' = faults + 1
    /\ wire' = [wire EXCEPT ![c] = "none"]
    /\ UNCHANGED <<lists, sem, rsp_sem, thread, msg, ends>>
-----------------------------------------------------------------------------
Caller == \/ \E m \in Calls : Call(m) \/ Return(m) \/ Answer(m)
          \/ \E m \in Notes : Notify(m)

ThreadStep(c) ==
    \/ PopEmpty(c) \/ WakeUp(c) \/ AckWake(c) \/ NoteSent(c) \/ AckTimeout(c)
    \/ Drain(c) \/ DrainEnd(c)
    \/ \E m \in Msgs : PopExhausted(c, m) \/ PopSend(c, m) \/ PopHandle(c, m)

Isr(c) == RxIsr(c) \/ TxCmplIsr(c)

Fault(c) == Lose(c) \/ \E m \in Msgs : PopSendFails(c, m)

Next == Caller \/ \E c \in Cpus : ThreadStep(c) \/ Isr(c) \/ Fault(c)

Spec == Init /\ [][Next]_vars

(* Each CPU runs its mailbox thread, interrupts are taken, a handler thread *)
(* answers what it was given and a woken caller runs.  Nobody has to call.  *)
Fairness ==
    /\ \A c \in Cpus : WF_vars(ThreadStep(c)) /\ WF_vars(Isr(c))
    /\ \A m \in Calls : WF_vars(Answer(m)) /\ WF_vars(Return(m))

FairSpec == Spec /\ Fairness
-----------------------------------------------------------------------------
(* Every list, queue, token and struct has its type.                        *)
TypeOK ==
    /\ req \in [Cpus -> Seq(Msgs)] /\ rsp \in [Cpus -> Seq(Msgs)]
    /\ queue \in [Cpus -> Seq(Msgs \X {0, 1})]
    /\ sem \in [Cpus -> {0, 1}] /\ rsp_sem \in [Cpus -> {0, 1}]
    /\ at \in [Cpus -> {"pop", "sem", "ack", "note", "drain"}]
    /\ cur \in [Cpus -> Msgs \cup {"none"}]
    /\ send_ack_flag \in [Cpus -> BOOLEAN]
    /\ wire \in [Cpus -> {"none", "sent", "taken"}]
    /\ msg \in [Msgs -> [type : Types, src : Cpus, dest : Cpus, count : 0..3,
                         ack : {"SEND", "ACK"}, result : {"ok", "fail"}]]
    /\ given \in [Calls -> {0, 1}]
    /\ outcome \in [Calls -> {"idle", "waiting", "ok", "fail"}]
    /\ service \in [Msgs -> {"none", "serving", "ok", "fail"}]
    /\ faults \in 0..MaxFaults

(* Who may still follow the address of a message.  The thread that sent a   *)
(* response does not look at it again, nor does the tx_cmpl interrupt.      *)
Held(m) ==
    \/ \E c \in Cpus :
          \/ Contains(req[c], m) \/ Contains(rsp[c], m)
          \/ \E i \in DOMAIN queue[c] : queue[c][i][1] = m
          \/ cur[c] = m /\ at[c] = "ack" /\ send_ack_flag[c]
          \/ cur[c] = m /\ at[c] = "note"
          \/ cur[c] = m /\ wire[c] = "sent"
    \/ service[m] = "serving"

(* When a synchronous call returns, its struct leaves the stack: no list,   *)
(* no queue, no mailbox thread and no channel may still refer to it.        *)
NoDanglingMessage == \A m \in Calls : outcome[m] \in {"ok", "fail"} => ~Held(m)

(* A message is never put on a list twice, nor listed as unanswered after   *)
(* its call has been woken.                                                 *)
ListedOnce ==
    \A m \in Msgs :
       /\ \A c, d \in Cpus : \A i \in DOMAIN req[c], j \in DOMAIN req[d] :
             req[c][i] = m /\ req[d][j] = m => c = d /\ i = j
       /\ m \in Calls /\ given[m] = 1 =>
             \A c \in Cpus : ~Contains(rsp[c], m)

(* media_*_mailbox.c: "set semaphore from cpu0 other threads": a CPU wakes  *)
(* only callers of its own, whose semaphores belong to its own kernel.      *)
WakesOwnCallers ==
    \A c \in Cpus, m \in Calls :
       Contains(req[c], m) /\ msg[m].type = "RSP" /\ msg[m].dest = c => c = From[m]

(* No interrupt handler finds the queue of its CPU full: an acknowledged    *)
(* message would be dropped without anyone noticing.                        *)
QueueHasRoom == \A c \in Cpus :
    wire[c] = "sent" => Len(queue[Peer(c, cur[c])]) < QueueLen

(* Every synchronous call returns to its caller, and every notification     *)
(* reaches its CPU.                                                         *)
NothingForgotten ==
    /\ \A m \in Calls : outcome[m] = "waiting" ~> outcome[m] # "waiting"
    /\ \A m \in Notes : msg[m].src = From[m] ~> service[m] = "ok"

(* The mailboxes implement remote calls.                                    *)
Remote == INSTANCE RemoteCall WITH service <- [m \in Calls |-> service[m]]
RemoteSpec == Remote!Spec
=============================================================================
