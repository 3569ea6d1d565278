------------------------- MODULE MediaMailboxProofs -------------------------
(***************************************************************************)
(* Proofs about MediaMailbox: for any number of calls and notifications,   *)
(* any faults and any size of the queues, as long as an answer that has to *)
(* be sent back is sent back on CPU1 only (AnswersWritten).                *)
(***************************************************************************)
EXTENDS MediaMailbox, FiniteSetTheorems, TLAPS

(* A list without repetitions, and what appending, taking the head and      *)
(* deleting an element make of it.                                          *)
Once(s) == \A i, j \in DOMAIN s : s[i] = s[j] => i = j

(* What is appended is in the list, with all that was.                      *)
LEMMA Appended ==
    ASSUME NEW S, NEW s \in Seq(S), NEW x \in S
    PROVE  /\ Append(s, x) \in Seq(S) /\ Append(s, x) # <<>>
           /\ \A e : Contains(Append(s, x), e) <=> Contains(s, e) \/ e = x
           /\ Once(s) /\ ~Contains(s, x) => Once(Append(s, x))
BY DEF Contains, Once

(* Without its head a list contains all else.                               *)
LEMMA Beheaded ==
    ASSUME NEW S, NEW s \in Seq(S), s # <<>>, Once(s)
    PROVE  /\ Tail(s) \in Seq(S) /\ Head(s) \in S /\ Once(Tail(s))
           /\ Contains(s, Head(s))
           /\ \A e : Contains(Tail(s), e) <=> Contains(s, e) /\ e # Head(s)
<1> DEFINE n == Len(s)
<1>1. /\ n \in Nat \ {0} /\ Head(s) = s[1] /\ Len(Tail(s)) = n - 1
      /\ \A i \in 1 .. n - 1 : Tail(s)[i] = s[i + 1]
  OBVIOUS
<1>2. Tail(s) \in Seq(S) /\ Head(s) \in S /\ Contains(s, Head(s))
  BY DEF Contains
<1>3. Once(Tail(s))
  BY <1>1, <1>2 DEF Once
<1>4. ASSUME NEW e, Contains(Tail(s), e) PROVE Contains(s, e) /\ e # Head(s)
  <2>1. PICK i \in 1 .. n - 1 : s[i + 1] = e
    BY <1>1, <1>4 DEF Contains
  <2>2. i + 1 \in 1 .. n /\ i + 1 # 1 /\ 1 \in 1 .. n
    BY <1>1
  <2> QED
    BY <1>1, <2>1, <2>2 DEF Contains, Once
<1>5. ASSUME NEW e, Contains(s, e), e # Head(s) PROVE Contains(Tail(s), e)
  <2>1. PICK i \in 1 .. n : s[i] = e
    BY <1>5 DEF Contains
  <2>2. i - 1 \in 1 .. n - 1 /\ Tail(s)[i - 1] = e
    BY <1>1, <1>5, <2>1
  <2> QED
    BY <1>1, <2>2 DEF Contains
<1> QED
  BY <1>2, <1>3, <1>4, <1>5

(* media_mailbox_list_del_node takes an element off wherever it stands.     *)
LEMMA Removed ==
    ASSUME NEW S, NEW s \in Seq(S), NEW x, Once(s)
    PROVE  /\ Unlisted(s, x) \in Seq(S) /\ Once(Unlisted(s, x))
           /\ \A e : Contains(Unlisted(s, x), e) <=> Contains(s, e) /\ e # x
<1>1. CASE ~Contains(s, x)
  <2>1. Unlisted(s, x) = s
    BY <1>1 DEF Unlisted, RemoveFirst, Contains
  <2> QED
    BY <1>1, <2>1
<1>2. CASE Contains(s, x)
  <2> DEFINE I == {i \in 1 .. Len(s) : s[i] = x}
             k == Min(I)
  <2>1. PICK j \in 1 .. Len(s) : s[j] = x
    BY <1>2 DEF Contains
  <2>2. I = {j}
    BY <2>1 DEF Once
  <2>3. k = j
    BY <2>2 DEF Min
  <2>4. Unlisted(s, x) = RemoveAt(s, j)
    BY <1>2, <2>2, <2>3 DEF Unlisted, RemoveFirst, SelectInSeq, Contains
  <2> DEFINE t == RemoveAt(s, j)
             from(i) == IF i < j THEN i ELSE i + 1
  <2>5. /\ t \in Seq(S) /\ Len(t) = Len(s) - 1
        /\ \A i \in 1 .. Len(s) - 1 : t[i] = s[from(i)]
    <3> DEFINE a == SubSeq(s, 1, j - 1)
               b == SubSeq(s, j + 1, Len(s))
    <3>1. /\ a \in Seq(S) /\ Len(a) = j - 1
          /\ \A i \in 1 .. j - 1 : a[i] = s[i]
      OBVIOUS
    <3>2. /\ b \in Seq(S) /\ Len(b) = Len(s) - j
          /\ \A i \in 1 .. Len(s) - j : b[i] = s[i + j]
      OBVIOUS
    <3>3. t = a \o b
      BY DEF RemoveAt
    <3> HIDE DEF a, b, t
    <3>4. t \in Seq(S) /\ Len(t) = Len(s) - 1
      BY <3>1, <3>2, <3>3
    <3>5. ASSUME NEW i \in 1 .. Len(s) - 1 PROVE t[i] = s[from(i)]
      <4>1. CASE i < j
        <5>1. t[i] = a[i]
          BY <3>1, <3>2, <3>3, <4>1
        <5> QED
          BY <3>1, <4>1, <5>1
      <4>2. CASE ~(i < j)
        <5>1. t[i] = b[i - (j - 1)] /\ i - (j - 1) \in 1 .. Len(s) - j
          BY <3>1, <3>2, <3>3, <4>2
        <5> QED
          BY <3>2, <4>2, <5>1
      <4> QED
        BY <4>1, <4>2
    <3> QED
      BY <3>4, <3>5
  <2> HIDE DEF t
  <2>6. \A i \in 1 .. Len(t) : from(i) \in 1 .. Len(s) /\ from(i) # j
    BY <2>5
  <2>7. Once(t)
    BY <2>5, <2>6 DEF Once
  <2>8. ASSUME NEW e, Contains(t, e) PROVE Contains(s, e) /\ e # x
    BY <2>1, <2>5, <2>6, <2>8 DEF Contains, Once
  <2>9. ASSUME NEW e, Contains(s, e), e # x PROVE Contains(t, e)
    <3>1. PICK i \in 1 .. Len(s) : s[i] = e
      BY <2>9 DEF Contains
    <3> DEFINE l == IF i < j THEN i ELSE i - 1
    <3>2. l \in 1 .. Len(t) /\ from(l) = i
      BY <2>1, <2>5, <2>9, <3>1
    <3> QED
      BY <2>5, <3>1, <3>2 DEF Contains
  <2> QED
    BY <2>4, <2>5, <2>7, <2>8, <2>9 DEF t
<1> QED
  BY <1>1, <1>2
-----------------------------------------------------------------------------
(* Where a message is.  In a list or queue of CPU c; with the sender, which *)
(* waits to hear of it, and has not been told that it arrived (UnderWay) or *)
(* has been told and still looks after it (Delivered); with the handler, or *)
(* at the semaphore of its caller (AtRest).                                 *)
ToHandle(c, m) == Contains(req[c], m)
CameIn(c, m) == Contains(queue[c], Received(m))
Noted(c, m) == Contains(queue[c], Sent(m))
Listed(c, m) == Contains(rsp[c], m)
Unheard(c) == wire[c] # "taken" /\ rsp_sem[c] = 0 /\ at[c] = "ack"
UnderWay(c, m) == cur[c] = m /\ Unheard(c)
Delivered(c, m) == cur[c] = m /\ ~Unheard(c)
AtRest(m) == service[m] = "serving" \/ (m \in Calls /\ given[m] = 1)

(* A request or notification goes to its CPU, and what is a response by now *)
(* comes from there.                                                        *)
IsAnswer(m) == msg[m].type = "RSP"
Sender(m) == IF IsAnswer(m) THEN To[m] ELSE From[m]
Receiver(m) == IF IsAnswer(m) THEN From[m] ELSE To[m]

(* An answer that cannot be written is sent back to the CPU that gives it.  *)
(* On CPU1 that is compiled out; on the others it must not happen.          *)
AnswersWritten ==
    "RSP" \in FailingWrites => \A m \in Calls \cap Faulty : To[m] = "major"

(* What a mailbox thread is doing with the channel, and with its lists.     *)
ThreadInv(c) ==
    /\ Once(req[c]) /\ Once(rsp[c]) /\ Once(queue[c])
    /\ at[c] \in {"ack", "note"} => cur[c] \in Msgs
    /\ at[c] \notin {"ack", "note"} => cur[c] = "none" /\ ~send_ack_flag[c]
    /\ at[c] # "ack" => wire[c] = "none" /\ rsp_sem[c] = 0
    /\ rsp_sem[c] = 1 => wire[c] = "none"
    /\ at[c] = "note" => cur[c] \in Calls /\ c = From[cur[c]]
    /\ at[c] # "drain" => \A m \in Msgs : ~Noted(c, m)

(* A message is in one place at a time, at one of its two CPUs.             *)
OnePlace(m) ==
    LET s == Sender(m)  r == Receiver(m) IN
    /\ \A c \in Cpus \ {s, r} : ~ToHandle(c, m) /\ ~CameIn(c, m) /\ cur[c] # m
    /\ ~UnderWay(r, m) /\ ~CameIn(s, m)
    /\ ToHandle(s, m) => ~UnderWay(s, m) /\ ~CameIn(r, m) /\ ~ToHandle(r, m) /\ ~AtRest(m)
    /\ UnderWay(s, m) => ~CameIn(r, m) /\ ~ToHandle(r, m) /\ ~AtRest(m)
    /\ CameIn(r, m) => ~ToHandle(r, m) /\ ~AtRest(m)
    /\ ToHandle(r, m) => ~AtRest(m)

(* What else the CPU of the caller may keep of a request: its thread has    *)
(* heard that it arrived, has noted that, or waits for the answer; one of   *)
(* the three, and not while the request has still to go.                    *)
Attended(m) ==
    LET f == From[m] IN Delivered(f, m) \/ Noted(f, m) \/ Listed(f, m)

OneNote(m) ==
    LET f == From[m] IN
    /\ \A c \in Cpus \ {f} : ~Noted(c, m) /\ ~Listed(c, m)
    /\ Delivered(f, m) => ~Noted(f, m) /\ ~Listed(f, m)
    /\ Noted(f, m) => ~Listed(f, m)
    /\ ~IsAnswer(m) /\ (ToHandle(f, m) \/ UnderWay(f, m)) => ~Attended(m)

(* What the sender still knows of the message.                              *)
Sending(m) ==
    /\ cur[From[m]] = m => send_ack_flag[From[m]]
    /\ cur[To[m]] = m => ~send_ack_flag[To[m]]
    /\ UnderWay(Sender(m), m) /\ wire[Sender(m)] = "sent" => msg[m].ack = "SEND"
    /\ msg[m].type = "REQ" /\ Delivered(From[m], m) => msg[m].ack = "ACK"
    /\ msg[m].type = "REQ" /\ (cur[From[m]] = m \/ CameIn(To[m], m) \/ ToHandle(To[m], m))
           => msg[m].count <= 2

(* No address of the message is left anywhere.                              *)
Nowhere(m) ==
    /\ \A c \in Cpus : ~ToHandle(c, m) /\ ~CameIn(c, m) /\ ~UnderWay(c, m)
    /\ ~Attended(m) /\ ~AtRest(m)

CallInv(m) ==
    /\ outcome[m] = "idle" =>
          Nowhere(m) /\ service[m] = "none" /\ \A c \in Cpus : cur[c] # m
    /\ outcome[m] = "waiting" =>
          /\ msg[m].type # "NOTIFY" /\ msg[m].dest = Receiver(m)
          /\ ~IsAnswer(m) => service[m] \in {"none", "serving"} /\ given[m] = 0
          /\ IsAnswer(m) =>
                \/ service[m] \in {"ok", "fail"} /\ msg[m].result = service[m]
                \/ /\ service[m] = "none" /\ msg[m].result = "fail"
                   /\ ~ToHandle(To[m], m) /\ ~CameIn(From[m], m)
                   /\ ~UnderWay(To[m], m) /\ ~Attended(m)
          /\ ~IsAnswer(m) /\ (\E c \in Cpus : ToHandle(c, m) \/ CameIn(c, m) \/ UnderWay(c, m))
                => service[m] = "none"
          /\ given[m] = 1 => ~Attended(m)
    /\ outcome[m] \in {"ok", "fail"} =>
          /\ Nowhere(m)
          /\ service[m] = outcome[m] \/ (service[m] = "none" /\ outcome[m] = "fail")

NoteInv(m) ==
    /\ service[m] # "serving" /\ ~Noted(From[m], m) /\ ~Listed(From[m], m)
    /\ msg[m].src # From[m] => Nowhere(m) /\ service[m] = "none" /\ \A c \in Cpus : cur[c] # m
    /\ msg[m].src = From[m] =>
          /\ msg[m].type # "REQ" /\ msg[m].dest = Receiver(m)
          /\ IsAnswer(m) => ~ToHandle(To[m], m) /\ ~CameIn(From[m], m) /\ ~UnderWay(To[m], m)

MsgInv(m) == /\ OnePlace(m) /\ OneNote(m) /\ Sending(m)
             /\ m \in Calls => CallInv(m)
             /\ m \in Notes => NoteInv(m)

IInv == /\ TypeOK
        /\ \A c \in Cpus : ThreadInv(c)
        /\ \A m \in Msgs : MsgInv(m)
-----------------------------------------------------------------------------
(* The lists after a step, by what they contain.                            *)
LEMMA ReqAppended ==
    ASSUME TypeOK, NEW c \in Cpus, NEW m \in Msgs, Once(req[c]), ~ToHandle(c, m),
           req' = [req EXCEPT ![c] = Append(@, m)]
    PROVE  /\ req' \in [Cpus -> Seq(Msgs)]
           /\ Once(req'[c]) /\ \A d \in Cpus \ {c} : req'[d] = req[d]
           /\ \A d \in Cpus, k \in Msgs :
                 Contains(req'[d], k) <=> Contains(req[d], k) \/ (d = c /\ k = m)
<1>1. req[c] \in Seq(Msgs) /\ req'[c] = Append(req[c], m)
  BY DEF TypeOK
<1>2. /\ req'[c] \in Seq(Msgs) /\ Once(req'[c])
      /\ \A e : Contains(req'[c], e) <=> Contains(req[c], e) \/ e = m
  BY <1>1, Appended DEF ToHandle
<1>3. \A d \in Cpus \ {c} : req'[d] = req[d]
  BY DEF TypeOK
<1> QED
  BY <1>2, <1>3 DEF TypeOK

(* The thread takes the head off the list of messages to send or to handle. *)
LEMMA ReqPopped ==
    ASSUME TypeOK, NEW c \in Cpus, NEW m \in Msgs, Once(req[c]), Popped(c, m),
           req' = [req EXCEPT ![c] = Tail(@)]
    PROVE  /\ req' \in [Cpus -> Seq(Msgs)]
           /\ Once(req'[c]) /\ \A d \in Cpus \ {c} : req'[d] = req[d]
           /\ Contains(req[c], m)
           /\ \A d \in Cpus, k \in Msgs :
                 Contains(req'[d], k) <=> Contains(req[d], k) /\ ~(d = c /\ k = m)
<1>1. /\ req[c] \in Seq(Msgs) /\ req'[c] = Tail(req[c]) /\ req[c] # <<>>
      /\ m = Head(req[c])
  BY DEF TypeOK, Popped
<1>2. /\ req'[c] \in Seq(Msgs) /\ Once(req'[c]) /\ Contains(req[c], m)
      /\ \A e : Contains(req'[c], e) <=> Contains(req[c], e) /\ e # m
  BY <1>1, Beheaded
<1>3. \A d \in Cpus \ {c} : req'[d] = req[d]
  BY DEF TypeOK
<1> QED
  BY <1>2, <1>3 DEF TypeOK

(* What is put at the end of its own list again is still on it, once.       *)
LEMMA ReqResubmitted ==
    ASSUME TypeOK, NEW c \in Cpus, NEW m \in Msgs, Once(req[c]), Popped(c, m),
           req' = Resubmitted(c, m)
    PROVE  /\ req' \in [Cpus -> Seq(Msgs)]
           /\ Once(req'[c]) /\ \A d \in Cpus \ {c} : req'[d] = req[d]
           /\ Contains(req[c], m)
           /\ \A d \in Cpus, k \in Msgs : Contains(req'[d], k) <=> Contains(req[d], k)
<1>1. /\ req[c] \in Seq(Msgs) /\ req'[c] = Append(Tail(req[c]), m) /\ req[c] # <<>>
      /\ m = Head(req[c])
  BY DEF TypeOK, Popped, Resubmitted
<1>2. /\ Tail(req[c]) \in Seq(Msgs) /\ Once(Tail(req[c])) /\ Contains(req[c], m)
      /\ \A e : Contains(Tail(req[c]), e) <=> Contains(req[c], e) /\ e # m
  BY <1>1, Beheaded
<1>3. /\ req'[c] \in Seq(Msgs) /\ Once(req'[c])
      /\ \A e : Contains(req'[c], e) <=> Contains(req[c], e)
  <2> DEFINE t == Tail(req[c])
  <2>1. /\ Append(t, m) \in Seq(Msgs)
        /\ \A e : Contains(Append(t, m), e) <=> Contains(t, e) \/ e = m
        /\ Once(t) /\ ~Contains(t, m) => Once(Append(t, m))
    <3> HIDE DEF t
    <3> QED
      BY <1>2, Appended DEF t
  <2> QED
    BY <1>1, <1>2, <2>1
<1>4. \A d \in Cpus \ {c} : req'[d] = req[d]
  BY DEF TypeOK, Resubmitted
<1> QED
  BY <1>2, <1>3, <1>4 DEF TypeOK, Resubmitted

Entries == Msgs \X {0, 1}

(* The entry may find the queue full.                                       *)
LEMMA QueueAppended ==
    ASSUME TypeOK, NEW c \in Cpus, NEW e \in Entries, Once(queue[c]),
           ~Contains(queue[c], e), queue' = Enqueued(c, e)
    PROVE  /\ queue' \in [Cpus -> Seq(Entries)]
           /\ Once(queue'[c]) /\ \A d \in Cpus \ {c} : queue'[d] = queue[d]
           /\ \A d \in Cpus, x \in Entries :
                 ~(d = c /\ x = e) => (Contains(queue'[d], x) <=> Contains(queue[d], x))
<1>1. queue[c] \in Seq(Entries) /\ queue \in [Cpus -> Seq(Entries)]
  BY DEF TypeOK, Entries
<1>2. CASE queue' = queue
  BY <1>1, <1>2
<1>3. CASE queue' = [queue EXCEPT ![c] = Append(@, e)]
  <2>1. queue'[c] = Append(queue[c], e)
    BY <1>1, <1>3
  <2>2. /\ queue'[c] \in Seq(Entries) /\ Once(queue'[c])
        /\ \A x : Contains(queue'[c], x) <=> Contains(queue[c], x) \/ x = e
    BY <1>1, <2>1, Appended
  <2>3. \A d \in Cpus \ {c} : queue'[d] = queue[d]
    BY <1>1, <1>3
  <2> QED
    BY <1>1, <1>3, <2>2, <2>3
<1> QED
  BY <1>2, <1>3 DEF Enqueued

(* The thread takes the oldest entry out of its queue.                      *)
LEMMA QueuePopped ==
    ASSUME TypeOK, NEW c \in Cpus, queue[c] # <<>>, Once(queue[c]),
           queue' = [queue EXCEPT ![c] = Tail(@)]
    PROVE  /\ queue' \in [Cpus -> Seq(Entries)]
           /\ Once(queue'[c]) /\ \A d \in Cpus \ {c} : queue'[d] = queue[d]
           /\ Head(queue[c]) \in Entries /\ Contains(queue[c], Head(queue[c]))
           /\ \A d \in Cpus, x \in Entries :
                 Contains(queue'[d], x) <=>
                     Contains(queue[d], x) /\ ~(d = c /\ x = Head(queue[c]))
<1>1. /\ queue[c] \in Seq(Entries) /\ queue \in [Cpus -> Seq(Entries)]
      /\ queue'[c] = Tail(queue[c])
  BY DEF TypeOK, Entries
<1>2. /\ queue'[c] \in Seq(Entries) /\ Once(queue'[c])
      /\ Head(queue[c]) \in Entries /\ Contains(queue[c], Head(queue[c]))
      /\ \A e : Contains(queue'[c], e) <=> Contains(queue[c], e) /\ e # Head(queue[c])
  BY <1>1, Beheaded
<1>3. \A d \in Cpus \ {c} : queue'[d] = queue[d]
  BY <1>1
<1> QED
  BY <1>1, <1>2, <1>3

(* A request that has arrived is listed as unanswered.                      *)
LEMMA RspAppended ==
    ASSUME TypeOK, NEW c \in Cpus, NEW m \in Msgs, Once(rsp[c]), ~Listed(c, m),
           rsp' = [rsp EXCEPT ![c] = Append(@, m)]
    PROVE  /\ rsp' \in [Cpus -> Seq(Msgs)]
           /\ Once(rsp'[c]) /\ \A d \in Cpus \ {c} : rsp'[d] = rsp[d]
           /\ \A d \in Cpus, k \in Msgs :
                 Contains(rsp'[d], k) <=> Contains(rsp[d], k) \/ (d = c /\ k = m)
<1>1. rsp[c] \in Seq(Msgs) /\ rsp'[c] = Append(rsp[c], m)
  BY DEF TypeOK
<1>2. /\ rsp'[c] \in Seq(Msgs) /\ Once(rsp'[c])
      /\ \A e : Contains(rsp'[c], e) <=> Contains(rsp[c], e) \/ e = m
  BY <1>1, Appended DEF Listed
<1>3. \A d \in Cpus \ {c} : rsp'[d] = rsp[d]
  BY DEF TypeOK
<1> QED
  BY <1>2, <1>3 DEF TypeOK

(* An answered request is taken off the list of the unanswered.             *)
LEMMA RspUnlisted ==
    ASSUME TypeOK, NEW c \in Cpus, NEW m \in Msgs, Once(rsp[c]),
           rsp' = [rsp EXCEPT ![c] = Unlisted(@, m)]
    PROVE  /\ rsp' \in [Cpus -> Seq(Msgs)]
           /\ Once(rsp'[c]) /\ \A d \in Cpus \ {c} : rsp'[d] = rsp[d]
           /\ \A d \in Cpus, k \in Msgs :
                 Contains(rsp'[d], k) <=> Contains(rsp[d], k) /\ ~(d = c /\ k = m)
<1>1. rsp[c] \in Seq(Msgs) /\ rsp'[c] = Unlisted(rsp[c], m)
  BY DEF TypeOK
<1>2. /\ rsp'[c] \in Seq(Msgs) /\ Once(rsp'[c])
      /\ \A e : Contains(rsp'[c], e) <=> Contains(rsp[c], e) /\ e # m
  BY <1>1, Removed
<1>3. \A d \in Cpus \ {c} : rsp'[d] = rsp[d]
  BY DEF TypeOK
<1> QED
  BY <1>2, <1>3 DEF TypeOK
-----------------------------------------------------------------------------
(* A step leaves alone what the invariant says of message k.                *)
Kept(k) ==
    /\ \A c \in Cpus :
          /\ Contains(req'[c], k) <=> Contains(req[c], k)
          /\ Contains(queue'[c], Received(k)) <=> Contains(queue[c], Received(k))
          /\ Contains(queue'[c], Sent(k)) <=> Contains(queue[c], Sent(k))
          /\ Contains(rsp'[c], k) <=> Contains(rsp[c], k)
          /\ cur'[c] = k <=> cur[c] = k
          /\ cur[c] = k => /\ Unheard(c)' <=> Unheard(c)
                           /\ wire'[c] = "sent" => wire[c] = "sent"
                           /\ send_ack_flag'[c] = send_ack_flag[c]
    /\ msg'[k] = msg[k] /\ service'[k] = service[k]
    /\ k \in Calls => given'[k] = given[k] /\ outcome'[k] = outcome[k]

(* The two CPUs of a message; CPU2 has no callers, CPU0 sends no            *)
(* notification.                                                            *)
LEMMA MsgEnds ==
    ASSUME NEW m \in Msgs
    PROVE  /\ From[m] \in Cpus /\ To[m] \in Cpus /\ From[m] # To[m] /\ m # "none"
           /\ m \in Calls <=> m \notin Notes
           /\ m \in Calls => From[m] # "minor"
           /\ m \in Notes => From[m] # "app"
BY MailboxAssumption DEF Msgs

(* What is left alone stays true.                                           *)
LEMMA KeptInv ==
    ASSUME NEW k \in Msgs, MsgInv(k), Kept(k)
    PROVE  MsgInv(k)'
<1> USE MsgEnds DEF Kept, MsgInv, ToHandle, CameIn, Noted, Listed, UnderWay, Delivered,
        AtRest, Sender, Receiver, IsAnswer, Attended
<1>1. OnePlace(k)'
  BY DEF OnePlace
<1>2. OneNote(k)'
  BY DEF OneNote
<1>3. Sending(k)'
  BY DEF Sending
<1>4. ASSUME k \in Calls PROVE CallInv(k)'
  BY <1>4 DEF CallInv, Nowhere
<1>5. ASSUME k \in Notes PROVE NoteInv(k)'
  BY <1>5 DEF NoteInv, Nowhere
<1> QED
  BY <1>1, <1>2, <1>3, <1>4, <1>5

(* Nothing happens to any message but m.                                    *)
LEMMA RestKept ==
    ASSUME IInv, NEW m \in Msgs, TypeOK', \A c \in Cpus : ThreadInv(c)',
           MsgInv(m)', \A k \in Msgs \ {m} : Kept(k)
    PROVE  IInv'
BY KeptInv DEF IInv

Struct == [type : Types, src : Cpus, dest : Cpus, count : 0..3,
           ack : {"SEND", "ACK"}, result : {"ok", "fail"}]

(* What a step does to the structs when it writes to that of m.             *)
LEMMA StructWritten ==
    ASSUME TypeOK, NEW m \in Msgs, NEW a \in Struct, msg' = [msg EXCEPT ![m] = a]
    PROVE  /\ msg' \in [Msgs -> Struct] /\ msg'[m] = a
           /\ \A k \in Msgs \ {m} : msg'[k] = msg[k]
BY DEF TypeOK, Struct

(* What media_*_mailbox_msg_send makes of the fields of a struct.           *)
LEMMA AddressedFields ==
    ASSUME TypeOK, NEW m \in Msgs, NEW c \in Cpus, NEW d \in Cpus, NEW type \in Types
    PROVE  /\ Addressed(m, c, d, type) \in Struct
           /\ Addressed(m, c, d, type).type = type
           /\ Addressed(m, c, d, type).src = c /\ Addressed(m, c, d, type).dest = d
           /\ Addressed(m, c, d, type).count = 0
           /\ Addressed(m, c, d, type).ack = msg[m].ack
           /\ Addressed(m, c, d, type).result = msg[m].result
<1>1. msg[m] \in Struct
  BY DEF TypeOK, Struct
<1>2. 0 \in 0..3
  OBVIOUS
<1> QED
  BY <1>1, <1>2 DEF Struct, Addressed

LEMMA CallKeeps == ASSUME IInv, NEW m \in Calls, Call(m) PROVE IInv'
<1> DEFINE c == From[m]
<1>1. /\ m \in Msgs /\ TypeOK /\ MsgInv(m) /\ c \in Cpus /\ To[m] \in Cpus /\ Once(req[c])
      /\ outcome[m] = "idle" /\ Nowhere(m) /\ service[m] = "none"
      /\ \A d \in Cpus : cur[d] # m
  BY MsgEnds DEF IInv, MsgInv, CallInv, Call, Msgs, ThreadInv
<1>2. /\ req' = [req EXCEPT ![c] = Append(@, m)] /\ sem' = [sem EXCEPT ![c] = 1]
      /\ outcome' = [outcome EXCEPT ![m] = "waiting"]
      /\ msg' = [msg EXCEPT ![m] = Addressed(m, c, To[m], "REQ")]
      /\ rsp' = rsp /\ queue' = queue /\ rsp_sem' = rsp_sem /\ at' = at /\ cur' = cur
      /\ send_ack_flag' = send_ack_flag /\ wire' = wire /\ given' = given
      /\ service' = service /\ faults' = faults
  BY DEF Call, PushReq, thread
<1>3. /\ req' \in [Cpus -> Seq(Msgs)]
      /\ Once(req'[c]) /\ \A d \in Cpus \ {c} : req'[d] = req[d]
      /\ \A d \in Cpus, k \in Msgs :
            Contains(req'[d], k) <=> Contains(req[d], k) \/ (d = c /\ k = m)
  BY <1>1, <1>2, ReqAppended DEF Nowhere
<1>4. /\ msg' \in [Msgs -> Struct] /\ \A k \in Msgs \ {m} : msg'[k] = msg[k]
      /\ msg'[m].type = "REQ" /\ msg'[m].dest = To[m] /\ msg'[m].count = 0
  <2> DEFINE a == Addressed(m, c, To[m], "REQ")
  <2>1. a \in Struct /\ a.type = "REQ" /\ a.dest = To[m] /\ a.count = 0
    BY <1>1, AddressedFields DEF Types
  <2>2. msg' = [msg EXCEPT ![m] = a]
    BY <1>2
  <2> HIDE DEF a
  <2> QED
    BY <1>1, <2>1, <2>2, StructWritten
<1>5. TypeOK'
  BY <1>1, <1>2, <1>3, <1>4 DEF TypeOK, Struct
<1>6. \A d \in Cpus : ThreadInv(d)'
  BY <1>2, <1>3 DEF IInv, ThreadInv, Noted
<1>7. \A k \in Msgs \ {m} : Kept(k)
  <2> SUFFICES ASSUME NEW k \in Msgs \ {m} PROVE Kept(k)
    OBVIOUS
  <2>1. /\ k \in Calls => outcome'[k] = outcome[k]
        /\ msg'[k] = msg[k]
    BY <1>1, <1>2, <1>4 DEF TypeOK
  <2>2. \A d \in Cpus : Contains(req'[d], k) <=> Contains(req[d], k)
    BY <1>3
  <2> QED
    BY <1>2, <2>1, <2>2 DEF Kept, Unheard
<1>8. MsgInv(m)'
  <2> USE <1>1, <1>2, <1>3, <1>4, MsgEnds DEF MsgInv, Nowhere, TypeOK,
      ToHandle, CameIn, Noted, Listed, UnderWay, Delivered,
        Unheard, AtRest, Sender, Receiver, IsAnswer, Attended
  <2>1. OnePlace(m)'
    BY DEF OnePlace
  <2>2. OneNote(m)'
    BY DEF OneNote
  <2>3. Sending(m)'
    BY DEF Sending
  <2>4. CallInv(m)'
    BY DEF CallInv
  <2> QED
    BY <2>1, <2>2, <2>3, <2>4
<1> QED
  BY <1>1, <1>5, <1>6, <1>7, <1>8, RestKept

LEMMA ReturnKeeps == ASSUME IInv, NEW m \in Calls, Return(m) PROVE IInv'
<1>1. /\ m \in Msgs /\ TypeOK /\ MsgInv(m)
      /\ outcome[m] = "waiting" /\ given[m] = 1
  BY DEF IInv, Return, Msgs
<1>2. /\ given' = [given EXCEPT ![m] = 0]
      /\ outcome' = [outcome EXCEPT ![m] = msg[m].result]
      /\ msg' = [msg EXCEPT ![m] = Blank]
      /\ req' = req /\ rsp' = rsp /\ queue' = queue /\ sem' = sem /\ rsp_sem' = rsp_sem
      /\ at' = at /\ cur' = cur /\ send_ack_flag' = send_ack_flag /\ wire' = wire
      /\ service' = service /\ faults' = faults
  BY DEF Return, thread, lists
<1>3. /\ msg' \in [Msgs -> Struct] /\ \A k \in Msgs \ {m} : msg'[k] = msg[k]
      /\ msg'[m] = Blank /\ msg[m].result \in {"ok", "fail"}
  <2>1. Blank \in Struct
    BY DEF Blank, Struct, Types, Cpus
  <2> HIDE DEF Blank
  <2> QED
    BY <1>1, <1>2, <2>1, StructWritten DEF TypeOK
<1>4. IsAnswer(m) /\ Nowhere(m)' /\ given'[m] = 0
      /\ \/ service[m] = msg[m].result
         \/ service[m] = "none" /\ msg[m].result = "fail"
  <2> USE <1>1, <1>2, MsgEnds DEF MsgInv, TypeOK
  <2>1. IsAnswer(m) /\ ~Attended(m)
    BY DEF CallInv
  <2>2. \/ service[m] = msg[m].result
        \/ service[m] = "none" /\ msg[m].result = "fail"
    BY <2>1 DEF CallInv
  <2>3. AtRest(m) /\ service[m] # "serving"
    BY <2>2 DEF AtRest
  <2>4. \A c \in Cpus : ~ToHandle(c, m) /\ ~CameIn(c, m) /\ ~UnderWay(c, m)
    BY <2>1, <2>3 DEF OnePlace, Sender, Receiver, UnderWay
  <2>5. given'[m] = 0 /\ service'[m] # "serving"
    BY <2>3
  <2> QED
    BY <2>1, <2>2, <2>4, <2>5 DEF Nowhere, AtRest, Attended, ToHandle, CameIn, UnderWay,
       Delivered, Noted, Listed, Unheard
<1>5. TypeOK'
  BY <1>1, <1>2, <1>3 DEF TypeOK, Struct
<1>6. \A d \in Cpus : ThreadInv(d)'
  BY <1>2 DEF IInv, ThreadInv, Noted
<1>7. \A k \in Msgs \ {m} : Kept(k)
  <2> SUFFICES ASSUME NEW k \in Msgs \ {m} PROVE Kept(k)
    OBVIOUS
  <2>1. /\ k \in Calls => outcome'[k] = outcome[k] /\ given'[k] = given[k]
        /\ msg'[k] = msg[k]
    BY <1>1, <1>2, <1>3 DEF TypeOK
  <2> QED
    BY <1>2, <2>1 DEF Kept, Unheard
<1>8. MsgInv(m)'
  <2> USE <1>1, <1>2, <1>3, <1>4, MsgEnds DEF MsgInv, Nowhere, TypeOK,
        ToHandle, CameIn, Noted, Listed, UnderWay, Delivered,
        Unheard, AtRest, Sender, Receiver, IsAnswer, Attended
  <2>1. OnePlace(m)'
    BY DEF OnePlace, Blank
  <2>2. OneNote(m)'
    BY DEF OneNote, Blank
  <2>3. Sending(m)'
    BY DEF Sending, Blank
  <2>4. CallInv(m)'
    BY DEF CallInv
  <2> QED
    BY <2>1, <2>2, <2>3, <2>4
<1> QED
  BY <1>1, <1>5, <1>6, <1>7, <1>8, RestKept

LEMMA NotifyKeeps == ASSUME IInv, NEW m \in Notes, Notify(m) PROVE IInv'
<1> DEFINE c == From[m]
<1>1. /\ m \in Msgs /\ TypeOK /\ MsgInv(m) /\ c \in Cpus /\ To[m] \in Cpus /\ Once(req[c])
      /\ Nowhere(m) /\ service[m] = "none" /\ \A d \in Cpus : cur[d] # m
  BY MsgEnds DEF IInv, MsgInv, NoteInv, Notify, Msgs, ThreadInv
<1>2. /\ req' = [req EXCEPT ![c] = Append(@, m)] /\ sem' = [sem EXCEPT ![c] = 1]
      /\ msg' = [msg EXCEPT ![m] = Addressed(m, c, To[m], "NOTIFY")]
      /\ rsp' = rsp /\ queue' = queue /\ rsp_sem' = rsp_sem /\ at' = at /\ cur' = cur
      /\ send_ack_flag' = send_ack_flag /\ wire' = wire /\ given' = given
      /\ outcome' = outcome /\ service' = service /\ faults' = faults
  BY DEF Notify, PushReq, thread, ends
<1>3. /\ req' \in [Cpus -> Seq(Msgs)]
      /\ Once(req'[c]) /\ \A d \in Cpus \ {c} : req'[d] = req[d]
      /\ \A d \in Cpus, k \in Msgs :
            Contains(req'[d], k) <=> Contains(req[d], k) \/ (d = c /\ k = m)
  BY <1>1, <1>2, ReqAppended DEF Nowhere
<1>4. /\ msg' \in [Msgs -> Struct] /\ \A k \in Msgs \ {m} : msg'[k] = msg[k]
      /\ msg'[m].type = "NOTIFY" /\ msg'[m].dest = To[m] /\ msg'[m].src = c
  <2> DEFINE a == Addressed(m, c, To[m], "NOTIFY")
  <2>1. a \in Struct /\ a.type = "NOTIFY" /\ a.dest = To[m] /\ a.src = c
    BY <1>1, AddressedFields DEF Types
  <2>2. msg' = [msg EXCEPT ![m] = a]
    BY <1>2
  <2> HIDE DEF a
  <2> QED
    BY <1>1, <2>1, <2>2, StructWritten
<1>5. TypeOK'
  BY <1>1, <1>2, <1>3, <1>4 DEF TypeOK, Struct
<1>6. \A d \in Cpus : ThreadInv(d)'
  BY <1>2, <1>3 DEF IInv, ThreadInv, Noted
<1>7. \A k \in Msgs \ {m} : Kept(k)
  <2> SUFFICES ASSUME NEW k \in Msgs \ {m} PROVE Kept(k)
    OBVIOUS
  <2>1. /\ msg'[k] = msg[k]
        /\ \A d \in Cpus : Contains(req'[d], k) <=> Contains(req[d], k)
    BY <1>3, <1>4
  <2> QED
    BY <1>2, <2>1 DEF Kept, Unheard
<1>8. MsgInv(m)'
  <2> USE <1>1, <1>2, <1>3, <1>4, MsgEnds DEF MsgInv, Nowhere, TypeOK,
        ToHandle, CameIn, Noted, Listed, UnderWay, Delivered,
        Unheard, AtRest, Sender, Receiver, IsAnswer, Attended
  <2>1. OnePlace(m)'
    BY DEF OnePlace
  <2>2. OneNote(m)'
    BY DEF OneNote
  <2>3. Sending(m)'
    BY DEF Sending
  <2>4. NoteInv(m)'
    BY DEF NoteInv
  <2> QED
    BY <2>1, <2>2, <2>3, <2>4
<1> QED
  BY <1>1, <1>5, <1>6, <1>7, <1>8, RestKept

LEMMA AnswerKeeps == ASSUME IInv, NEW m \in Calls, Answer(m) PROVE IInv'
<1> DEFINE c == To[m]
<1>1. /\ m \in Msgs /\ TypeOK /\ MsgInv(m) /\ c \in Cpus /\ From[m] \in Cpus
      /\ Once(req[c]) /\ service[m] = "serving" /\ AtRest(m)
  BY MsgEnds DEF IInv, Answer, Msgs, ThreadInv, AtRest
<1>2. PICK r \in {"ok", "fail"} :
         /\ service' = [service EXCEPT ![m] = r]
         /\ msg' = [msg EXCEPT ![m] = Answered(m, c, r)]
  BY DEF Answer
<1>3. /\ req' = [req EXCEPT ![c] = Append(@, m)] /\ sem' = [sem EXCEPT ![c] = 1]
      /\ rsp' = rsp /\ queue' = queue /\ rsp_sem' = rsp_sem /\ at' = at /\ cur' = cur
      /\ send_ack_flag' = send_ack_flag /\ wire' = wire /\ given' = given
      /\ outcome' = outcome /\ faults' = faults
  BY DEF Answer, PushReq, thread
<1>4. /\ outcome[m] = "waiting" /\ ~IsAnswer(m) /\ given[m] = 0
      /\ \A d \in Cpus : ~ToHandle(d, m) /\ ~CameIn(d, m) /\ ~UnderWay(d, m)
  <2>1. outcome[m] = "waiting"
    BY <1>1 DEF MsgInv, CallInv, Nowhere, TypeOK
  <2>2. ~IsAnswer(m) /\ given[m] = 0
    BY <1>1, <2>1 DEF MsgInv, CallInv
  <2> QED
    BY <1>1, <2>1, <2>2, MsgEnds DEF MsgInv, OnePlace, Sender, Receiver, UnderWay
<1>5. /\ req' \in [Cpus -> Seq(Msgs)]
      /\ Once(req'[c]) /\ \A d \in Cpus \ {c} : req'[d] = req[d]
      /\ \A d \in Cpus, k \in Msgs :
            Contains(req'[d], k) <=> Contains(req[d], k) \/ (d = c /\ k = m)
  BY <1>1, <1>3, <1>4, ReqAppended
<1>6. /\ msg' \in [Msgs -> Struct] /\ \A k \in Msgs \ {m} : msg'[k] = msg[k]
      /\ msg'[m].type = "RSP" /\ msg'[m].dest = From[m] /\ msg'[m].result = r
  <2> DEFINE a == Addressed(m, c, From[m], "RSP")
             b == [a EXCEPT !.result = r]
  <2>1. a \in Struct /\ a.type = "RSP" /\ a.dest = From[m]
    BY <1>1, AddressedFields DEF Types
  <2>2. msg' = [msg EXCEPT ![m] = b]
    BY <1>2 DEF Answered
  <2> HIDE DEF a
  <2>3. b \in Struct /\ b.type = "RSP" /\ b.dest = From[m] /\ b.result = r
    BY <2>1 DEF Struct
  <2> HIDE DEF b
  <2> QED
    BY <1>1, <2>2, <2>3, StructWritten
<1>7. TypeOK'
  BY <1>1, <1>2, <1>3, <1>5, <1>6 DEF TypeOK, Struct
<1>8. \A d \in Cpus : ThreadInv(d)'
  BY <1>3, <1>5 DEF IInv, ThreadInv, Noted
<1>9. \A k \in Msgs \ {m} : Kept(k)
  <2> SUFFICES ASSUME NEW k \in Msgs \ {m} PROVE Kept(k)
    OBVIOUS
  <2>1. /\ msg'[k] = msg[k]
        /\ \A d \in Cpus : Contains(req'[d], k) <=> Contains(req[d], k)
    BY <1>5, <1>6
  <2>2. service'[k] = service[k]
    BY <1>1, <1>2 DEF TypeOK
  <2> QED
    BY <1>3, <2>1, <2>2 DEF Kept, Unheard
<1>10. MsgInv(m)'
  <2>0. service'[m] = r
    BY <1>1, <1>2 DEF TypeOK
  <2> USE <2>0, <1>1, <1>3, <1>4, <1>5, <1>6, MsgEnds DEF MsgInv, TypeOK,
        ToHandle, CameIn, Noted, Listed, UnderWay, Delivered,
        Unheard, AtRest, Sender, Receiver, IsAnswer, Attended
  <2>1. OnePlace(m)'
    BY DEF OnePlace
  <2>2. OneNote(m)'
    BY DEF OneNote
  <2>3. Sending(m)'
    BY DEF Sending
  <2>4. CallInv(m)'
    BY DEF CallInv
  <2> QED
    BY <2>1, <2>2, <2>3, <2>4
<1> QED
  BY <1>1, <1>7, <1>8, <1>9, <1>10, RestKept

(* Steps that change what no message depends on.                            *)
LEMMA NothingMoved ==
    ASSUME IInv, UNCHANGED <<req, rsp, cur, send_ack_flag, msg, given, outcome, service>>,
           \A d \in Cpus, x \in Entries : Contains(queue'[d], x) <=> Contains(queue[d], x),
           \A d \in Cpus : cur[d] \in Msgs =>
               (Unheard(d)' <=> Unheard(d)) /\ (wire'[d] = "sent" => wire[d] = "sent")
    PROVE  \A k \in Msgs : Kept(k)
<1> SUFFICES ASSUME NEW k \in Msgs PROVE Kept(k)
  OBVIOUS
<1>1. Sent(k) \in Entries /\ Received(k) \in Entries
  BY DEF Entries, Sent, Received
<1> QED
  BY <1>1 DEF Kept

(* A thread that is not sending holds no message.                           *)
LEMMA IdleThread ==
    ASSUME IInv, NEW c \in Cpus, at[c] \notin {"ack", "note"}
    PROVE  /\ cur[c] = "none" /\ cur[c] \notin Msgs /\ ~send_ack_flag[c]
           /\ wire[c] = "none" /\ rsp_sem[c] = 0
<1>1. ThreadInv(c)
  BY DEF IInv
<1> QED
  BY <1>1, MsgEnds DEF ThreadInv

LEMMA PopEmptyKeeps == ASSUME IInv, NEW c \in Cpus, PopEmpty(c) PROVE IInv'
<1>1. /\ at[c] = "pop" /\ at' = [at EXCEPT ![c] = "sem"]
      /\ UNCHANGED <<req, rsp, queue, sem, rsp_sem, cur, send_ack_flag, wire, msg,
                     given, outcome, service, faults>>
  BY DEF PopEmpty, Goto, lists, ends
<1>2. \A m \in Msgs : ~Noted(c, m)
  BY <1>1 DEF IInv, ThreadInv
<1> USE <1>1
<1>3. TypeOK'
  BY DEF IInv, TypeOK
<1>4. \A d \in Cpus : ThreadInv(d)'
  BY <1>2 DEF IInv, ThreadInv, Noted, TypeOK
<1>5. \A k \in Msgs : Kept(k)
  <2>1. \A d \in Cpus : cur[d] \in Msgs => at'[d] = at[d]
    <3>1. cur[c] \notin Msgs
      BY IdleThread
    <3> QED
      BY <3>1 DEF IInv, TypeOK
  <2>2. \A d \in Cpus : cur[d] \in Msgs =>
            (Unheard(d)' <=> Unheard(d)) /\ (wire'[d] = "sent" => wire[d] = "sent")
    BY <2>1 DEF Unheard
  <2> QED
    BY <2>2, NothingMoved
<1> QED
  BY <1>3, <1>4, <1>5, KeptInv DEF IInv

LEMMA WakeUpKeeps == ASSUME IInv, NEW c \in Cpus, WakeUp(c) PROVE IInv'
<1> USE DEF WakeUp, Goto, lists, ends
<1>1. TypeOK'
  BY DEF IInv, TypeOK
<1>2. \A d \in Cpus : ThreadInv(d)'
  BY DEF IInv, ThreadInv, Noted, TypeOK
<1>3. \A k \in Msgs : Kept(k)
  <2>1. \A d \in Cpus : cur[d] \in Msgs => at'[d] = at[d]
    <3>1. cur[c] \notin Msgs
      BY IdleThread
    <3> QED
      BY <3>1 DEF IInv, TypeOK
  <2>2. \A d \in Cpus : cur[d] \in Msgs =>
            (Unheard(d)' <=> Unheard(d)) /\ (wire'[d] = "sent" => wire[d] = "sent")
    BY <2>1 DEF Unheard
  <2> QED
    BY <2>2, NothingMoved
<1> QED
  BY <1>1, <1>2, <1>3, KeptInv DEF IInv

LEMMA DrainEndKeeps == ASSUME IInv, NEW c \in Cpus, DrainEnd(c) PROVE IInv'
<1>1. /\ at[c] = "drain" /\ at' = [at EXCEPT ![c] = "pop"]
      /\ UNCHANGED <<req, rsp, queue, sem, rsp_sem, cur, send_ack_flag, wire, msg,
                     given, outcome, service, faults>>
  BY DEF DrainEnd, Goto, lists, ends
<1>2. \A m \in Msgs : ~Noted(c, m)
  <2>1. Len(queue[c]) = 0
    BY DEF DrainEnd
  <2> QED
    BY <2>1 DEF Noted, Contains
<1> USE <1>1
<1>3. TypeOK'
  BY DEF IInv, TypeOK
<1>4. \A d \in Cpus : ThreadInv(d)'
  BY <1>2 DEF IInv, ThreadInv, Noted, TypeOK
<1>5. \A k \in Msgs : Kept(k)
  <2>1. \A d \in Cpus : cur[d] \in Msgs => at'[d] = at[d]
    <3>1. cur[c] \notin Msgs
      BY IdleThread
    <3> QED
      BY <3>1 DEF IInv, TypeOK
  <2>2. \A d \in Cpus : cur[d] \in Msgs =>
            (Unheard(d)' <=> Unheard(d)) /\ (wire'[d] = "sent" => wire[d] = "sent")
    BY <2>1 DEF Unheard
  <2> QED
    BY <2>2, NothingMoved
<1> QED
  BY <1>3, <1>4, <1>5, KeptInv DEF IInv

LEMMA TxCmplIsrKeeps == ASSUME IInv, NEW c \in Cpus, TxCmplIsr(c) PROVE IInv'
<1> USE DEF TxCmplIsr, lists, thread, ends
<1>1. TypeOK'
  BY DEF IInv, TypeOK
<1>2. at[c] = "ack"
  BY DEF IInv, ThreadInv
<1>3. \A d \in Cpus : ThreadInv(d)'
  BY <1>2 DEF IInv, ThreadInv, Noted, TypeOK
<1>4. \A k \in Msgs : Kept(k)
  <2>1. \A d \in Cpus : /\ Unheard(d)' <=> Unheard(d)
                        /\ wire'[d] = "sent" => wire[d] = "sent"
    BY DEF Unheard, IInv, TypeOK
  <2> QED
    BY <2>1, NothingMoved
<1> QED
  BY <1>1, <1>3, <1>4, KeptInv DEF IInv

LEMMA LoseKeeps == ASSUME IInv, NEW c \in Cpus, Lose(c) PROVE IInv'
<1> USE DEF Lose, lists, thread, ends
<1>1. TypeOK'
  BY MailboxAssumption DEF IInv, TypeOK
<1>2. at[c] = "ack" /\ rsp_sem[c] = 0
  BY DEF IInv, ThreadInv, TypeOK
<1>3. \A d \in Cpus : ThreadInv(d)'
  BY <1>2 DEF IInv, ThreadInv, Noted, TypeOK
<1>4. \A k \in Msgs : Kept(k)
  <2>1. \A d \in Cpus : /\ Unheard(d)' <=> Unheard(d)
                        /\ wire'[d] = "sent" => wire[d] = "sent"
    BY DEF Unheard, IInv, TypeOK
  <2> QED
    BY <2>1, NothingMoved
<1> QED
  BY <1>1, <1>3, <1>4, KeptInv DEF IInv

(* What is known of a message that a thread takes off its list.             *)
LEMMA PoppedFacts ==
    ASSUME IInv, NEW c \in Cpus, NEW m \in Msgs, Popped(c, m)
    PROVE  /\ TypeOK /\ MsgInv(m) /\ Once(req[c]) /\ Once(rsp[c])
           /\ cur[c] = "none" /\ wire[c] = "none" /\ rsp_sem[c] = 0 /\ ~send_ack_flag[c]
           /\ at[c] = "pop" /\ ToHandle(c, m) /\ \A k \in Msgs : ~Noted(c, k)
           /\ m \in Calls => outcome[m] = "waiting" /\ msg[m].type \in {"REQ", "RSP"}
           /\ m \in Notes => msg[m].src = From[m] /\ msg[m].type \in {"NOTIFY", "RSP"}
           /\ msg[m].dest = Receiver(m) /\ c \in {Sender(m), Receiver(m)} /\ ~AtRest(m)
           /\ \A d \in Cpus : ~CameIn(d, m) /\ ~UnderWay(d, m) /\ (d # c => ~ToHandle(d, m))
           /\ m \in Calls /\ ~IsAnswer(m) => service[m] = "none"
<1>1. /\ req[c] \in Seq(Msgs) /\ req[c] # <<>> /\ m = Head(req[c]) /\ at[c] = "pop"
      /\ TypeOK /\ MsgInv(m) /\ ThreadInv(c)
  BY DEF IInv, TypeOK, Popped
<1>2. Once(req[c]) /\ Once(rsp[c]) /\ \A k \in Msgs : ~Noted(c, k)
  BY <1>1 DEF ThreadInv
<1>3. cur[c] = "none" /\ wire[c] = "none" /\ rsp_sem[c] = 0 /\ ~send_ack_flag[c]
  BY <1>1, IdleThread
<1>4. ToHandle(c, m)
  BY <1>1, <1>2, Beheaded DEF ToHandle
<1>5. m \in Calls => outcome[m] = "waiting" /\ msg[m].type \in {"REQ", "RSP"}
                     /\ msg[m].dest = Receiver(m)
  BY <1>1, <1>4 DEF MsgInv, CallInv, Nowhere, TypeOK, Types
<1>6. m \in Notes => msg[m].src = From[m] /\ msg[m].type \in {"NOTIFY", "RSP"}
                     /\ msg[m].dest = Receiver(m)
  BY <1>1, <1>4 DEF MsgInv, NoteInv, Nowhere, TypeOK, Types
<1>7. /\ c \in {Sender(m), Receiver(m)} /\ ~AtRest(m)
      /\ \A d \in Cpus : ~CameIn(d, m) /\ ~UnderWay(d, m) /\ (d # c => ~ToHandle(d, m))
  BY <1>1, <1>4 DEF MsgInv, OnePlace, UnderWay
<1>8. m \in Calls /\ ~IsAnswer(m) => service[m] = "none"
  BY <1>1, <1>4, <1>5 DEF MsgInv, CallInv
<1> QED
  BY <1>1, <1>2, <1>3, <1>4, <1>5, <1>6, <1>7, <1>8 DEF Msgs

(* The struct that msg_send_back_to_media_*_mailbox leaves.                 *)
LEMMA SentBackFields ==
    ASSUME TypeOK, NEW c \in Cpus, NEW m \in Msgs
    PROVE  /\ SentBack(c, m) \in Struct
           /\ c = "major" => SentBack(c, m) = msg[m]
           /\ c # "major" => /\ SentBack(c, m).type = "RSP" /\ SentBack(c, m).src = c
                             /\ SentBack(c, m).dest = c /\ SentBack(c, m).count = 0
                             /\ SentBack(c, m).result = "fail"
<1> DEFINE a == Addressed(m, c, c, "RSP")
<1>1. a \in Struct /\ a.type = "RSP" /\ a.src = c /\ a.dest = c /\ a.count = 0
  BY AddressedFields DEF Types
<1>2. msg[m] \in Struct
  BY DEF TypeOK, Struct
<1>3. SentBack(c, m) = IF c = "major" THEN msg[m] ELSE [a EXCEPT !.result = "fail"]
  BY DEF SentBack
<1> HIDE DEF a
<1> QED
  BY <1>1, <1>2, <1>3 DEF Struct

(* A message that leaves a place keeps what the invariant says of it.       *)
LEMMA Leaves ==
    ASSUME NEW m \in Msgs, MsgInv(m), TypeOK,
           \A d \in Cpus : (Contains(req'[d], m) => Contains(req[d], m))
                           /\ (cur'[d] = m => cur[d] = m),
           UNCHANGED <<rsp, queue, at, wire, rsp_sem, send_ack_flag, msg, given, outcome, service>>
    PROVE  MsgInv(m)'
<1> USE MsgEnds DEF MsgInv, TypeOK, ToHandle, CameIn, Noted, Listed, UnderWay, Delivered,
        Unheard, AtRest, Sender, Receiver, IsAnswer, Attended
<1>1. OnePlace(m)'
  BY DEF OnePlace
<1>2. OneNote(m)'
  BY DEF OneNote
<1>3. Sending(m)'
  BY DEF Sending
<1>4. ASSUME m \in Calls PROVE CallInv(m)'
  BY <1>4 DEF CallInv, Nowhere
<1>5. ASSUME m \in Notes PROVE NoteInv(m)'
  BY <1>5 DEF NoteInv, Nowhere
<1> QED
  BY <1>1, <1>2, <1>3, <1>4, <1>5

LEMMA PopExhaustedKeeps ==
    ASSUME IInv, NEW c \in Cpus, NEW m \in Msgs, PopExhausted(c, m)
    PROVE  IInv'
<1>1. Popped(c, m) /\ msg[m].count > 2
  BY DEF PopExhausted, Exhausted
<1>2. /\ rsp' = rsp /\ queue' = queue /\ rsp_sem' = rsp_sem /\ at' = at /\ cur' = cur
      /\ send_ack_flag' = send_ack_flag /\ wire' = wire /\ given' = given
      /\ outcome' = outcome /\ service' = service /\ faults' = faults
  BY DEF PopExhausted, thread, ends
<1>3. /\ TypeOK /\ MsgInv(m) /\ ToHandle(c, m) /\ Once(req[c]) /\ msg[m] \in Struct
  <2>1. TypeOK /\ MsgInv(m) /\ ToHandle(c, m) /\ Once(req[c])
    BY <1>1, PoppedFacts
  <2> QED
    BY <2>1 DEF TypeOK, Struct
<1>4. CASE msg[m].type = "REQ"
  <2>1. /\ req' = Resubmitted(c, m) /\ sem' = [sem EXCEPT ![c] = 1]
        /\ msg' = [msg EXCEPT ![m] = SentBack(c, m)]
    BY <1>4 DEF PopExhausted
  <2>2. /\ req' \in [Cpus -> Seq(Msgs)]
        /\ Once(req'[c]) /\ \A d \in Cpus \ {c} : req'[d] = req[d]
        /\ \A d \in Cpus, k \in Msgs : Contains(req'[d], k) <=> Contains(req[d], k)
    BY <1>1, <1>3, <2>1, ReqResubmitted
  <2>3. /\ msg' \in [Msgs -> Struct] /\ \A k \in Msgs \ {m} : msg'[k] = msg[k]
        /\ c = "major" => msg'[m] = msg[m]
        /\ c # "major" => /\ msg'[m].type = "RSP" /\ msg'[m].dest = c
                          /\ msg'[m].result = "fail"
    <3> DEFINE a == SentBack(c, m)
    <3>1. /\ a \in Struct
          /\ c = "major" => a = msg[m]
          /\ c # "major" => a.type = "RSP" /\ a.dest = c /\ a.result = "fail"
      BY <1>3, SentBackFields
    <3>2. msg' = [msg EXCEPT ![m] = a]
      BY <2>1
    <3> HIDE DEF a
    <3> QED
      BY <1>3, <3>1, <3>2, StructWritten
  <2>4. TypeOK'
    BY <1>2, <1>3, <2>1, <2>2, <2>3 DEF TypeOK, Struct
  <2>5. \A d \in Cpus : ThreadInv(d)'
    BY <1>2, <2>2 DEF IInv, ThreadInv, Noted
  <2>6. \A k \in Msgs \ {m} : Kept(k)
    <3> SUFFICES ASSUME NEW k \in Msgs \ {m} PROVE Kept(k)
      OBVIOUS
    <3>1. /\ msg'[k] = msg[k]
          /\ \A d \in Cpus : Contains(req'[d], k) <=> Contains(req[d], k)
      BY <2>2, <2>3
    <3> QED
      BY <1>2, <3>1 DEF Kept, Unheard
  <2>7. MsgInv(m)'
    <3>1. CASE c = "major"
      <4>1. Kept(m)
        BY <1>2, <2>2, <2>3, <3>1 DEF Kept, Unheard
      <4> QED
        BY <1>3, <4>1, KeptInv
    <3>2. CASE c # "major"
      <4>1. /\ m \in Calls /\ outcome[m] = "waiting" /\ ~IsAnswer(m)
            /\ service[m] = "none" /\ c \in {From[m], To[m]} /\ ~AtRest(m)
            /\ \A d \in Cpus : ~CameIn(d, m) /\ ~UnderWay(d, m) /\ (d # c => ~ToHandle(d, m))
        BY <1>1, <1>4, PoppedFacts DEF Msgs, Sender, Receiver, IsAnswer
      <4>2. c = From[m]
        BY <1>1, <1>3, <1>4, <4>1 DEF MsgInv, Sending, Struct
      <4>3. ~Attended(m) /\ given[m] = 0
        BY <1>3, <4>1, <4>2 DEF MsgInv, OneNote, CallInv
      <4> USE <1>2, <1>3, <2>2, <2>3, <3>2, <4>1, <4>2, <4>3, MsgEnds DEF MsgInv, TypeOK,
          ToHandle, CameIn, Noted, Listed, UnderWay, Delivered,
          Unheard, AtRest, Sender, Receiver, IsAnswer, Attended
      <4>4. OnePlace(m)'
        BY DEF OnePlace
      <4>5. OneNote(m)'
        BY DEF OneNote
      <4>6. Sending(m)'
        BY DEF Sending
      <4>7. CallInv(m)'
        BY DEF CallInv
      <4> QED
        BY <4>4, <4>5, <4>6, <4>7
    <3> QED
      BY <3>1, <3>2
  <2> QED
    BY <1>3, <2>4, <2>5, <2>6, <2>7, RestKept
<1>5. CASE msg[m].type # "REQ"
  <2>1. req' = [req EXCEPT ![c] = Tail(@)] /\ sem' = sem /\ msg' = msg
    BY <1>5 DEF PopExhausted
  <2>2. /\ req' \in [Cpus -> Seq(Msgs)]
        /\ Once(req'[c]) /\ \A d \in Cpus \ {c} : req'[d] = req[d]
        /\ \A d \in Cpus, k \in Msgs :
              Contains(req'[d], k) <=> Contains(req[d], k) /\ ~(d = c /\ k = m)
    BY <1>1, <1>3, <2>1, ReqPopped
  <2>3. TypeOK'
    BY <1>2, <1>3, <2>1, <2>2 DEF TypeOK
  <2>4. \A d \in Cpus : ThreadInv(d)'
    BY <1>2, <2>2 DEF IInv, ThreadInv, Noted
  <2>5. \A k \in Msgs \ {m} : Kept(k)
    <3> SUFFICES ASSUME NEW k \in Msgs \ {m} PROVE Kept(k)
      OBVIOUS
    <3>1. \A d \in Cpus : Contains(req'[d], k) <=> Contains(req[d], k)
      BY <2>2
    <3> QED
      BY <1>2, <2>1, <3>1 DEF Kept, Unheard
  <2>6. MsgInv(m)'
    BY <1>2, <1>3, <2>1, <2>2, Leaves
  <2> QED
    BY <1>3, <2>3, <2>4, <2>5, <2>6, RestKept
<1> QED
  BY <1>4, <1>5

LEMMA PopSendKeeps ==
    ASSUME IInv, NEW c \in Cpus, NEW m \in Msgs, PopSend(c, m)
    PROVE  IInv'
<1>1. Popped(c, m) /\ ~(msg[m].count > 2) /\ msg[m].dest # c
  BY DEF PopSend, Exhausted
<1>2. /\ req' = [req EXCEPT ![c] = Tail(@)]
      /\ msg' = [msg EXCEPT ![m] = [msg[m] EXCEPT !.ack = "SEND"]]
      /\ send_ack_flag' = [send_ack_flag EXCEPT ![c] = msg[m].type # "RSP"]
      /\ cur' = [cur EXCEPT ![c] = m] /\ wire' = [wire EXCEPT ![c] = "sent"]
      /\ at' = [at EXCEPT ![c] = "ack"]
      /\ rsp' = rsp /\ queue' = queue /\ sem' = sem /\ rsp_sem' = rsp_sem
      /\ given' = given /\ outcome' = outcome /\ service' = service /\ faults' = faults
  BY DEF PopSend, Goto, ends
<1>3. /\ TypeOK /\ MsgInv(m) /\ ToHandle(c, m) /\ Once(req[c])
      /\ cur[c] = "none" /\ wire[c] = "none" /\ rsp_sem[c] = 0 /\ at[c] = "pop"
      /\ c = Sender(m) /\ ~AtRest(m)
      /\ \A k \in Msgs : ~Noted(c, k)
      /\ \A d \in Cpus : ~CameIn(d, m) /\ ~UnderWay(d, m) /\ (d # c => ~ToHandle(d, m))
      /\ m \in Calls => outcome[m] = "waiting" /\ msg[m].type \in {"REQ", "RSP"}
      /\ m \in Notes => msg[m].src = From[m] /\ msg[m].type \in {"NOTIFY", "RSP"}
      /\ msg[m].dest = Receiver(m)
      /\ m \in Calls /\ ~IsAnswer(m) => service[m] = "none"
  BY <1>1, PoppedFacts
<1>4. /\ req' \in [Cpus -> Seq(Msgs)]
      /\ Once(req'[c]) /\ \A d \in Cpus \ {c} : req'[d] = req[d]
      /\ \A d \in Cpus, k \in Msgs :
            Contains(req'[d], k) <=> Contains(req[d], k) /\ ~(d = c /\ k = m)
  BY <1>1, <1>2, <1>3, ReqPopped
<1>5. /\ msg' \in [Msgs -> Struct] /\ \A k \in Msgs \ {m} : msg'[k] = msg[k]
      /\ msg'[m].type = msg[m].type /\ msg'[m].dest = msg[m].dest
      /\ msg'[m].src = msg[m].src /\ msg'[m].count = msg[m].count
      /\ msg'[m].result = msg[m].result /\ msg'[m].ack = "SEND" /\ msg[m].count <= 2
  <2> DEFINE a == [msg[m] EXCEPT !.ack = "SEND"]
  <2>1. msg[m] \in Struct
    BY <1>3 DEF TypeOK, Struct
  <2>2. /\ a \in Struct /\ a.type = msg[m].type /\ a.dest = msg[m].dest
        /\ a.src = msg[m].src /\ a.count = msg[m].count
        /\ a.result = msg[m].result /\ a.ack = "SEND" /\ msg[m].count <= 2
    BY <1>1, <2>1 DEF Struct
  <2>3. msg' = [msg EXCEPT ![m] = a]
    BY <1>2
  <2> HIDE DEF a
  <2> QED
    BY <1>3, <2>2, <2>3, StructWritten
<1>6. /\ cur'[c] = m /\ wire'[c] = "sent" /\ at'[c] = "ack"
      /\ send_ack_flag'[c] <=> msg[m].type # "RSP"
      /\ \A d \in Cpus \ {c} : /\ cur'[d] = cur[d] /\ wire'[d] = wire[d] /\ at'[d] = at[d]
                               /\ send_ack_flag'[d] = send_ack_flag[d]
  BY <1>2, <1>3 DEF TypeOK
<1>7. TypeOK'
  BY <1>2, <1>3, <1>4, <1>5 DEF TypeOK, Struct
<1>8. \A d \in Cpus : ThreadInv(d)'
  BY <1>2, <1>3, <1>4, <1>6 DEF IInv, ThreadInv, Noted
<1>9. \A k \in Msgs \ {m} : Kept(k)
  <2> SUFFICES ASSUME NEW k \in Msgs \ {m} PROVE Kept(k)
    OBVIOUS
  <2>1. /\ msg'[k] = msg[k] /\ k # "none"
        /\ \A d \in Cpus : Contains(req'[d], k) <=> Contains(req[d], k)
    BY <1>4, <1>5, MsgEnds
  <2> QED
    BY <1>2, <1>3, <1>6, <2>1 DEF Kept, Unheard
<1>10. MsgInv(m)'
  <2> USE <1>1, <1>3, <1>4, <1>5, <1>6, MsgEnds DEF MsgInv,
        ToHandle, CameIn, Noted, Listed, UnderWay, Delivered,
        Unheard, AtRest, Sender, Receiver, IsAnswer, Attended
  <2>1. OnePlace(m)'
    BY <1>2 DEF OnePlace
  <2>2. OneNote(m)'
    BY <1>2 DEF OneNote
  <2>3. Sending(m)'
    BY <1>2 DEF Sending
  <2>4. ASSUME m \in Calls PROVE CallInv(m)'
    BY <1>2, <2>4 DEF CallInv
  <2>5. ASSUME m \in Notes PROVE NoteInv(m)'
    BY <1>2, <2>5 DEF NoteInv
  <2> QED
    BY <2>1, <2>2, <2>3, <2>4, <2>5
<1> QED
  BY <1>3, <1>7, <1>8, <1>9, <1>10, RestKept

LEMMA PopSendFailsKeeps ==
    ASSUME AnswersWritten, IInv, NEW c \in Cpus, NEW m \in Msgs, PopSendFails(c, m)
    PROVE  IInv'
<1>1. /\ Popped(c, m) /\ msg[m].dest # c /\ m \in Faulty /\ msg[m].type \in FailingWrites
      /\ faults < MaxFaults /\ faults' = faults + 1
  BY DEF PopSendFails
<1>2. /\ req' = Resubmitted(c, m) /\ sem' = [sem EXCEPT ![c] = 1]
      /\ msg' = [msg EXCEPT ![m] = [SentBack(c, m) EXCEPT !.ack = "SEND"]]
      /\ at' = [at EXCEPT ![c] = "drain"]
      /\ rsp' = rsp /\ queue' = queue /\ rsp_sem' = rsp_sem /\ cur' = cur
      /\ send_ack_flag' = send_ack_flag /\ wire' = wire /\ given' = given
      /\ outcome' = outcome /\ service' = service
  BY DEF PopSendFails, Goto, ends
<1>3. /\ TypeOK /\ MsgInv(m) /\ ToHandle(c, m) /\ Once(req[c])
      /\ cur[c] = "none" /\ wire[c] = "none" /\ rsp_sem[c] = 0 /\ at[c] = "pop"
      /\ ~send_ack_flag[c] /\ c = Sender(m) /\ ~AtRest(m)
      /\ \A k \in Msgs : ~Noted(c, k)
      /\ \A d \in Cpus : ~CameIn(d, m) /\ ~UnderWay(d, m) /\ (d # c => ~ToHandle(d, m))
      /\ m \in Calls => outcome[m] = "waiting" /\ msg[m].type \in {"REQ", "RSP"}
      /\ m \in Notes => msg[m].src = From[m] /\ msg[m].type \in {"NOTIFY", "RSP"}
      /\ msg[m].dest = Receiver(m)
      /\ m \in Calls /\ ~IsAnswer(m) => service[m] = "none"
  BY <1>1, PoppedFacts
<1>4. /\ req' \in [Cpus -> Seq(Msgs)]
      /\ Once(req'[c]) /\ \A d \in Cpus \ {c} : req'[d] = req[d]
      /\ \A d \in Cpus, k \in Msgs : Contains(req'[d], k) <=> Contains(req[d], k)
  BY <1>1, <1>2, <1>3, ReqResubmitted
<1>5. c # "major" => ~IsAnswer(m)
  <2>1. m \in Notes /\ IsAnswer(m) => ~ToHandle(To[m], m)
    BY <1>3 DEF MsgInv, NoteInv
  <2>2. m \in Calls /\ IsAnswer(m) => To[m] = "major"
    BY <1>1 DEF AnswersWritten, IsAnswer
  <2> QED
    BY <1>3, <2>1, <2>2 DEF Sender, Msgs
<1>6. /\ msg' \in [Msgs -> Struct] /\ \A k \in Msgs \ {m} : msg'[k] = msg[k]
      /\ msg'[m].ack = "SEND"
      /\ c = "major" => /\ msg'[m].type = msg[m].type /\ msg'[m].src = msg[m].src
                        /\ msg'[m].dest = msg[m].dest /\ msg'[m].result = msg[m].result
                        /\ msg'[m].count = msg[m].count
      /\ c # "major" => /\ msg'[m].type = "RSP" /\ msg'[m].src = c /\ msg'[m].dest = c
                        /\ msg'[m].result = "fail"
  <2> DEFINE b == SentBack(c, m)
             a == [b EXCEPT !.ack = "SEND"]
  <2>1. /\ b \in Struct
        /\ c = "major" => b = msg[m]
        /\ c # "major" => b.type = "RSP" /\ b.src = c /\ b.dest = c /\ b.result = "fail"
    BY <1>3, SentBackFields
  <2>2. msg' = [msg EXCEPT ![m] = a]
    BY <1>2
  <2> HIDE DEF b
  <2>3. /\ a \in Struct /\ a.ack = "SEND" /\ a.type = b.type /\ a.src = b.src
        /\ a.dest = b.dest /\ a.result = b.result /\ a.count = b.count
    BY <2>1 DEF Struct
  <2> HIDE DEF a
  <2>4. msg' \in [Msgs -> Struct] /\ msg'[m] = a /\ \A k \in Msgs \ {m} : msg'[k] = msg[k]
    BY <1>3, <2>2, <2>3, StructWritten
  <2> QED
    BY <2>1, <2>3, <2>4
<1>7. at'[c] = "drain" /\ \A d \in Cpus \ {c} : at'[d] = at[d]
  BY <1>2, <1>3 DEF TypeOK
<1>8. TypeOK'
  <2>1. faults' \in 0..MaxFaults
    BY <1>1, <1>3, MailboxAssumption DEF TypeOK
  <2> QED
    BY <1>2, <1>3, <1>4, <1>6, <2>1 DEF TypeOK, Struct
<1>9. \A d \in Cpus : ThreadInv(d)'
  BY <1>2, <1>3, <1>4, <1>7 DEF IInv, ThreadInv, Noted
<1>10. \A k \in Msgs \ {m} : Kept(k)
  <2> SUFFICES ASSUME NEW k \in Msgs \ {m} PROVE Kept(k)
    OBVIOUS
  <2>1. /\ msg'[k] = msg[k] /\ k # "none"
        /\ \A d \in Cpus : Contains(req'[d], k) <=> Contains(req[d], k)
    BY <1>4, <1>6, MsgEnds
  <2> QED
    BY <1>2, <1>3, <1>7, <2>1 DEF Kept, Unheard
<1>11. MsgInv(m)'
  <2>1. ~IsAnswer(m) => ~Attended(m)
    BY <1>3 DEF MsgInv, OneNote, Sender
  <2> USE <1>3, <1>4, <1>5, <1>6, <1>7, <2>1, MsgEnds DEF MsgInv,
        ToHandle, CameIn, Noted, Listed, UnderWay, Delivered,
        Unheard, AtRest, Sender, Receiver, IsAnswer, Attended
  <2>2. OnePlace(m)'
    BY <1>2 DEF OnePlace
  <2>3. OneNote(m)'
    BY <1>2 DEF OneNote
  <2>4. Sending(m)'
    BY <1>2 DEF Sending
  <2>5. ASSUME m \in Calls PROVE CallInv(m)'
    BY <1>2, <2>5 DEF CallInv
  <2>6. ASSUME m \in Notes PROVE NoteInv(m)'
    BY <1>2, <2>6 DEF NoteInv
  <2> QED
    BY <2>2, <2>3, <2>4, <2>5, <2>6
<1> QED
  BY <1>3, <1>8, <1>9, <1>10, <1>11, RestKept

LEMMA PopHandleKeeps ==
    ASSUME IInv, NEW c \in Cpus, NEW m \in Msgs, PopHandle(c, m)
    PROVE  IInv'
<1>1. Popped(c, m) /\ msg[m].dest = c
  BY DEF PopHandle
<1>2. /\ req' = [req EXCEPT ![c] = Tail(@)] /\ at' = [at EXCEPT ![c] = "drain"]
      /\ queue' = queue /\ sem' = sem /\ rsp_sem' = rsp_sem /\ cur' = cur
      /\ send_ack_flag' = send_ack_flag /\ wire' = wire /\ msg' = msg
      /\ outcome' = outcome /\ faults' = faults
  BY DEF PopHandle, Goto
<1>3. /\ TypeOK /\ MsgInv(m) /\ ToHandle(c, m) /\ Once(req[c]) /\ Once(rsp[c])
      /\ cur[c] = "none" /\ wire[c] = "none" /\ rsp_sem[c] = 0 /\ at[c] = "pop"
      /\ c = Receiver(m) /\ ~AtRest(m)
      /\ \A k \in Msgs : ~Noted(c, k)
      /\ \A d \in Cpus : ~CameIn(d, m) /\ ~UnderWay(d, m) /\ (d # c => ~ToHandle(d, m))
      /\ m \in Calls => outcome[m] = "waiting" /\ msg[m].type \in {"REQ", "RSP"}
      /\ m \in Notes => msg[m].src = From[m] /\ msg[m].type \in {"NOTIFY", "RSP"}
      /\ m \in Calls /\ ~IsAnswer(m) => service[m] = "none"
  BY <1>1, PoppedFacts
<1>4. /\ req' \in [Cpus -> Seq(Msgs)]
      /\ Once(req'[c]) /\ \A d \in Cpus \ {c} : req'[d] = req[d]
      /\ \A d \in Cpus, k \in Msgs :
            Contains(req'[d], k) <=> Contains(req[d], k) /\ ~(d = c /\ k = m)
  BY <1>1, <1>2, <1>3, ReqPopped
<1>5. at'[c] = "drain" /\ \A d \in Cpus \ {c} : at'[d] = at[d]
  BY <1>2, <1>3 DEF TypeOK
<1>6. CASE IsAnswer(m) /\ m \in Calls
  <2>1. c = From[m] /\ c # "minor"
    BY <1>3, <1>6, MsgEnds DEF Receiver
  <2>2. /\ rsp' = [rsp EXCEPT ![c] = Unlisted(@, m)] /\ given' = [given EXCEPT ![m] = 1]
        /\ service' = service
    BY <1>6, <2>1 DEF PopHandle, IsAnswer
  <2>3. /\ rsp' \in [Cpus -> Seq(Msgs)]
        /\ Once(rsp'[c]) /\ \A d \in Cpus \ {c} : rsp'[d] = rsp[d]
        /\ \A d \in Cpus, k \in Msgs :
              Contains(rsp'[d], k) <=> Contains(rsp[d], k) /\ ~(d = c /\ k = m)
    BY <1>3, <2>2, RspUnlisted
  <2>4. given' \in [Calls -> {0, 1}] /\ given'[m] = 1
        /\ \A k \in Calls \ {m} : given'[k] = given[k]
    BY <1>3, <1>6, <2>2 DEF TypeOK
  <2>5. TypeOK'
    BY <1>2, <1>3, <1>4, <2>2, <2>3, <2>4 DEF TypeOK
  <2>6. \A d \in Cpus : ThreadInv(d)'
    BY <1>2, <1>3, <1>4, <1>5, <2>3 DEF IInv, ThreadInv, Noted
  <2>7. \A k \in Msgs \ {m} : Kept(k)
    <3> SUFFICES ASSUME NEW k \in Msgs \ {m} PROVE Kept(k)
      OBVIOUS
    <3>1. /\ k # "none"
          /\ \A d \in Cpus : /\ Contains(req'[d], k) <=> Contains(req[d], k)
                             /\ Contains(rsp'[d], k) <=> Contains(rsp[d], k)
      BY <1>4, <2>3, MsgEnds
    <3> QED
      BY <1>2, <1>3, <1>5, <2>2, <2>4, <3>1 DEF Kept, Unheard
  <2>8. MsgInv(m)'
    <3> USE <1>3, <1>4, <1>5, <1>6, <2>1, <2>3, <2>4, MsgEnds DEF MsgInv,
          ToHandle, CameIn, Noted, Listed, UnderWay, Delivered,
          Unheard, AtRest, Sender, Receiver, IsAnswer, Attended
    <3>1. OnePlace(m)'
      BY <1>2, <2>2 DEF OnePlace
    <3>2. OneNote(m)'
      BY <1>2 DEF OneNote
    <3>3. Sending(m)'
      BY <1>2 DEF Sending
    <3>4. CallInv(m)'
      BY <1>2, <2>2 DEF CallInv
    <3> QED
      BY <3>1, <3>2, <3>3, <3>4
  <2> QED
    BY <1>3, <2>5, <2>6, <2>7, <2>8, RestKept
<1>7. CASE ~(IsAnswer(m) /\ m \in Calls)
  <2>1. rsp' = rsp /\ given' = given
    BY <1>7 DEF PopHandle, IsAnswer
  <2>2. /\ service' \in [Msgs -> {"none", "serving", "ok", "fail"}]
        /\ \A k \in Msgs \ {m} : service'[k] = service[k]
        /\ service'[m] = IF m \in Calls THEN "serving"
                         ELSE IF IsAnswer(m) THEN service[m] ELSE "ok"
    BY <1>3, <1>7, MsgEnds DEF PopHandle, IsAnswer, TypeOK, Msgs
  <2>3. TypeOK'
    BY <1>2, <1>3, <1>4, <2>1, <2>2 DEF TypeOK
  <2>4. \A d \in Cpus : ThreadInv(d)'
    BY <1>2, <1>3, <1>4, <1>5, <2>1 DEF IInv, ThreadInv, Noted
  <2>5. \A k \in Msgs \ {m} : Kept(k)
    <3> SUFFICES ASSUME NEW k \in Msgs \ {m} PROVE Kept(k)
      OBVIOUS
    <3>1. /\ k # "none"
          /\ \A d \in Cpus : Contains(req'[d], k) <=> Contains(req[d], k)
      BY <1>4, MsgEnds
    <3> QED
      BY <1>2, <1>3, <1>5, <2>1, <2>2, <3>1 DEF Kept, Unheard
  <2>6. MsgInv(m)'
    <3> USE <1>3, <1>4, <1>5, <1>7, <2>1, <2>2, MsgEnds DEF MsgInv,
          ToHandle, CameIn, Noted, Listed, UnderWay, Delivered,
          Unheard, AtRest, Sender, Receiver, IsAnswer, Attended
    <3>1. OnePlace(m)'
      BY <1>2 DEF OnePlace
    <3>2. OneNote(m)'
      BY <1>2 DEF OneNote
    <3>3. Sending(m)'
      BY <1>2 DEF Sending
    <3>4. ASSUME m \in Calls PROVE CallInv(m)'
      BY <1>2, <3>4 DEF CallInv
    <3>5. ASSUME m \in Notes PROVE NoteInv(m)'
      BY <1>2, <3>5 DEF NoteInv
    <3> QED
      BY <3>1, <3>2, <3>3, <3>4, <3>5
  <2> QED
    BY <1>3, <2>3, <2>4, <2>5, <2>6, RestKept
<1> QED
  BY <1>6, <1>7

LEMMA AckWakeKeeps ==
    ASSUME IInv, NEW c \in Cpus, NEW m \in Msgs, m = cur[c], AckWake(c)
    PROVE  IInv'
<1>1. at[c] = "ack" /\ rsp_sem[c] = 1
  BY DEF AckWake
<1>2. /\ TypeOK /\ ThreadInv(c) /\ m \in Msgs /\ MsgInv(m) /\ wire[c] = "none"
      /\ ~Unheard(c) /\ Delivered(c, m) /\ c \in {From[m], To[m]}
  <2>1. TypeOK /\ ThreadInv(c)
    BY DEF IInv
  <2>2. m \in Msgs /\ wire[c] = "none"
    BY <1>1, <2>1 DEF ThreadInv
  <2>3. MsgInv(m)
    BY <2>2 DEF IInv
  <2> QED
    BY <1>1, <2>1, <2>2, <2>3 DEF MsgInv, OnePlace, Sender, Receiver, Delivered, Unheard
<1>3. ~(send_ack_flag[c] /\ ~Acknowledged(m) /\ msg[m].type = "REQ")
  BY <1>2 DEF MsgInv, Sending, Delivered, Acknowledged
<1>4. /\ rsp_sem' = [rsp_sem EXCEPT ![c] = 0]
      /\ req' = req /\ sem' = sem /\ msg' = msg /\ rsp' = rsp /\ queue' = queue
      /\ wire' = wire /\ given' = given /\ outcome' = outcome /\ service' = service
      /\ faults' = faults
  BY <1>3 DEF AckWake, Requeue, ends
<1>5. \/ /\ at' = [at EXCEPT ![c] = "note"] /\ cur' = cur /\ send_ack_flag' = send_ack_flag
         /\ m \in Calls /\ c = From[m]
      \/ /\ at' = [at EXCEPT ![c] = "drain"] /\ cur' = [cur EXCEPT ![c] = "none"]
         /\ send_ack_flag' = [send_ack_flag EXCEPT ![c] = FALSE]
  <2>1. CASE send_ack_flag[c] /\ Acknowledged(m) /\ msg[m].type = "REQ"
    <3>1. c = From[m]
      BY <1>2, <2>1 DEF MsgInv, Sending
    <3>2. m \in Calls
      BY <1>2, <2>1, MsgEnds DEF MsgInv, NoteInv
    <3> QED
      BY <2>1, <3>1, <3>2 DEF AckWake, Goto
  <2>2. CASE ~(send_ack_flag[c] /\ Acknowledged(m) /\ msg[m].type = "REQ")
    BY <2>2 DEF AckWake, SendEnds, Goto
  <2> QED
    BY <2>1, <2>2
<1>6. rsp_sem'[c] = 0 /\ \A d \in Cpus \ {c} : rsp_sem'[d] = rsp_sem[d]
  BY <1>2, <1>4 DEF TypeOK
<1>7. /\ \A d \in Cpus \ {c} : at'[d] = at[d] /\ cur'[d] = cur[d]
                               /\ send_ack_flag'[d] = send_ack_flag[d]
      /\ \/ at'[c] = "note" /\ cur'[c] = m /\ send_ack_flag'[c] = send_ack_flag[c]
         \/ at'[c] = "drain" /\ cur'[c] = "none" /\ ~send_ack_flag'[c]
  BY <1>2, <1>5 DEF TypeOK
<1>8. TypeOK'
  <2>1. /\ at' \in [Cpus -> {"pop", "sem", "ack", "note", "drain"}]
        /\ cur' \in [Cpus -> Msgs \cup {"none"}]
        /\ send_ack_flag' \in [Cpus -> BOOLEAN]
    <3>1. CASE at' = [at EXCEPT ![c] = "note"] /\ UNCHANGED <<cur, send_ack_flag>>
      BY <1>2, <3>1 DEF TypeOK
    <3>2. CASE /\ at' = [at EXCEPT ![c] = "drain"] /\ cur' = [cur EXCEPT ![c] = "none"]
               /\ send_ack_flag' = [send_ack_flag EXCEPT ![c] = FALSE]
      BY <1>2, <3>2 DEF TypeOK
    <3> QED
      BY <1>5, <3>1, <3>2
  <2> QED
    BY <1>2, <1>4, <2>1 DEF TypeOK
<1>9. \A d \in Cpus : ThreadInv(d)'
  <2>1. ASSUME NEW d \in Cpus \ {c} PROVE ThreadInv(d)'
    BY <1>4, <1>6, <1>7, <2>1 DEF IInv, ThreadInv, Noted
  <2>2. ThreadInv(c)'
    <3>1. at'[c] = "note" => m \in Calls /\ c = From[m]
      BY <1>2, <1>5 DEF TypeOK
    <3>2. \A k \in Msgs : ~Noted(c, k)
      BY <1>1, <1>2 DEF ThreadInv
    <3> QED
      BY <1>2, <1>4, <1>6, <1>7, <3>1, <3>2 DEF ThreadInv, Noted
  <2> QED
    BY <2>1, <2>2
<1>10. \A k \in Msgs \ {m} : Kept(k)
  BY <1>2, <1>4, <1>6, <1>7, MsgEnds DEF Kept, Unheard
<1>11. MsgInv(m)'
  <2> USE <1>1, <1>2, <1>4, <1>6, <1>7, MsgEnds DEF MsgInv,
        ToHandle, CameIn, Noted, Listed, UnderWay, Delivered,
        Unheard, AtRest, Sender, Receiver, IsAnswer, Attended
  <2>1. OnePlace(m)'
    BY DEF OnePlace
  <2>2. OneNote(m)'
    BY DEF OneNote
  <2>3. Sending(m)'
    BY DEF Sending
  <2>4. ASSUME m \in Calls PROVE CallInv(m)'
    BY <2>4 DEF CallInv, Nowhere
  <2>5. ASSUME m \in Notes PROVE NoteInv(m)'
    BY <2>5 DEF NoteInv, Nowhere
  <2> QED
    BY <2>1, <2>2, <2>3, <2>4, <2>5
<1> QED
  BY <1>2, <1>8, <1>9, <1>10, <1>11, RestKept

LEMMA NoteSentKeeps ==
    ASSUME IInv, NEW c \in Cpus, NEW m \in Msgs, m = cur[c], NoteSent(c)
    PROVE  IInv'
<1> DEFINE e == Sent(m)
<1>1. at[c] = "note"
  BY DEF NoteSent
<1>2. /\ TypeOK /\ ThreadInv(c) /\ m \in Msgs /\ m \in Calls /\ c = From[m] /\ MsgInv(m)
      /\ Delivered(c, m) /\ wire[c] = "none" /\ rsp_sem[c] = 0
      /\ Once(queue[c]) /\ ~Contains(queue[c], e) /\ e \in Entries
  <2>1. TypeOK /\ ThreadInv(c)
    BY DEF IInv
  <2>2. m \in Msgs /\ m \in Calls /\ c = From[m] /\ wire[c] = "none" /\ rsp_sem[c] = 0
        /\ Once(queue[c])
    BY <1>1, <2>1 DEF ThreadInv
  <2>3. MsgInv(m) /\ ~Contains(queue[c], e) /\ e \in Entries
    BY <1>1, <2>1, <2>2 DEF IInv, ThreadInv, Noted, Entries, Sent
  <2> QED
    BY <1>1, <2>1, <2>2, <2>3 DEF Delivered, Unheard
<1>3. /\ queue' = Enqueued(c, e)
      /\ at' = [at EXCEPT ![c] = "drain"] /\ cur' = [cur EXCEPT ![c] = "none"]
      /\ send_ack_flag' = [send_ack_flag EXCEPT ![c] = FALSE]
      /\ req' = req /\ rsp' = rsp /\ sem' = sem /\ rsp_sem' = rsp_sem /\ wire' = wire
      /\ msg' = msg /\ given' = given /\ outcome' = outcome /\ service' = service
      /\ faults' = faults
  BY DEF NoteSent, SendEnds, Goto, ends
<1>4. /\ queue' \in [Cpus -> Seq(Entries)]
      /\ Once(queue'[c]) /\ \A d \in Cpus \ {c} : queue'[d] = queue[d]
      /\ \A d \in Cpus, x \in Entries :
            ~(d = c /\ x = e) => (Contains(queue'[d], x) <=> Contains(queue[d], x))
  <2> HIDE DEF e
  <2> QED
    BY <1>2, <1>3, QueueAppended
<1>5. /\ \A d \in Cpus, k \in Msgs :
            /\ Contains(queue'[d], Received(k)) <=> Contains(queue[d], Received(k))
            /\ ~(d = c /\ k = m) => (Contains(queue'[d], Sent(k)) <=> Contains(queue[d], Sent(k)))
  <2> SUFFICES ASSUME NEW d \in Cpus, NEW k \in Msgs
               PROVE  /\ Contains(queue'[d], Received(k)) <=> Contains(queue[d], Received(k))
                      /\ ~(d = c /\ k = m) => (Contains(queue'[d], Sent(k)) <=> Contains(queue[d], Sent(k)))
    OBVIOUS
  <2>1. /\ Received(k) \in Entries /\ Sent(k) \in Entries
        /\ Received(k) # e /\ (Sent(k) = e => k = m)
    BY DEF Received, Sent, Entries
  <2> HIDE DEF e
  <2> QED
    BY <1>4, <2>1
<1>6. /\ \A d \in Cpus \ {c} : at'[d] = at[d] /\ cur'[d] = cur[d]
                               /\ send_ack_flag'[d] = send_ack_flag[d]
      /\ at'[c] = "drain" /\ cur'[c] = "none" /\ ~send_ack_flag'[c]
  BY <1>2, <1>3 DEF TypeOK
<1>7. TypeOK'
  BY <1>2, <1>3, <1>4 DEF TypeOK, Entries
<1>8. \A d \in Cpus : ThreadInv(d)'
  BY <1>1, <1>2, <1>3, <1>4, <1>6 DEF IInv, ThreadInv, Noted
<1>9. \A k \in Msgs \ {m} : Kept(k)
  BY <1>2, <1>3, <1>5, <1>6, MsgEnds DEF Kept, Unheard
<1>10. MsgInv(m)'
  <2>1. /\ Attended(m) /\ ~Listed(c, m) /\ outcome[m] = "waiting" /\ given[m] = 0
        /\ ~IsAnswer(m) => ~ToHandle(c, m) /\ ~UnderWay(c, m)
        /\ \A d \in Cpus \ {c} : ~Noted(d, m) /\ ~Listed(d, m)
    <3>1. Attended(m)
      BY <1>2 DEF Attended
    <3>2. outcome[m] = "waiting" /\ given[m] = 0
      BY <1>2, <3>1 DEF MsgInv, CallInv, Nowhere, TypeOK
    <3> QED
      BY <1>2, <3>1, <3>2 DEF MsgInv, OneNote
  <2>2. IsAnswer(m) => service[m] \in {"ok", "fail"} /\ msg[m].result = service[m]
    BY <1>2, <2>1 DEF MsgInv, CallInv
  <2> USE <1>1, <1>2, <1>3, <1>5, <1>6, <2>1, <2>2, MsgEnds DEF MsgInv,
        ToHandle, CameIn, Noted, Listed, UnderWay, Delivered,
        Unheard, AtRest, Sender, Receiver, IsAnswer, Attended
  <2>3. OnePlace(m)'
    BY DEF OnePlace
  <2>4. OneNote(m)'
    BY DEF OneNote
  <2>5. Sending(m)'
    BY DEF Sending
  <2>6. CallInv(m)'
    BY DEF CallInv, Nowhere
  <2> QED
    BY <2>3, <2>4, <2>5, <2>6
<1> QED
  BY <1>2, <1>7, <1>8, <1>9, <1>10, RestKept


(* What is known of a message that its sender has not heard of yet.         *)
LEMMA UnderWayFacts ==
    ASSUME IInv, NEW c \in Cpus, NEW m \in Msgs, UnderWay(c, m)
    PROVE  /\ TypeOK /\ ThreadInv(c) /\ MsgInv(m) /\ c = Sender(m) /\ at[c] = "ack"
           /\ \A k \in Msgs : ~Noted(c, k)
           /\ \A d \in Cpus : ~ToHandle(d, m) /\ ~CameIn(d, m) /\ (d # c => ~UnderWay(d, m))
           /\ ~AtRest(m) /\ (~IsAnswer(m) => ~Attended(m))
           /\ m \in Calls => outcome[m] = "waiting" /\ msg[m].type \in {"REQ", "RSP"}
           /\ m \in Notes => msg[m].src = From[m] /\ msg[m].type \in {"NOTIFY", "RSP"}
           /\ msg[m].dest = Receiver(m)
           /\ m \in Calls /\ ~IsAnswer(m) => service[m] = "none"
<1>1. TypeOK /\ MsgInv(m) /\ ThreadInv(c) /\ cur[c] = m /\ at[c] = "ack"
  BY DEF IInv, UnderWay, Unheard
<1>2. \A k \in Msgs : ~Noted(c, k)
  BY <1>1 DEF ThreadInv
<1>3. c \in {Sender(m), Receiver(m)} /\ ~UnderWay(Receiver(m), m)
  BY <1>1 DEF MsgInv, OnePlace
<1>4. c = Sender(m)
  BY <1>3
<1>5. /\ \A d \in Cpus : ~ToHandle(d, m) /\ ~CameIn(d, m) /\ (d # c => ~UnderWay(d, m))
      /\ ~AtRest(m)
  BY <1>1, <1>3, <1>4 DEF MsgInv, OnePlace, UnderWay
<1>6. ~IsAnswer(m) => ~Attended(m)
  BY <1>1, <1>4 DEF MsgInv, OneNote, Sender
<1>7. m \in Calls => outcome[m] = "waiting" /\ msg[m].type \in {"REQ", "RSP"}
                     /\ msg[m].dest = Receiver(m)
  BY <1>1 DEF MsgInv, CallInv, Nowhere, TypeOK, Types
<1>8. m \in Notes => msg[m].src = From[m] /\ msg[m].type \in {"NOTIFY", "RSP"}
                     /\ msg[m].dest = Receiver(m)
  BY <1>1 DEF MsgInv, NoteInv, Nowhere, TypeOK, Types
<1>9. m \in Calls /\ ~IsAnswer(m) => service[m] = "none"
  BY <1>1, <1>7 DEF MsgInv, CallInv
<1> QED
  BY <1>1, <1>2, <1>4, <1>5, <1>6, <1>7, <1>8, <1>9 DEF Msgs

LEMMA AckTimeoutKeeps ==
    ASSUME IInv, NEW c \in Cpus, NEW m \in Msgs, m = cur[c], AckTimeout(c)
    PROVE  IInv'
<1>1. UnderWay(c, m) /\ rsp_sem[c] = 0 /\ wire[c] = "none"
  BY DEF AckTimeout, UnderWay, Unheard
<1>2. /\ at' = [at EXCEPT ![c] = "drain"] /\ cur' = [cur EXCEPT ![c] = "none"]
      /\ send_ack_flag' = [send_ack_flag EXCEPT ![c] = FALSE]
      /\ rsp' = rsp /\ queue' = queue /\ rsp_sem' = rsp_sem /\ wire' = wire
      /\ given' = given /\ outcome' = outcome /\ service' = service /\ faults' = faults
  BY DEF AckTimeout, SendEnds, Goto, ends
<1>3. /\ TypeOK /\ ThreadInv(c) /\ MsgInv(m) /\ c = Sender(m) /\ at[c] = "ack"
      /\ \A k \in Msgs : ~Noted(c, k)
      /\ \A d \in Cpus : ~ToHandle(d, m) /\ ~CameIn(d, m) /\ (d # c => ~UnderWay(d, m))
      /\ ~AtRest(m) /\ (~IsAnswer(m) => ~Attended(m))
      /\ m \in Calls => outcome[m] = "waiting" /\ msg[m].type \in {"REQ", "RSP"}
      /\ m \in Notes => msg[m].src = From[m] /\ msg[m].type \in {"NOTIFY", "RSP"}
      /\ msg[m].dest = Receiver(m)
      /\ m \in Calls /\ ~IsAnswer(m) => service[m] = "none"
  BY <1>1, UnderWayFacts
<1>4. /\ \A d \in Cpus \ {c} : at'[d] = at[d] /\ cur'[d] = cur[d]
                               /\ send_ack_flag'[d] = send_ack_flag[d]
      /\ at'[c] = "drain" /\ cur'[c] = "none" /\ ~send_ack_flag'[c]
  BY <1>2, <1>3 DEF TypeOK
<1>5. /\ \A d \in Cpus : cur'[d] = m => d # c /\ cur[d] = m /\ ~Unheard(d)'
      /\ From[m] \in Cpus /\ To[m] \in Cpus /\ From[m] # To[m] /\ c \in {From[m], To[m]}
      /\ m \in Calls <=> m \notin Notes
  <2>1. m # "none" /\ From[m] \in Cpus /\ To[m] \in Cpus /\ From[m] # To[m]
        /\ (m \in Calls <=> m \notin Notes)
    BY MsgEnds
  <2>2. ASSUME NEW d \in Cpus PROVE cur'[d] = m => d # c /\ cur[d] = m /\ ~Unheard(d)'
    BY <1>2, <1>3, <1>4, <2>1 DEF UnderWay, Unheard
  <2> QED
    BY <1>3, <2>1, <2>2 DEF Sender
<1>6. CASE msg[m].type = "REQ"
  <2>1. /\ msg' = [msg EXCEPT ![m].count = @ + 1]
        /\ req' = [req EXCEPT ![c] = Append(@, m)] /\ sem' = [sem EXCEPT ![c] = 1]
    BY <1>6 DEF AckTimeout, Requeue, PushReq
  <2>2. /\ m \in Calls /\ ~IsAnswer(m) /\ c = From[m] /\ msg[m].count <= 2
        /\ Once(req[c]) /\ ~ToHandle(c, m) /\ ~Attended(m) /\ outcome[m] = "waiting"
    <3>1. m \in Calls /\ ~IsAnswer(m) /\ c = From[m]
      BY <1>3, <1>6, MsgEnds DEF IsAnswer, Sender
    <3>2. msg[m].count <= 2
      BY <1>3, <1>6, <3>1 DEF MsgInv, Sending
    <3> QED
      BY <1>3, <3>1, <3>2 DEF ThreadInv
  <2>3. /\ req' \in [Cpus -> Seq(Msgs)]
        /\ Once(req'[c]) /\ \A d \in Cpus \ {c} : req'[d] = req[d]
        /\ \A d \in Cpus, k \in Msgs :
              Contains(req'[d], k) <=> Contains(req[d], k) \/ (d = c /\ k = m)
    BY <1>3, <2>1, <2>2, ReqAppended
  <2>4. /\ msg' \in [Msgs -> Struct] /\ \A k \in Msgs \ {m} : msg'[k] = msg[k]
        /\ msg'[m].type = "REQ" /\ msg'[m].dest = msg[m].dest
    <3> DEFINE a == [msg[m] EXCEPT !.count = @ + 1]
    <3>1. msg[m] \in Struct
      BY <1>3 DEF TypeOK, Struct
    <3>2. a \in Struct /\ a.type = "REQ" /\ a.dest = msg[m].dest
      BY <1>6, <2>2, <3>1 DEF Struct
    <3>3. msg' = [msg EXCEPT ![m] = a]
      BY <2>1
    <3> HIDE DEF a
    <3> QED
      BY <1>3, <3>2, <3>3, StructWritten
  <2>5. TypeOK'
    BY <1>2, <1>3, <2>1, <2>3, <2>4 DEF TypeOK, Struct
  <2>6. \A d \in Cpus : ThreadInv(d)'
    BY <1>1, <1>2, <1>3, <1>4, <2>3 DEF IInv, ThreadInv, Noted
  <2>7. \A k \in Msgs \ {m} : Kept(k)
    <3> SUFFICES ASSUME NEW k \in Msgs \ {m} PROVE Kept(k)
      OBVIOUS
    <3>1. /\ msg'[k] = msg[k] /\ k # "none"
          /\ \A d \in Cpus : Contains(req'[d], k) <=> Contains(req[d], k)
      BY <2>3, <2>4, MsgEnds
    <3> QED
      BY <1>2, <1>3, <1>4, <3>1 DEF Kept, Unheard
  <2>8. MsgInv(m)'
    <3>1. OnePlace(m)'
      <4>1. /\ \A d \in Cpus : (Contains(req'[d], m) <=> d = c) /\ ~CameIn(d, m)
            /\ ~IsAnswer(m)' /\ ~AtRest(m)
        BY <1>3, <2>3, <2>4 DEF ToHandle, IsAnswer
      <4>2. \A d \in Cpus \ {From[m], To[m]} : cur[d] # m
        BY <1>3, <2>2 DEF MsgInv, OnePlace, Sender, Receiver
      <4> QED
        BY <1>2, <1>5, <2>2, <4>1, <4>2
        DEF OnePlace, ToHandle, CameIn, UnderWay, AtRest, Sender, Receiver, IsAnswer, Unheard
    <3> USE <1>3, <1>4, <1>5, <1>6, <2>2, <2>3, <2>4 DEF MsgInv,
          ToHandle, CameIn, Noted, Listed, UnderWay, Delivered,
          Unheard, AtRest, Sender, Receiver, IsAnswer, Attended
    <3>2. OneNote(m)'
      BY <1>2 DEF OneNote
    <3>3. Sending(m)'
      BY <1>2 DEF Sending
    <3>4. CallInv(m)'
      BY <1>2 DEF CallInv
    <3> QED
      BY <3>1, <3>2, <3>3, <3>4
  <2> QED
    BY <1>3, <2>5, <2>6, <2>7, <2>8, RestKept
<1>7. CASE msg[m].type # "REQ"
  <2>1. req' = req /\ sem' = sem /\ msg' = msg
    BY <1>7 DEF AckTimeout, Requeue
  <2>2. TypeOK'
    BY <1>2, <1>3, <2>1 DEF TypeOK
  <2>3. \A d \in Cpus : ThreadInv(d)'
    BY <1>1, <1>2, <1>3, <1>4, <2>1 DEF IInv, ThreadInv, Noted
  <2>4. \A k \in Msgs \ {m} : Kept(k)
    <3> SUFFICES ASSUME NEW k \in Msgs \ {m} PROVE Kept(k)
      OBVIOUS
    <3>1. k # "none"
      BY MsgEnds
    <3> QED
      BY <1>2, <1>3, <1>4, <2>1, <3>1 DEF Kept, Unheard
  <2>5. MsgInv(m)'
    <3>1. OnePlace(m)'
      BY <1>2, <1>3, <1>5, <2>1
      DEF MsgInv, OnePlace, ToHandle, CameIn, UnderWay, Unheard, AtRest, Sender, Receiver, IsAnswer
    <3>3. Sending(m)'
      <4>1. /\ cur'[From[m]] = m => send_ack_flag'[From[m]]
            /\ cur'[To[m]] = m => ~send_ack_flag'[To[m]]
        BY <1>3, <1>4, <1>5 DEF MsgInv, Sending
      <4> QED
        BY <1>5, <1>7, <2>1, <4>1 DEF Sending, UnderWay, Sender, IsAnswer, Unheard
    <3> USE <1>3, <1>4, <1>5, <1>7, <2>1 DEF MsgInv,
          ToHandle, CameIn, Noted, Listed, UnderWay, Delivered,
          Unheard, AtRest, Sender, Receiver, IsAnswer, Attended
    <3>2. OneNote(m)'
      BY <1>2 DEF OneNote
    <3>4. ASSUME m \in Calls PROVE CallInv(m)'
      BY <1>2, <3>4 DEF CallInv
    <3>5. ASSUME m \in Notes PROVE NoteInv(m)'
      BY <1>2, <3>5 DEF NoteInv
    <3> QED
      BY <3>1, <3>2, <3>3, <3>4, <3>5
  <2> QED
    BY <1>3, <2>2, <2>3, <2>4, <2>5, RestKept
<1> QED
  BY <1>6, <1>7


LEMMA DrainKeeps == ASSUME IInv, NEW c \in Cpus, Drain(c) PROVE IInv'
<1> DEFINE e == Head(queue[c])
<1>1. /\ at[c] = "drain" /\ queue[c] # <<>> /\ queue' = [queue EXCEPT ![c] = Tail(@)]
      /\ IF e[2] = 0
         THEN req' = [req EXCEPT ![c] = Append(@, e[1])] /\ rsp' = rsp
         ELSE rsp' = [rsp EXCEPT ![c] = Append(@, e[1])] /\ req' = req
      /\ sem' = sem /\ rsp_sem' = rsp_sem /\ at' = at /\ cur' = cur
      /\ send_ack_flag' = send_ack_flag /\ wire' = wire /\ msg' = msg
      /\ given' = given /\ outcome' = outcome /\ service' = service /\ faults' = faults
  BY DEF Drain, thread, ends
<1>2. TypeOK /\ ThreadInv(c) /\ Once(queue[c]) /\ Once(req[c]) /\ Once(rsp[c])
  BY DEF IInv, ThreadInv
<1>3. /\ queue' \in [Cpus -> Seq(Entries)]
      /\ Once(queue'[c]) /\ \A d \in Cpus \ {c} : queue'[d] = queue[d]
      /\ e \in Entries /\ Contains(queue[c], e)
      /\ \A d \in Cpus, x \in Entries :
            Contains(queue'[d], x) <=> Contains(queue[d], x) /\ ~(d = c /\ x = e)
  BY <1>1, <1>2, QueuePopped
<1>4. PICK m \in Msgs : e = Received(m) \/ e = Sent(m)
  BY <1>3 DEF Entries, Received, Sent
<1>5. MsgInv(m) /\ \A k \in Msgs : Received(k) \in Entries /\ Sent(k) \in Entries
  BY DEF IInv, Entries, Received, Sent
<1>6. CASE e = Received(m)
  <2>1. req' = [req EXCEPT ![c] = Append(@, m)] /\ rsp' = rsp
    BY <1>1, <1>6 DEF Received
  <2>2. /\ CameIn(c, m) /\ c = Receiver(m) /\ ~AtRest(m)
        /\ \A d \in Cpus : ~ToHandle(d, m) /\ ~UnderWay(d, m) /\ (d # c => ~CameIn(d, m))
    <3>1. CameIn(c, m)
      BY <1>3, <1>6 DEF CameIn
    <3>2. c = Receiver(m)
      BY <1>5, <3>1 DEF MsgInv, OnePlace
    <3> QED
      BY <1>5, <3>1, <3>2 DEF MsgInv, OnePlace, UnderWay
  <2>3. /\ req' \in [Cpus -> Seq(Msgs)]
        /\ Once(req'[c]) /\ \A d \in Cpus \ {c} : req'[d] = req[d]
        /\ \A d \in Cpus, k \in Msgs :
              Contains(req'[d], k) <=> Contains(req[d], k) \/ (d = c /\ k = m)
    BY <1>2, <2>1, <2>2, ReqAppended
  <2>4. \A d \in Cpus, k \in Msgs :
            /\ CameIn(d, k)' <=> CameIn(d, k) /\ ~(d = c /\ k = m)
            /\ Noted(d, k)' <=> Noted(d, k)
    <3> SUFFICES ASSUME NEW d \in Cpus, NEW k \in Msgs
                 PROVE  /\ CameIn(d, k)' <=> CameIn(d, k) /\ ~(d = c /\ k = m)
                        /\ Noted(d, k)' <=> Noted(d, k)
      OBVIOUS
    <3>1. (Received(k) = e <=> k = m) /\ Sent(k) # e
      BY <1>6 DEF Received, Sent
    <3> HIDE DEF e
    <3> QED
      BY <1>3, <1>5, <3>1 DEF CameIn, Noted
  <2>5. TypeOK'
    BY <1>1, <1>2, <1>3, <2>1, <2>3 DEF TypeOK, Entries
  <2>6. \A d \in Cpus : ThreadInv(d)'
    <3> SUFFICES ASSUME NEW d \in Cpus PROVE ThreadInv(d)'
      OBVIOUS
    <3>1. ThreadInv(d) /\ Once(queue'[d]) /\ Once(req'[d]) /\ Once(rsp'[d])
      BY <1>2, <1>3, <2>1, <2>3 DEF IInv, ThreadInv
    <3> QED
      BY <1>1, <2>4, <3>1 DEF ThreadInv
  <2>7. \A k \in Msgs \ {m} : Kept(k)
    <3> SUFFICES ASSUME NEW k \in Msgs \ {m} PROVE Kept(k)
      OBVIOUS
    <3>1. /\ \A d \in Cpus : /\ Contains(req'[d], k) <=> Contains(req[d], k)
                             /\ CameIn(d, k)' <=> CameIn(d, k)
                             /\ Noted(d, k)' <=> Noted(d, k)
      BY <2>3, <2>4
    <3> QED
      BY <1>1, <2>1, <3>1 DEF Kept, Unheard, CameIn, Noted
  <2>8. MsgInv(m)'
    <3>1. \A d \in Cpus : ToHandle(d, m)' <=> d = c
      BY <2>2, <2>3 DEF ToHandle
    <3>2. \A d \in Cpus : ~CameIn(d, m)' /\ (Noted(d, m)' <=> Noted(d, m))
      BY <2>2, <2>4
    <3> USE <1>5, <2>1, <2>2, <3>1, <3>2, MsgEnds DEF MsgInv,
          Listed, UnderWay, Delivered,
          Unheard, AtRest, Sender, Receiver, IsAnswer, Attended
    <3>3. OnePlace(m)'
      BY <1>1 DEF OnePlace
    <3>4. OneNote(m)'
      BY <1>1 DEF OneNote
    <3>5. Sending(m)'
      BY <1>1 DEF Sending
    <3>6. ASSUME m \in Calls PROVE CallInv(m)'
      BY <1>1, <3>6 DEF CallInv, Nowhere
    <3>7. ASSUME m \in Notes PROVE NoteInv(m)'
      BY <1>1, <3>7 DEF NoteInv, Nowhere
    <3> QED
      BY <3>3, <3>4, <3>5, <3>6, <3>7
  <2> QED
    BY <1>2, <2>5, <2>6, <2>7, <2>8, RestKept
<1>7. CASE e = Sent(m)
  <2>1. rsp' = [rsp EXCEPT ![c] = Append(@, m)] /\ req' = req
    BY <1>1, <1>7 DEF Sent
  <2>2. /\ Noted(c, m) /\ c = From[m] /\ m \in Calls /\ ~Listed(c, m) /\ ~Delivered(c, m)
        /\ Attended(m) /\ outcome[m] = "waiting" /\ given[m] = 0
    <3>1. Noted(c, m)
      BY <1>3, <1>7 DEF Noted
    <3>2. c = From[m] /\ m \in Calls
      BY <1>5, <3>1 DEF MsgInv, OneNote, NoteInv, Msgs
    <3>3. Attended(m)
      BY <3>1, <3>2 DEF Attended
    <3>4. ~Listed(c, m) /\ ~Delivered(c, m)
      BY <1>5, <3>1, <3>2 DEF MsgInv, OneNote
    <3>5. outcome[m] = "waiting" /\ given[m] = 0
      BY <1>2, <1>5, <3>2, <3>3 DEF MsgInv, CallInv, Nowhere, TypeOK
    <3> QED
      BY <3>1, <3>2, <3>3, <3>4, <3>5
  <2>3. /\ rsp' \in [Cpus -> Seq(Msgs)]
        /\ Once(rsp'[c]) /\ \A d \in Cpus \ {c} : rsp'[d] = rsp[d]
        /\ \A d \in Cpus, k \in Msgs :
              Contains(rsp'[d], k) <=> Contains(rsp[d], k) \/ (d = c /\ k = m)
    BY <1>2, <2>1, <2>2, RspAppended
  <2>4. \A d \in Cpus, k \in Msgs :
            /\ CameIn(d, k)' <=> CameIn(d, k)
            /\ Noted(d, k)' <=> Noted(d, k) /\ ~(d = c /\ k = m)
    <3> SUFFICES ASSUME NEW d \in Cpus, NEW k \in Msgs
                 PROVE  /\ CameIn(d, k)' <=> CameIn(d, k)
                        /\ Noted(d, k)' <=> Noted(d, k) /\ ~(d = c /\ k = m)
      OBVIOUS
    <3>1. (Sent(k) = e <=> k = m) /\ Received(k) # e
      BY <1>7 DEF Received, Sent
    <3> HIDE DEF e
    <3> QED
      BY <1>3, <1>5, <3>1 DEF CameIn, Noted
  <2>5. TypeOK'
    BY <1>1, <1>2, <1>3, <2>1, <2>3 DEF TypeOK, Entries
  <2>6. \A d \in Cpus : ThreadInv(d)'
    <3> SUFFICES ASSUME NEW d \in Cpus PROVE ThreadInv(d)'
      OBVIOUS
    <3>1. ThreadInv(d) /\ Once(queue'[d]) /\ Once(req'[d]) /\ Once(rsp'[d])
      BY <1>2, <1>3, <2>1, <2>3 DEF IInv, ThreadInv
    <3> QED
      BY <1>1, <2>4, <3>1 DEF ThreadInv
  <2>7. \A k \in Msgs \ {m} : Kept(k)
    <3> SUFFICES ASSUME NEW k \in Msgs \ {m} PROVE Kept(k)
      OBVIOUS
    <3>1. /\ \A d \in Cpus : /\ Contains(rsp'[d], k) <=> Contains(rsp[d], k)
                             /\ CameIn(d, k)' <=> CameIn(d, k)
                             /\ Noted(d, k)' <=> Noted(d, k)
      BY <2>3, <2>4
    <3> QED
      BY <1>1, <2>1, <3>1 DEF Kept, Unheard, CameIn, Noted
  <2>8. MsgInv(m)'
    <3>1. \A d \in Cpus : Listed(d, m)' <=> Listed(d, m) \/ d = c
      BY <2>3 DEF Listed
    <3>2. \A d \in Cpus : /\ CameIn(d, m)' <=> CameIn(d, m)
                          /\ Noted(d, m)' <=> Noted(d, m) /\ d # c
      BY <2>4
    <3> USE <1>5, <2>1, <2>2, <3>1, <3>2, MsgEnds DEF MsgInv,
          ToHandle, UnderWay, Delivered,
          Unheard, AtRest, Sender, Receiver, IsAnswer, Attended
    <3>3. OnePlace(m)'
      BY <1>1 DEF OnePlace
    <3>4. OneNote(m)'
      BY <1>1 DEF OneNote
    <3>5. Sending(m)'
      BY <1>1 DEF Sending
    <3>6. CallInv(m)'
      BY <1>1 DEF CallInv
    <3> QED
      BY <3>3, <3>4, <3>5, <3>6
  <2> QED
    BY <1>2, <2>5, <2>6, <2>7, <2>8, RestKept
<1> QED
  BY <1>4, <1>6, <1>7


LEMMA RxIsrKeeps ==
    ASSUME IInv, NEW c \in Cpus, NEW m \in Msgs, m = cur[c], RxIsr(c)
    PROVE  IInv'
<1> DEFINE r == Receiver(m)
           e == Received(m)
<1>1. UnderWay(c, m) /\ wire[c] = "sent"
  BY DEF RxIsr, IInv, ThreadInv, UnderWay, Unheard, TypeOK
<1>2. /\ TypeOK /\ ThreadInv(c) /\ MsgInv(m) /\ c = Sender(m) /\ at[c] = "ack"
      /\ \A d \in Cpus : ~ToHandle(d, m) /\ ~CameIn(d, m) /\ (d # c => ~UnderWay(d, m))
      /\ ~AtRest(m) /\ (~IsAnswer(m) => ~Attended(m))
      /\ m \in Calls => outcome[m] = "waiting"
      /\ m \in Notes => msg[m].src = From[m]
  BY <1>1, UnderWayFacts
<1>3. /\ r \in Cpus /\ c # r /\ Peer(c, m) = r /\ {c, r} = {From[m], To[m]}
      /\ c = From[m] <=> ~IsAnswer(m)
  BY <1>2, MsgEnds DEF Sender, Receiver, Peer
<1>4. msg[m].ack = "SEND"
  BY <1>1, <1>2 DEF MsgInv, Sending
<1>5. /\ wire' = [wire EXCEPT ![c] = "taken"] /\ msg' = [msg EXCEPT ![m].ack = "ACK"]
      /\ queue' = Enqueued(r, e) /\ sem' = [sem EXCEPT ![r] = 1]
      /\ req' = req /\ rsp' = rsp /\ rsp_sem' = rsp_sem /\ at' = at /\ cur' = cur
      /\ send_ack_flag' = send_ack_flag
      /\ given' = given /\ outcome' = outcome /\ service' = service /\ faults' = faults
  <2> HIDE DEF r, e
  <2> QED
    BY <1>3, <1>4 DEF RxIsr, thread, ends, e
<1>6. /\ queue' \in [Cpus -> Seq(Entries)]
      /\ Once(queue'[r]) /\ \A d \in Cpus \ {r} : queue'[d] = queue[d]
      /\ \A d \in Cpus, x \in Entries :
            ~(d = r /\ x = e) => (Contains(queue'[d], x) <=> Contains(queue[d], x))
  <2>1. Once(queue[r]) /\ ~Contains(queue[r], e) /\ e \in Entries
    BY <1>2, <1>3 DEF IInv, ThreadInv, CameIn, Entries, Received
  <2> HIDE DEF r, e
  <2> QED
    BY <1>2, <1>3, <1>5, <2>1, QueueAppended
<1>7. \A d \in Cpus, k \in Msgs :
         /\ Noted(d, k)' <=> Noted(d, k)
         /\ ~(d = r /\ k = m) => (CameIn(d, k)' <=> CameIn(d, k))
  <2> SUFFICES ASSUME NEW d \in Cpus, NEW k \in Msgs
               PROVE  /\ Noted(d, k)' <=> Noted(d, k)
                      /\ ~(d = r /\ k = m) => (CameIn(d, k)' <=> CameIn(d, k))
    OBVIOUS
  <2>1. /\ Received(k) \in Entries /\ Sent(k) \in Entries
        /\ Sent(k) # e /\ (Received(k) = e => k = m)
    BY DEF Received, Sent, Entries
  <2> HIDE DEF r, e
  <2> QED
    BY <1>6, <2>1 DEF CameIn, Noted
<1>8. /\ msg' \in [Msgs -> Struct] /\ \A k \in Msgs \ {m} : msg'[k] = msg[k]
      /\ msg'[m].type = msg[m].type /\ msg'[m].dest = msg[m].dest
      /\ msg'[m].src = msg[m].src /\ msg'[m].count = msg[m].count
      /\ msg'[m].result = msg[m].result /\ msg'[m].ack = "ACK"
  <2> DEFINE a == [msg[m] EXCEPT !.ack = "ACK"]
  <2>1. msg[m] \in Struct
    BY <1>2 DEF TypeOK, Struct
  <2>2. /\ a \in Struct /\ a.type = msg[m].type /\ a.dest = msg[m].dest
        /\ a.src = msg[m].src /\ a.count = msg[m].count
        /\ a.result = msg[m].result /\ a.ack = "ACK"
    BY <2>1 DEF Struct
  <2>3. msg' = [msg EXCEPT ![m] = a]
    BY <1>5
  <2> HIDE DEF a
  <2> QED
    BY <1>2, <2>2, <2>3, StructWritten
<1>9. wire'[c] = "taken" /\ \A d \in Cpus \ {c} : wire'[d] = wire[d]
  BY <1>2, <1>5 DEF TypeOK
<1> HIDE DEF e
<1>10. TypeOK'
  <2>1. sem' \in [Cpus -> {0, 1}] /\ wire' \in [Cpus -> {"none", "sent", "taken"}]
    BY <1>2, <1>5 DEF TypeOK
  <2>2. queue' \in [Cpus -> Seq(Msgs \X {0, 1})]
    BY <1>6 DEF Entries
  <2> QED
    BY <1>2, <1>5, <1>8, <2>1, <2>2 DEF TypeOK, Struct
<1>11. \A d \in Cpus : ThreadInv(d)'
  <2> SUFFICES ASSUME NEW d \in Cpus PROVE ThreadInv(d)'
    OBVIOUS
  <2>1. ThreadInv(d) /\ Once(queue'[d])
    <3> HIDE DEF r
    <3> QED
      BY <1>6 DEF IInv, ThreadInv
  <2>2. wire'[d] = wire[d] \/ (d = c /\ at[d] = "ack" /\ rsp_sem[d] = 0)
    BY <1>1, <1>2, <1>9 DEF UnderWay, Unheard
  <2> QED
    BY <1>5, <1>7, <2>1, <2>2 DEF ThreadInv
<1>12. \A k \in Msgs \ {m} : Kept(k)
  <2> SUFFICES ASSUME NEW k \in Msgs \ {m} PROVE Kept(k)
    OBVIOUS
  <2>1. /\ \A d \in Cpus : /\ CameIn(d, k)' <=> CameIn(d, k)
                           /\ Noted(d, k)' <=> Noted(d, k)
        /\ msg'[k] = msg[k]
    BY <1>7, <1>8
  <2>2. \A d \in Cpus : cur[d] = k => wire'[d] = wire[d]
    BY <1>9
  <2> QED
    BY <1>5, <2>1, <2>2 DEF Kept, Unheard, CameIn, Noted
<1>13. MsgInv(m)'
  <2>1. \A d \in Cpus : /\ CameIn(d, m)' => d = r
                        /\ Noted(d, m)' <=> Noted(d, m)
    BY <1>2, <1>7
  <2>2. \A d \in Cpus : cur[d] = m => ~Unheard(d)' /\ (d # c => ~Unheard(d))
    BY <1>2, <1>5, <1>9 DEF Unheard, UnderWay
  <2>3. cur[c] = m /\ Unheard(c) /\ ~Delivered(c, m)
    BY <1>1 DEF UnderWay, Delivered
  <2>4. (IsAnswer(m)' <=> IsAnswer(m)) /\ (AtRest(m)' <=> AtRest(m))
    BY <1>5, <1>8 DEF IsAnswer, AtRest
  <2> USE <1>2, <1>3, <1>8, <2>1, <2>2, <2>3, <2>4 DEF MsgInv
  <2>5. OnePlace(m)'
    BY <1>5 DEF OnePlace, Sender, Receiver, ToHandle, UnderWay
  <2>6. OneNote(m)'
    BY <1>5 DEF OneNote, Attended, Delivered, Listed, Sender, Receiver, ToHandle, UnderWay
  <2>7. Sending(m)'
    BY <1>5 DEF Sending, UnderWay, ToHandle, Sender
  <2>8. ASSUME m \in Calls PROVE CallInv(m)'
    BY <1>5, <2>8 DEF CallInv, Nowhere, Receiver, Sender, ToHandle, UnderWay, AtRest, Attended, Delivered, Listed
  <2>9. ASSUME m \in Notes PROVE NoteInv(m)'
    BY <1>5, <2>9, MsgEnds DEF NoteInv, Receiver, Sender, ToHandle, UnderWay, Listed, AtRest
  <2> QED
    BY <2>5, <2>6, <2>7, <2>8, <2>9
<1> QED
  BY <1>2, <1>10, <1>11, <1>12, <1>13, RestKept

-----------------------------------------------------------------------------
LEMMA InitIInv == Init => IInv
<1> SUFFICES ASSUME Init PROVE IInv
  OBVIOUS
<1>1. \A d \in Cpus : req[d] = <<>> /\ rsp[d] = <<>> /\ queue[d] = <<>>
  BY DEF Init
<1>2. \A d \in Cpus : Len(req[d]) = 0 /\ Len(rsp[d]) = 0 /\ Len(queue[d]) = 0
  BY <1>1
<1>3. \A d \in Cpus : \A x : /\ ~Contains(req[d], x) /\ ~Contains(rsp[d], x)
                             /\ ~Contains(queue[d], x)
  BY <1>2 DEF Contains
<1>4. \A d \in Cpus : Once(req[d]) /\ Once(rsp[d]) /\ Once(queue[d])
  BY <1>2 DEF Once
<1>5. /\ \A d \in Cpus : /\ at[d] = "pop" /\ cur[d] = "none" /\ ~send_ack_flag[d]
                         /\ wire[d] = "none" /\ rsp_sem[d] = 0
      /\ \A m \in Msgs : /\ msg[m].type = "REQ" /\ msg[m].src = "app" /\ msg[m].dest = "app"
                         /\ service[m] = "none"
      /\ \A m \in Calls : given[m] = 0 /\ outcome[m] = "idle"
  BY DEF Init, Blank
<1>6. TypeOK
  <2>1. Blank \in Struct
    BY DEF Blank, Struct, Types, Cpus
  <2>2. /\ req \in [Cpus -> Seq(Msgs)] /\ rsp \in [Cpus -> Seq(Msgs)]
        /\ queue \in [Cpus -> Seq(Msgs \X {0, 1})]
    BY DEF Init
  <2>3. msg \in [Msgs -> Struct]
    BY <2>1 DEF Init
  <2>4. faults \in 0..MaxFaults
    BY MailboxAssumption DEF Init
  <2> QED
    BY <2>2, <2>3, <2>4 DEF Init, TypeOK, Struct
<1>7. \A d \in Cpus : ThreadInv(d)
  BY <1>3, <1>4, <1>5 DEF ThreadInv, Noted
<1>8. ASSUME NEW m \in Msgs PROVE MsgInv(m)
  <2>1. \A d \in Cpus : cur[d] # m /\ ~Unheard(d)
    BY <1>5, MsgEnds DEF Unheard
  <2> USE <1>3, <1>5, <2>1, MsgEnds DEF ToHandle, CameIn, Noted, Listed, UnderWay, Delivered,
        AtRest, Sender, Receiver, IsAnswer, Attended
  <2>2. OnePlace(m)
    BY DEF OnePlace
  <2>3. OneNote(m)
    BY DEF OneNote
  <2>4. Sending(m)
    BY DEF Sending
  <2>5. Nowhere(m)
    BY DEF Nowhere
  <2>6. m \in Calls => CallInv(m)
    BY <2>5 DEF CallInv
  <2>7. m \in Notes => NoteInv(m)
    BY <2>5 DEF NoteInv
  <2> QED
    BY <2>2, <2>3, <2>4, <2>6, <2>7 DEF MsgInv
<1> QED
  BY <1>6, <1>7, <1>8 DEF IInv

(* A thread that waits for the channel waits for a message.                 *)
LEMMA Sends ==
    ASSUME IInv, NEW c \in Cpus,
           at[c] \in {"ack", "note"} \/ wire[c] # "none"
    PROVE  cur[c] \in Msgs
BY DEF IInv, ThreadInv

LEMMA NextIInv ==
    ASSUME AnswersWritten, IInv, [Next]_vars
    PROVE  IInv'
<1>1. CASE UNCHANGED vars
  <2>1. TypeOK'
    BY <1>1 DEF vars, lists, thread, ends, IInv, TypeOK
  <2>2. \A d \in Cpus : ThreadInv(d)'
    BY <1>1 DEF vars, lists, thread, ends, IInv, ThreadInv, Noted
  <2>3. \A k \in Msgs : Kept(k)
    BY <1>1 DEF vars, lists, thread, ends, Kept, Unheard
  <2> QED
    BY <2>1, <2>2, <2>3, KeptInv DEF IInv
<1>2. ASSUME Caller PROVE IInv'
  BY <1>2, CallKeeps, ReturnKeeps, AnswerKeeps, NotifyKeeps DEF Caller
<1>3. ASSUME NEW c \in Cpus, ThreadStep(c) PROVE IInv'
  <2>1. ASSUME AckWake(c) PROVE IInv'
    <3>1. cur[c] \in Msgs
      BY <2>1, Sends DEF AckWake
    <3> QED
      BY <2>1, <3>1, AckWakeKeeps
  <2>2. ASSUME NoteSent(c) PROVE IInv'
    <3>1. cur[c] \in Msgs
      BY <2>2, Sends DEF NoteSent
    <3> QED
      BY <2>2, <3>1, NoteSentKeeps
  <2>3. ASSUME AckTimeout(c) PROVE IInv'
    <3>1. cur[c] \in Msgs
      BY <2>3, Sends DEF AckTimeout
    <3> QED
      BY <2>3, <3>1, AckTimeoutKeeps
  <2> QED
    BY <1>3, <2>1, <2>2, <2>3, PopEmptyKeeps, WakeUpKeeps, DrainKeeps, DrainEndKeeps,
       PopExhaustedKeeps, PopSendKeeps, PopHandleKeeps
    DEF ThreadStep
<1>4. ASSUME NEW c \in Cpus, Isr(c) PROVE IInv'
  <2>1. ASSUME RxIsr(c) PROVE IInv'
    <3>1. cur[c] \in Msgs
      BY <2>1, Sends DEF RxIsr
    <3> QED
      BY <2>1, <3>1, RxIsrKeeps
  <2> QED
    BY <1>4, <2>1, TxCmplIsrKeeps DEF Isr
<1>5. ASSUME NEW c \in Cpus, Fault(c) PROVE IInv'
  BY <1>5, LoseKeeps, PopSendFailsKeeps DEF Fault
<1> QED
  BY <1>1, <1>2, <1>3, <1>4, <1>5 DEF Next

(* The inductive invariant holds throughout.                                *)
THEOREM Invariance == ASSUME AnswersWritten PROVE Spec => []IInv
<1>1. IInv /\ [Next]_vars => IInv'
  BY NextIInv
<1> QED
  BY InitIInv, <1>1, PTL DEF Spec

(* Every list, queue, token and struct has its type, whatever is sent and   *)
(* whatever fails.                                                          *)
THEOREM TypeCorrect == ASSUME AnswersWritten PROVE Spec => []TypeOK
<1>1. IInv => TypeOK
  BY DEF IInv
<1> QED
  BY <1>1, Invariance, PTL


(* A synchronous call that has returned has left no address of its struct   *)
(* in a list, a queue, a mailbox thread or a channel.                       *)
THEOREM NothingDangles == ASSUME AnswersWritten PROVE Spec => []NoDanglingMessage
<1>1. ASSUME IInv PROVE NoDanglingMessage
  <2> SUFFICES ASSUME NEW m \in Calls, outcome[m] \in {"ok", "fail"}
               PROVE  ~Held(m)
    BY DEF NoDanglingMessage
  <2>1. /\ m \in Msgs /\ Nowhere(m) /\ OnePlace(m) /\ OneNote(m) /\ Sending(m)
    BY <1>1 DEF Msgs, IInv, MsgInv, CallInv
  <2>2. service[m] # "serving"
    BY <2>1 DEF Nowhere, AtRest
  <2>3. ASSUME NEW c \in Cpus
        PROVE  /\ ~Contains(req[c], m) /\ ~Contains(rsp[c], m)
               /\ ~CameIn(c, m) /\ ~Noted(c, m) /\ ~UnderWay(c, m)
               /\ c = From[m] => ~Delivered(c, m)
    BY <2>1 DEF Nowhere, OneNote, Attended, ToHandle, Listed
  <2>4. ASSUME NEW c \in Cpus, NEW i \in DOMAIN queue[c], queue[c][i][1] = m PROVE FALSE
    <3>1. queue[c][i] \in Msgs \X {0, 1}
      BY <1>1 DEF IInv, TypeOK
    <3>2. queue[c][i] = Received(m) \/ queue[c][i] = Sent(m)
      BY <2>4, <3>1 DEF Received, Sent
    <3>3. i \in 1 .. Len(queue[c])
      <4>1. queue[c] \in Seq(Msgs \X {0, 1})
        BY <1>1 DEF IInv, TypeOK
      <4> QED
        BY <4>1
    <3> QED
      BY <2>3, <3>2, <3>3 DEF CameIn, Noted, Contains
  <2>5. ASSUME NEW c \in Cpus, cur[c] = m
        PROVE  /\ ~(at[c] = "ack" /\ send_ack_flag[c]) /\ at[c] # "note" /\ wire[c] # "sent"
    <3>1. ThreadInv(c)
      BY <1>1 DEF IInv
    <3>2. c \in {From[m], To[m]}
      BY <2>1, <2>5 DEF OnePlace, Sender, Receiver
    <3>3. ~(at[c] = "ack" /\ send_ack_flag[c])
      BY <2>1, <2>3, <2>5, <3>2 DEF Sending, UnderWay, Delivered
    <3>4. at[c] # "note"
      BY <2>3, <2>5, <3>1 DEF ThreadInv, Delivered, Unheard
    <3>5. wire[c] # "sent"
      <4>1. wire[c] = "sent" => Unheard(c)
        BY <1>1, <3>1 DEF ThreadInv, Unheard, IInv, TypeOK
      <4> QED
        BY <2>3, <2>5, <4>1 DEF UnderWay
    <3> QED
      BY <3>3, <3>4, <3>5
  <2> QED
    BY <2>2, <2>3, <2>4, <2>5 DEF Held
<1> QED
  BY <1>1, Invariance, PTL

(* No message is on two lists of messages to send or to handle, or twice on *)
(* one, nor listed as unanswered once its caller has been woken.            *)
THEOREM ListedAtMostOnce == ASSUME AnswersWritten PROVE Spec => []ListedOnce
<1>1. ASSUME IInv PROVE ListedOnce
  <2> SUFFICES ASSUME NEW m \in Msgs
               PROVE  /\ \A c, d \in Cpus : \A i \in DOMAIN req[c], j \in DOMAIN req[d] :
                            req[c][i] = m /\ req[d][j] = m => c = d /\ i = j
                      /\ m \in Calls /\ given[m] = 1 =>
                            \A c \in Cpus : ~Contains(rsp[c], m)
    BY DEF ListedOnce
  <2>1. OnePlace(m) /\ OneNote(m) /\ (m \in Calls => CallInv(m))
    BY <1>1 DEF IInv, MsgInv
  <2>2. ASSUME NEW c \in Cpus, NEW d \in Cpus, NEW i \in DOMAIN req[c], NEW j \in DOMAIN req[d],
               req[c][i] = m, req[d][j] = m
        PROVE  c = d /\ i = j
    <3>1. i \in 1 .. Len(req[c]) /\ j \in 1 .. Len(req[d])
      <4>1. req[c] \in Seq(Msgs) /\ req[d] \in Seq(Msgs)
        BY <1>1 DEF IInv, TypeOK
      <4> QED
        BY <4>1
    <3>2. ToHandle(c, m) /\ ToHandle(d, m)
      BY <2>2, <3>1 DEF ToHandle, Contains
    <3>3. c = d
      BY <2>1, <3>2 DEF OnePlace
    <3> QED
      BY <1>1, <2>2, <3>3 DEF IInv, ThreadInv, Once
  <2>3. ASSUME m \in Calls, given[m] = 1, NEW c \in Cpus PROVE ~Contains(rsp[c], m)
    <3>1. AtRest(m) /\ m \in Msgs
      BY <2>3 DEF AtRest
    <3>2. outcome[m] = "waiting"
      BY <1>1, <2>1, <2>3, <3>1 DEF CallInv, Nowhere, IInv, TypeOK
    <3>3. ~Attended(m)
      BY <2>1, <2>3, <3>2 DEF CallInv
    <3> QED
      BY <2>1, <3>3 DEF Attended, OneNote, Listed
  <2> QED
    BY <2>2, <2>3
<1> QED
  BY <1>1, Invariance, PTL

(* A CPU wakes only callers of its own.                                     *)
THEOREM OwnCallersWoken == ASSUME AnswersWritten PROVE Spec => []WakesOwnCallers
<1>1. ASSUME IInv PROVE WakesOwnCallers
  <2> SUFFICES ASSUME NEW c \in Cpus, NEW m \in Calls, Contains(req[c], m),
                      msg[m].type = "RSP", msg[m].dest = c
               PROVE  c = From[m]
    BY DEF WakesOwnCallers
  <2>1. CallInv(m) /\ outcome[m] \in {"idle", "waiting", "ok", "fail"}
    BY <1>1 DEF IInv, MsgInv, TypeOK, Msgs
  <2>2. outcome[m] = "waiting"
    BY <2>1 DEF CallInv, Nowhere, ToHandle
  <2> QED
    BY <2>1, <2>2 DEF CallInv, Receiver, IsAnswer
<1> QED
  BY <1>1, Invariance, PTL
-----------------------------------------------------------------------------
(* The mailboxes implement RemoteCall.                                      *)

(* What a step does that neither calls, serves, answers nor returns.        *)
LEMMA NotSeenRemotely ==
    ASSUME outcome' = outcome, \A m \in Calls : service'[m] = service[m]
    PROVE  UNCHANGED Remote!vars
BY DEF Remote!vars

(* A step on the service of m alone.                                        *)
LEMMA Serviced ==
    ASSUME TypeOK, NEW m \in Calls, NEW v, service' = [service EXCEPT ![m] = v]
    PROVE  [k \in Calls |-> service'[k]] = [[k \in Calls |-> service[k]] EXCEPT ![m] = v]
BY DEF TypeOK, Msgs

(* Each step of the mailboxes is a step of RemoteCall, or leaves what it    *)
(* talks about alone.                                                       *)
LEMMA StepOfRemote ==
    ASSUME IInv, [Next]_vars
    PROVE  [Remote!Next]_(Remote!vars)
<1>1. CASE UNCHANGED vars
  BY <1>1, NotSeenRemotely DEF vars, ends
<1>2. ASSUME NEW m \in Calls, Call(m) PROVE Remote!Call(m)
  BY <1>2 DEF Call, Remote!Call
<1>3. ASSUME NEW m \in Calls, Return(m) PROVE Remote!Return(m)
  <2>1. CallInv(m) /\ msg[m].result \in {"ok", "fail"} /\ TypeOK
    BY DEF IInv, MsgInv, TypeOK, Msgs
  <2>2. outcome[m] = "waiting" /\ given[m] = 1 /\ service' = service
        /\ outcome' = [outcome EXCEPT ![m] = msg[m].result]
    BY <1>3 DEF Return
  <2>3. IsAnswer(m)
    BY <2>1, <2>2 DEF CallInv
  <2>4. \/ service[m] \in {"ok", "fail"} /\ msg[m].result = service[m]
        \/ service[m] = "none" /\ msg[m].result = "fail"
    BY <2>1, <2>2, <2>3 DEF CallInv
  <2> QED
    BY <2>2, <2>4 DEF Remote!Return
<1>4. ASSUME NEW m \in Calls, Answer(m) PROVE Remote!Answer(m)
  <2>1. TypeOK
    BY DEF IInv
  <2>2. PICK r \in {"ok", "fail"} : service' = [service EXCEPT ![m] = r]
    BY <1>4 DEF Answer
  <2> QED
    BY <1>4, <2>1, <2>2, Serviced DEF Answer, Remote!Answer
<1>5. ASSUME NEW m \in Notes, Notify(m) PROVE UNCHANGED Remote!vars
  BY <1>5, NotSeenRemotely DEF Notify, ends
<1>6. ASSUME NEW c \in Cpus, NEW m \in Msgs, PopHandle(c, m)
      PROVE  (m \in Calls /\ Remote!Serve(m)) \/ UNCHANGED Remote!vars
  <2>1. /\ TypeOK /\ (m \in Calls => outcome[m] = "waiting" /\ msg[m].type \in {"REQ", "RSP"})
        /\ m \in Calls /\ ~IsAnswer(m) => service[m] = "none"
    BY <1>6, PoppedFacts DEF PopHandle
  <2>2. outcome' = outcome
    BY <1>6 DEF PopHandle
  <2>3. CASE m \in Calls /\ msg[m].type # "RSP"
    <3>1. service' = [service EXCEPT ![m] = "serving"]
      BY <1>6, <2>1, <2>3 DEF PopHandle
    <3> QED
      BY <2>1, <2>2, <2>3, <3>1, Serviced DEF IsAnswer, Remote!Serve
  <2>4. CASE ~(m \in Calls /\ msg[m].type # "RSP")
    <3>1. \A k \in Calls : service'[k] = service[k]
      BY <1>6, <2>1, <2>4 DEF PopHandle, TypeOK, Msgs
    <3> QED
      BY <2>2, <3>1, NotSeenRemotely
  <2> QED
    BY <2>3, <2>4
<1>7. ASSUME NEW c \in Cpus,
             \/ PopEmpty(c) \/ WakeUp(c) \/ AckWake(c) \/ NoteSent(c) \/ AckTimeout(c)
             \/ Drain(c) \/ DrainEnd(c) \/ Isr(c) \/ Fault(c)
             \/ \E m \in Msgs : PopExhausted(c, m) \/ PopSend(c, m)
      PROVE  UNCHANGED Remote!vars
  <2>1. outcome' = outcome /\ service' = service
    BY <1>7 DEF PopEmpty, WakeUp, AckWake, NoteSent, AckTimeout, Drain, DrainEnd, Isr, Fault,
                PopExhausted, PopSend, RxIsr, TxCmplIsr, Lose, PopSendFails, ends
  <2> QED
    BY <2>1, NotSeenRemotely
<1> QED
  BY <1>1, <1>2, <1>3, <1>4, <1>5, <1>6, <1>7 DEF Next, Caller, ThreadStep, Remote!Next

(* A request is handled at most once, its caller gets the answer that the   *)
(* handler gave, and a call that the mailboxes fail was never handled.      *)
THEOREM CallsAreRemoteCalls == ASSUME AnswersWritten PROVE Spec => RemoteSpec
<1>1. Init => Remote!Init
  BY DEF Init, Remote!Init, Msgs
<1>2. IInv /\ [Next]_vars => [Remote!Next]_(Remote!vars)
  BY StepOfRemote
<1> QED
  BY <1>1, <1>2, Invariance, PTL DEF Spec, RemoteSpec, Remote!Spec

-----------------------------------------------------------------------------
(* Room in the queues.  A queue holds what came in, each message once, and  *)
(* at most one note of its own thread, which empties the queue after each.  *)
OneNoted(c) == \A k, l \in Msgs : Noted(c, k) /\ Noted(c, l) => k = l

(* What a step can put into a queue.                                        *)
LEMMA Enters ==
    ASSUME TypeOK, NEW c \in Cpus, NEW e \in Entries, queue' = Enqueued(c, e),
           NEW d \in Cpus, NEW x, Contains(queue'[d], x)
    PROVE  Contains(queue[d], x) \/ (d = c /\ x = e)
<1>1. queue[c] \in Seq(Entries) /\ queue \in [Cpus -> Seq(Entries)]
  BY DEF TypeOK, Entries
<1>2. CASE queue' = queue
  BY <1>2
<1>3. CASE queue' = [queue EXCEPT ![c] = Append(@, e)]
  <2>1. queue'[c] = Append(queue[c], e) /\ (d # c => queue'[d] = queue[d])
    BY <1>1, <1>3
  <2>2. Contains(queue'[c], x) => Contains(queue[c], x) \/ x = e
    BY <1>1, <2>1, Appended
  <2> QED
    BY <2>1, <2>2
<1> QED
  BY <1>2, <1>3 DEF Enqueued

(* Only the thread that has sent a message notes it.                        *)
LEMMA NotedBy ==
    ASSUME IInv, [Next]_vars, NEW d \in Cpus, NEW k \in Msgs, Noted(d, k)'
    PROVE  Noted(d, k) \/ (at[d] = "note" /\ cur[d] = k)
<1>1. TypeOK
  BY DEF IInv
<1>2. CASE queue' = queue
  BY <1>2 DEF Noted
<1>3. ASSUME NEW c \in Cpus, NoteSent(c)
      PROVE  Noted(d, k) \/ (at[d] = "note" /\ cur[d] = k)
  <2>1. at[c] = "note" /\ cur[c] \in Msgs /\ queue' = Enqueued(c, Sent(cur[c]))
    BY <1>3, Sends DEF NoteSent
  <2>2. Sent(cur[c]) \in Entries
    BY <2>1 DEF Sent, Entries
  <2>3. Contains(queue[d], Sent(k)) \/ (d = c /\ Sent(k) = Sent(cur[c]))
    BY <1>1, <2>1, <2>2, Enters DEF Noted
  <2> QED
    BY <2>1, <2>3 DEF Noted, Sent
<1>4. ASSUME NEW c \in Cpus, RxIsr(c) PROVE Noted(d, k)
  <2>1. cur[c] \in Msgs
    BY <1>4, Sends DEF RxIsr
  <2>2. Received(cur[c]) \in Entries /\ Received(cur[c]) # Sent(k) /\ Peer(c, cur[c]) \in Cpus
    BY <2>1, MsgEnds DEF Received, Sent, Entries, Peer
  <2>3. queue' = queue \/ queue' = Enqueued(Peer(c, cur[c]), Received(cur[c]))
    BY <1>4 DEF RxIsr
  <2> QED
    BY <1>1, <2>2, <2>3, Enters DEF Noted
<1>5. ASSUME NEW c \in Cpus, Drain(c) PROVE Noted(d, k)
  <2>1. queue[c] # <<>> /\ queue' = [queue EXCEPT ![c] = Tail(@)] /\ Once(queue[c])
    BY <1>5 DEF Drain, IInv, ThreadInv
  <2>2. Sent(k) \in Entries
    BY DEF Sent, Entries
  <2>3. Contains(queue'[d], Sent(k)) => Contains(queue[d], Sent(k))
    BY <1>1, <2>1, <2>2, QueuePopped
  <2> QED
    BY <2>3 DEF Noted
<1>6. ASSUME UNCHANGED vars \/ Caller PROVE queue' = queue
  BY <1>6 DEF vars, lists, Caller, Call, Return, Answer, Notify
<1>7. ASSUME NEW c \in Cpus,
             \/ PopEmpty(c) \/ WakeUp(c) \/ AckWake(c) \/ AckTimeout(c) \/ DrainEnd(c)
             \/ TxCmplIsr(c) \/ Fault(c)
             \/ \E m \in Msgs : PopExhausted(c, m) \/ PopSend(c, m) \/ PopHandle(c, m)
      PROVE  queue' = queue
  BY <1>7 DEF PopEmpty, WakeUp, AckWake, AckTimeout, DrainEnd, TxCmplIsr, Fault, Lose,
              PopSendFails, PopExhausted, PopSend, PopHandle, lists
<1> QED
  BY <1>2, <1>3, <1>4, <1>5, <1>6, <1>7 DEF Next, ThreadStep, Isr

(* A CPU has at most one note in its queue, beside what came in.            *)
LEMMA OneNotedAtATime ==
    ASSUME AnswersWritten
    PROVE  Spec => [](IInv /\ \A c \in Cpus : OneNoted(c))
<1> DEFINE One == \A c \in Cpus : OneNoted(c)
<1>1. Init => One
  <2> SUFFICES ASSUME Init, NEW c \in Cpus PROVE OneNoted(c)
    OBVIOUS
  <2>1. queue[c] = <<>>
    BY DEF Init
  <2>2. Len(queue[c]) = 0
    BY <2>1
  <2> QED
    BY <2>2 DEF OneNoted, Noted, Contains
<1>2. IInv /\ One /\ [Next]_vars => One'
  <2> SUFFICES ASSUME IInv, One, [Next]_vars, NEW c \in Cpus PROVE OneNoted(c)'
    OBVIOUS
  <2>1. at[c] = "note" => \A k \in Msgs : ~Noted(c, k)
    BY DEF IInv, ThreadInv
  <2>2. \A k \in Msgs : Noted(c, k)' => Noted(c, k) \/ (at[c] = "note" /\ cur[c] = k)
    BY NotedBy
  <2>3. \A k, l \in Msgs : Noted(c, k)' /\ Noted(c, l)' => k = l
    BY <2>1, <2>2 DEF OneNoted
  <2> QED
    BY <2>3 DEF OneNoted
<1> QED
  BY <1>1, <1>2, Invariance, PTL DEF Spec

(* As long as a queue has more places than there are messages, every        *)
(* interrupt handler finds room for what came in: nothing that was          *)
(* acknowledged is dropped.                                                 *)
THEOREM RoomForAll ==
    ASSUME AnswersWritten, IsFiniteSet(Msgs), Cardinality(Msgs) < QueueLen
    PROVE  Spec => []QueueHasRoom
<1>1. ASSUME IInv, \A c \in Cpus : OneNoted(c) PROVE QueueHasRoom
  <2> SUFFICES ASSUME NEW c \in Cpus, NEW m \in Msgs, m = cur[c], wire[c] = "sent"
               PROVE  Len(queue[Peer(c, m)]) < QueueLen
    BY <1>1, Sends DEF QueueHasRoom
  <2>1. PICK q : q = queue[Peer(c, m)]
    OBVIOUS
  <2>2. /\ q \in Seq(Msgs \X {0, 1}) /\ Once(q) /\ ~Contains(q, Received(m))
        /\ \A k, l \in Msgs : Contains(q, Sent(k)) /\ Contains(q, Sent(l)) => k = l
    <3>1. UnderWay(c, m) /\ Peer(c, m) \in Cpus
      BY <1>1, MsgEnds DEF IInv, ThreadInv, UnderWay, Unheard, TypeOK, Peer
    <3>2. ~CameIn(Peer(c, m), m)
      BY <1>1, <3>1, UnderWayFacts
    <3> QED
      BY <1>1, <2>1, <3>1, <3>2 DEF IInv, ThreadInv, TypeOK, CameIn, OneNoted, Noted
  (* What came in stands for itself, and the note for m, which has not come *)
  (* in yet: so there are no more entries than messages.                    *)
  <2> DEFINE f == [i \in 1 .. Len(q) |-> IF q[i][2] = 0 THEN q[i][1] ELSE m]
  <2>3. \A i \in 1 .. Len(q) : /\ q[i] \in Msgs \X {0, 1} /\ Contains(q, q[i])
                               /\ q[i] = Received(q[i][1]) \/ q[i] = Sent(q[i][1])
    BY <2>2 DEF Contains, Received, Sent
  <2>4. f \in [1 .. Len(q) -> Msgs]
    BY <2>3
  <2>5. ASSUME NEW i \in 1 .. Len(q), NEW a \in Msgs
        PROVE  /\ q[i] = Received(a) => f[i] = a /\ a # m
               /\ q[i] = Sent(a) => f[i] = m /\ Contains(q, Sent(a))
    <3>1. f[i] = IF q[i][2] = 0 THEN q[i][1] ELSE m
      OBVIOUS
    <3>2. CASE q[i] = Received(a)
      <4>1. f[i] = a /\ Received(a) # Sent(a)
        BY <3>1, <3>2 DEF Received, Sent
      <4>2. a # m
        BY <2>2, <2>3, <3>2
      <4> QED
        BY <3>2, <4>1, <4>2
    <3>3. CASE q[i] = Sent(a)
      <4>1. f[i] = m /\ Received(a) # Sent(a)
        BY <3>1, <3>3 DEF Received, Sent
      <4> QED
        BY <2>3, <3>3, <4>1
    <3> QED
      BY <3>2, <3>3
  <2>6. ASSUME NEW i \in 1 .. Len(q), NEW j \in 1 .. Len(q), f[i] = f[j] PROVE i = j
    <3>1. PICK a \in Msgs, b \in Msgs : /\ q[i] = Received(a) \/ q[i] = Sent(a)
                                        /\ q[j] = Received(b) \/ q[j] = Sent(b)
      BY <2>3
    <3>2. q[i] = q[j]
      BY <2>2, <2>5, <2>6, <3>1
    <3> QED
      BY <2>2, <3>2 DEF Once
  <2> HIDE DEF f
  <2>7. Len(q) \in Nat /\ IsFiniteSet(1 .. Len(q)) /\ Cardinality(1 .. Len(q)) = Len(q)
    <3>1. Len(q) \in Nat
      BY <2>2
    <3> QED
      BY <3>1, FS_Interval
  <2>8. ~(Cardinality(Msgs) < Len(q))
    BY <2>4, <2>6, <2>7, FS_PigeonHole
  <2>9. Cardinality(Msgs) \in Nat
    BY FS_CardinalityType
  <2> QED
    BY <2>1, <2>7, <2>8, <2>9, MailboxAssumption
<1> QED
  BY <1>1, OneNotedAtATime, PTL
=============================================================================
