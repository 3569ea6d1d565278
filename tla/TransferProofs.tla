--------------------------- MODULE TransferProofs ---------------------------
(***************************************************************************)
(* Proofs about Transfer, for any callbacks and frames and for every       *)
(* application, the ones that unregister too early included.               *)
(***************************************************************************)
EXTENDS Transfer, SequenceTheorems, TLAPS

Awake == {"idle", "callback", "answer"}
Looping == {"loop", "read", "sent"}

(* All that the queues ever hold.                                           *)
AppQueues == {<<>>, <<"data">>, <<"exit">>, <<"data", "exit">>,
              <<"exit", "data">>}
Queues == {<<>>, <<"start">>, <<"log", "data">>, <<"data">>, <<"exit">>}

HasData(q) == q \in {<<"data">>, <<"data", "exit">>, <<"exit", "data">>}
HasExit(q) == q \in {<<"exit">>, <<"data", "exit">>, <<"exit", "data">>}

(* The application waits for media_ui only where it has asked it.           *)
CallInv == /\ call \in {"idle", "init", "exit"} => ui = "idle"
           /\ call = "open" => ui \in {"open", "init", "ok", "failed"}
           /\ call = "close" => ui \in {"close", "exit", "ok"}
           /\ call = "pause" => ui \in {"pause", "ok"}

(* The task of CPU0, its flag and its semaphore at each place of the call.  *)
WorkerInv ==
    /\ \/ /\ call = "init"
          /\ \/ appTask = "start" /\ ~appRunning /\ appSem = 0
             \/ appTask \in Awake /\ appRunning /\ appSem = 1
       \/ /\ call = "exit" /\ ~appRunning
          /\ \/ appTask \in Awake /\ appSem = 0
             \/ appTask = "none" /\ appSem = 1
       \/ /\ call \notin {"init", "exit"} /\ appSem = 0
          /\ \/ appTask = "none" /\ ~appRunning
             \/ appTask \in Awake /\ appRunning
    /\ appTask # "none" => callback # None
    /\ appQueue \in AppQueues
    /\ appTask = "none" => appQueue = <<>>
    /\ HasExit(appQueue) <=> (call = "exit" /\ appTask # "none")

(* A frame is queued, looked at by the callback or answered for, once; and  *)
(* the variable it is kept in meanwhile holds no other.                     *)
NoteInv ==
    /\ HasData(appQueue) =>
           note = "queued" /\ appTask \notin {"callback", "answer"}
    /\ appTask \in {"callback", "answer"} => note = "queued"
    /\ appTask = "callback" => current # None
    /\ note \in {"taken", "queued"} => current \in {frame, None}

(* The same for the transfer task of CPU1 and media_ui.                     *)
MajorInv ==
    /\ \/ /\ ui = "init" /\ ~state /\ ~running /\ queue = <<>>
          /\ \/ task = "start" /\ sem = 0
             \/ task = "idle" /\ sem = 1
       \/ /\ ui = "exit" /\ state /\ ~running /\ queue = <<"exit">>
          /\ task \in {"idle"} \cup Looping /\ sem = 0
       \/ /\ ui = "exit" /\ ~state /\ ~running /\ queue = <<>>
          /\ task = "none" /\ sem = 1
       \/ /\ ui \notin {"init", "exit"} /\ sem = 0
          /\ \/ ~state /\ ~running /\ queue = <<>> /\ task = "none"
             \/ /\ state /\ ~running /\ task = "idle"
                /\ queue \in Queues \ {<<>>, <<"exit">>}
             \/ state /\ running /\ queue = <<>> /\ task \in Looping
    /\ (task = "sent") <=> (frame # None)
    /\ (task = "sent") <=> (note # "none")
    /\ task \in Looping \/ queue = <<"data">> => told

(* What both CPUs know of each other.                                       *)
AgreeInv ==
    /\ call \in {"init", "open"} => ~trs
    /\ call \in {"close", "exit"} => trs
    /\ trs /\ call # "exit" => appRunning
    /\ call = "open" => appRunning
    /\ ui = "failed" => ~state
    /\ call = "open" /\ ui = "ok" => state
    /\ call \in {"idle", "pause"} /\ ~trs => appTask = "none" \/ ~state
    /\ ~setting.early =>
           /\ call \in {"idle", "pause"} => trs = state
           /\ call = "close" /\ ui = "close" => running
           /\ call = "close" /\ ui = "ok" => ~state
           /\ call \in {"init", "exit"} => ~state

IInv == TypeOK /\ CallInv /\ WorkerInv /\ NoteInv /\ MajorInv /\ AgreeInv
-----------------------------------------------------------------------------
(* The queues are short enough to be written out.                           *)
LEMMA AppendSecond ==
    ASSUME NEW a, NEW b
    PROVE  Append(<<a>>, b) = <<a, b>>
<1> DEFINE s == Append(<<a>>, b)
           t == <<a, b>>
<1>1. s \in Seq({a, b}) /\ Len(s) = 2 /\ s[1] = a /\ s[2] = b
  <2>1. <<a>> \in Seq({a, b}) /\ Len(<<a>>) = 1
    OBVIOUS
  <2> QED BY <2>1
<1>2. t \in Seq({a, b}) /\ Len(t) = 2 /\ t[1] = a /\ t[2] = b
    OBVIOUS
<1> HIDE DEF s, t
<1>3. \A i \in 1 .. Len(s) : s[i] = t[i]
    BY <1>1, <1>2
<1>4. s = t
    BY <1>1, <1>2, <1>3, SeqEqual
<1> QED BY <1>4 DEF s, t

(* Queues of different lengths or contents are not the same.                *)
LEMMA QueuesDiffer ==
    /\ <<"data">> # <<"exit">> /\ <<"data">> # <<"start">>
    /\ <<"start">> # <<"exit">>
    /\ <<"data", "exit">> # <<"exit", "data">>
    /\ \A a, b, c : <<>> # <<a>> /\ <<>> # <<a, b>> /\ <<c>> # <<a, b>>
OBVIOUS

(* What the empty queue of CPU0 holds,                                      *)
LEMMA AppQueueEmpty ==
    <<>> \in AppQueues /\ ~HasData(<<>>) /\ ~HasExit(<<>>)
BY QueuesDiffer DEF AppQueues, HasData, HasExit

(* what is queued with a frame,                                             *)
LEMMA AppQueueData ==
    ASSUME NEW q \in AppQueues, ~HasData(q)
    PROVE  /\ Append(q, "data") \in AppQueues
           /\ HasData(Append(q, "data"))
           /\ HasExit(Append(q, "data")) <=> HasExit(q)
<1>1. q = <<>> \/ q = <<"exit">>
    BY DEF AppQueues, HasData
<1>2. CASE q = <<>>
  <2>1. Append(q, "data") = <<"data">>
    BY <1>2
  <2> QED BY <1>2, <2>1, QueuesDiffer DEF AppQueues, HasData, HasExit
<1>3. CASE q = <<"exit">>
  <2>1. Append(q, "data") = <<"exit", "data">>
    BY <1>3, AppendSecond
  <2> QED BY <1>3, <2>1 DEF AppQueues, HasData, HasExit
<1> QED BY <1>1, <1>2, <1>3

(* or with the end of the task,                                             *)
LEMMA AppQueueExit ==
    ASSUME NEW q \in AppQueues, ~HasExit(q)
    PROVE  /\ Append(q, "exit") \in AppQueues
           /\ HasExit(Append(q, "exit"))
           /\ HasData(Append(q, "exit")) <=> HasData(q)
<1>1. q = <<>> \/ q = <<"data">>
    BY DEF AppQueues, HasExit
<1>2. CASE q = <<>>
  <2>1. Append(q, "exit") = <<"exit">>
    BY <1>2
  <2> QED BY <1>2, <2>1, QueuesDiffer DEF AppQueues, HasData, HasExit
<1>3. CASE q = <<"data">>
  <2>1. Append(q, "exit") = <<"data", "exit">>
    BY <1>3, AppendSecond
  <2> QED BY <1>3, <2>1 DEF AppQueues, HasData, HasExit
<1> QED BY <1>1, <1>2, <1>3

(* and what is taken from its head.                                         *)
LEMMA AppQueueHeads ==
    /\ Head(<<"data">>) = "data" /\ Tail(<<"data">>) = <<>>
    /\ Head(<<"data", "exit">>) = "data" /\ Tail(<<"data", "exit">>) = <<"exit">>
    /\ Head(<<"exit">>) = "exit" /\ Head(<<"exit", "data">>) = "exit"
OBVIOUS

LEMMA AppQueueHeadData ==
    ASSUME NEW q \in AppQueues, q # <<>>, Head(q) = "data"
    PROVE  /\ HasData(q) /\ ~HasData(Tail(q)) /\ Tail(q) \in AppQueues
           /\ HasExit(Tail(q)) <=> HasExit(q)
<1>1. q = <<"data">> \/ q = <<"data", "exit">>
    BY AppQueueHeads DEF AppQueues
<1>2. CASE q = <<"data">>
    BY <1>2, AppQueueHeads, AppQueueEmpty, QueuesDiffer DEF HasData, HasExit
<1>3. CASE q = <<"data", "exit">>
    BY <1>3, AppQueueHeads, QueuesDiffer DEF AppQueues, HasData, HasExit
<1> QED BY <1>1, <1>2, <1>3

LEMMA AppQueueHeadExit ==
    ASSUME NEW q \in AppQueues, q # <<>>, Head(q) = "exit"
    PROVE  HasExit(q)
BY AppQueueHeads DEF AppQueues, HasExit

(* Both queues have their type and room to spare.                           *)
LEMMA AppQueueTyped ==
    ASSUME NEW q \in AppQueues
    PROVE  q \in Seq({"data", "exit"}) /\ Len(q) =< 10
<1>1. CASE q = <<>>
    BY <1>1
<1>2. CASE q = <<"data">>
    BY <1>2
<1>3. CASE q = <<"exit">>
    BY <1>3
<1>4. CASE q = <<"data", "exit">>
    BY <1>4
<1>5. CASE q = <<"exit", "data">>
    BY <1>5
<1> QED BY <1>1, <1>2, <1>3, <1>4, <1>5 DEF AppQueues

LEMMA QueueTyped ==
    ASSUME NEW q \in Queues
    PROVE  q \in Seq({"start", "log", "data", "exit"}) /\ Len(q) =< 10
<1>1. CASE q = <<>>
    BY <1>1
<1>2. CASE q = <<"start">>
    BY <1>2
<1>3. CASE q = <<"log", "data">>
    BY <1>3
<1>4. CASE q = <<"data">>
    BY <1>4
<1>5. CASE q = <<"exit">>
    BY <1>5
<1> QED BY <1>1, <1>2, <1>3, <1>4, <1>5 DEF Queues

(* Its forms, and that they differ.                                         *)
LEMMA QueuesListed ==
    /\ \A q \in {<<"start">>, <<"log", "data">>, <<"data">>} :
           q \in Queues \ {<<>>, <<"exit">>}
    /\ <<"exit">> \in Queues \ {<<>>} /\ <<>> \in Queues
    /\ <<"start">> # <<"data">> /\ <<"log", "data">> # <<"data">>
    /\ <<"exit">> # <<"data">> /\ <<>> # <<"data">>
BY QueuesDiffer DEF Queues

(* The queue of CPU1 grows and shrinks from one of its forms to the next.   *)
LEMMA QueueAppend ==
    Append(<<>>, "start") = <<"start">> /\ Append(<<>>, "exit") = <<"exit">>
OBVIOUS

LEMMA QueueHead ==
    ASSUME NEW q \in Queues, q # <<>>
    PROVE  /\ Head(q) = "start" =>
                  q = <<"start">> /\ Tail(q) \o <<"log", "data">> = <<"log", "data">>
           /\ Head(q) = "log" => q = <<"log", "data">> /\ Tail(q) = <<"data">>
           /\ Head(q) = "data" => q = <<"data">> /\ Tail(q) = <<>>
           /\ Head(q) = "exit" => q = <<"exit">>
<1>1. CASE q = <<"start">>
    BY <1>1
<1>2. CASE q = <<"log", "data">>
    BY <1>2
<1>3. CASE q = <<"data">>
    BY <1>3
<1>4. CASE q = <<"exit">>
    BY <1>4
<1> QED BY <1>1, <1>2, <1>3, <1>4 DEF Queues
-----------------------------------------------------------------------------
LEMMA InitIInv == Init => IInv
<1> SUFFICES ASSUME Init PROVE IInv
    OBVIOUS
<1> USE TransferAssumption DEF Init
<1>1. /\ appQueue \in Seq({"data", "exit"}) /\ Len(appQueue) =< 10
      /\ queue \in Seq({"start", "log", "data", "exit"}) /\ Len(queue) =< 10
    OBVIOUS
<1>2. TypeOK
    BY <1>1 DEF TypeOK
<1>3. CallInv /\ WorkerInv /\ NoteInv /\ MajorInv /\ AgreeInv
    BY AppQueueEmpty, QueuesListed
       DEF CallInv, WorkerInv, NoteInv, MajorInv, AgreeInv, Looping
<1> QED BY <1>2, <1>3 DEF IInv

(* Each thread keeps the invariant: the calls of the application,           *)
LEMMA AppCallIInv == IInv /\ AppCall => IInv'
<1> SUFFICES ASSUME IInv, AppCall PROVE IInv'
    OBVIOUS
<1> USE TransferAssumption
    DEF IInv, TypeOK, CallInv, WorkerInv, NoteInv, MajorInv, AgreeInv,
        Awake, Looping, app, worker, major
<1>1. ASSUME InitFails PROVE IInv'
    BY <1>1 DEF InitFails
<1>2. ASSUME Unregister PROVE IInv'
    BY <1>2 DEF Unregister
<1>3. ASSUME Pause PROVE IInv'
    BY <1>3 DEF Pause
<1>4. ASSUME NEW cb \in Callback, Register(cb) PROVE IInv'
    BY <1>4 DEF Register
<1> QED BY <1>1, <1>2, <1>3, <1>4 DEF AppCall

(* what they do when they are answered,                                     *)
LEMMA AppStepIInv == IInv /\ AppStep => IInv'
<1> SUFFICES ASSUME IInv, AppStep PROVE IInv'
    OBVIOUS
<1> USE TransferAssumption
    DEF IInv, TypeOK, CallInv, WorkerInv, NoteInv, MajorInv, AgreeInv,
        Awake, Looping, app, worker, major
<1>1. ASSUME InitDone PROVE IInv'
    BY <1>1 DEF InitDone
<1>2. ASSUME Opened(TRUE) PROVE IInv'
    BY <1>2 DEF Opened
<1>3. ASSUME Opened(FALSE) PROVE IInv'
    BY <1>3 DEF Opened
<1>4. ASSUME AppClose PROVE IInv'
  <2>1. ~HasExit(appQueue)
    BY <1>4 DEF AppClose
  <2>2. appQueue' \in AppQueues
    BY <1>4, <2>1, AppQueueExit DEF AppClose
  <2>3. TypeOK'
    BY <1>4, <2>2, AppQueueTyped DEF AppClose
  <2>4. WorkerInv'
    BY <1>4, <2>1, AppQueueExit DEF AppClose
  <2>5. NoteInv'
    BY <1>4, <2>1, AppQueueExit DEF AppClose
  <2>6. CallInv' /\ MajorInv' /\ AgreeInv'
    BY <1>4 DEF AppClose
  <2> QED BY <2>3, <2>4, <2>5, <2>6
<1>5. ASSUME AppClosed PROVE IInv'
  <2>1. appTask = "none" /\ appQueue = <<>>
    BY <1>5 DEF AppClosed
  <2>2. TypeOK' /\ CallInv' /\ WorkerInv'
    BY <1>5, <2>1, AppQueueEmpty DEF AppClosed
  <2>3. NoteInv' /\ MajorInv' /\ AgreeInv'
    BY <1>5, <2>1 DEF AppClosed
  <2> QED BY <2>2, <2>3
<1>6. ASSUME Paused PROVE IInv'
    BY <1>6 DEF Paused
<1> QED BY <1>1, <1>2, <1>3, <1>4, <1>5, <1>6 DEF AppStep

(* the task of CPU0,                                                        *)
LEMMA WorkerStepIInv == IInv /\ WorkerStep => IInv'
<1> SUFFICES ASSUME IInv, WorkerStep PROVE IInv'
    OBVIOUS
<1> USE TransferAssumption
    DEF IInv, TypeOK, CallInv, WorkerInv, NoteInv, MajorInv, AgreeInv,
        Awake, Looping, app, worker, major
<1>1. ASSUME TaskStart PROVE IInv'
    BY <1>1 DEF TaskStart
<1>2. ASSUME TaskData PROVE IInv'
  <2>1. /\ appQueue \in AppQueues /\ appQueue # <<>>
        /\ Head(appQueue) = "data" /\ appQueue' = Tail(appQueue)
    BY <1>2 DEF TaskData
  <2> HIDE DEF IInv
  <2>2. /\ HasData(appQueue) /\ ~HasData(appQueue') /\ appQueue' \in AppQueues
        /\ HasExit(appQueue') <=> HasExit(appQueue)
    BY <2>1, AppQueueHeadData
  <2> USE DEF IInv
  <2>3. TypeOK'
    BY <1>2, <2>2, AppQueueTyped DEF TaskData
  <2>4. WorkerInv' /\ NoteInv'
    BY <1>2, <2>2 DEF TaskData
  <2>5. CallInv' /\ MajorInv' /\ AgreeInv'
    BY <1>2 DEF TaskData
  <2> QED BY <2>3, <2>4, <2>5
<1>3. ASSUME CallbackReturns PROVE IInv'
    BY <1>3 DEF CallbackReturns
<1>4. ASSUME TaskAnswers PROVE IInv'
    BY <1>4 DEF TaskAnswers
<1>5. ASSUME TaskExit PROVE IInv'
  <2>1. HasExit(appQueue) /\ appQueue' = <<>>
    BY <1>5, AppQueueHeadExit DEF TaskExit
  <2>2. appSem' = 1
    BY <1>5, <2>1 DEF TaskExit
  <2>3. TypeOK'
    BY <1>5, <2>1, <2>2, AppQueueTyped, AppQueueEmpty DEF TaskExit
  <2>4. WorkerInv' /\ NoteInv'
    BY <1>5, <2>1, AppQueueEmpty DEF TaskExit
  <2>5. CallInv' /\ MajorInv' /\ AgreeInv'
    BY <1>5, <2>1 DEF TaskExit
  <2> QED BY <2>3, <2>4, <2>5
<1> QED BY <1>1, <1>2, <1>3, <1>4, <1>5 DEF WorkerStep

(* its mailbox thread,                                                      *)
LEMMA NoteStepIInv == IInv /\ NoteStep => IInv'
<1> SUFFICES ASSUME IInv, NoteStep PROVE IInv'
    OBVIOUS
<1> USE TransferAssumption
    DEF IInv, TypeOK, CallInv, WorkerInv, NoteInv, MajorInv, AgreeInv,
        Awake, Looping, app, worker, major
<1>1. ASSUME NoteCheck PROVE IInv'
    BY <1>1 DEF NoteCheck
<1>2. ASSUME NoteTake PROVE IInv'
    BY <1>2 DEF NoteTake
<1>3. ASSUME NoteQueue PROVE IInv'
  <2>1. ~HasData(appQueue)
    BY <1>3 DEF NoteQueue
  <2>2. appQueue' \in AppQueues
    BY <1>3, <2>1, AppQueueData DEF NoteQueue
  <2>3. TypeOK'
    BY <1>3, <2>2, AppQueueTyped DEF NoteQueue
  <2>4. WorkerInv' /\ NoteInv'
    BY <1>3, <2>1, AppQueueData DEF NoteQueue
  <2>5. CallInv' /\ MajorInv' /\ AgreeInv'
    BY <1>3 DEF NoteQueue
  <2> QED BY <2>3, <2>4, <2>5
<1> QED BY <1>1, <1>2, <1>3 DEF NoteStep

(* media_ui,                                                                *)
LEMMA UiStepIInv == IInv /\ UiStep => IInv'
<1> SUFFICES ASSUME IInv, UiStep PROVE IInv'
    OBVIOUS
<1> USE TransferAssumption
    DEF IInv, TypeOK, CallInv, WorkerInv, NoteInv, MajorInv, AgreeInv,
        Awake, Looping, app, worker, major
<1>1. ASSUME UiOpenAgain PROVE IInv'
    BY <1>1 DEF UiOpenAgain
<1>2. ASSUME UiOpen PROVE IInv'
    BY <1>2 DEF UiOpen
<1>3. ASSUME UiOpenFails PROVE IInv'
    BY <1>3 DEF UiOpenFails
<1>4. ASSUME UiOpened PROVE IInv'
  <2>1. queue' = <<"start">>
    BY <1>4, QueueAppend DEF UiOpened
  <2>2. TypeOK'
    BY <1>4, <2>1, QueueTyped, QueuesListed DEF UiOpened
  <2>3. MajorInv'
    BY <1>4, <2>1, QueuesListed DEF UiOpened
  <2>4. CallInv' /\ WorkerInv' /\ NoteInv' /\ AgreeInv'
    BY <1>4 DEF UiOpened
  <2> QED BY <2>2, <2>3, <2>4
<1>5. ASSUME UiClose PROVE IInv'
  <2>1. running /\ state => queue' = <<"exit">>
    BY <1>5, QueueAppend, QueuesListed DEF UiClose
  <2>2. TypeOK'
    BY <1>5, <2>1, QueueTyped, QueuesListed DEF UiClose
  <2>3. MajorInv'
    BY <1>5, <2>1, QueuesListed DEF UiClose
  <2>4. CallInv' /\ WorkerInv' /\ NoteInv' /\ AgreeInv'
    BY <1>5 DEF UiClose
  <2> QED BY <2>2, <2>3, <2>4
<1>6. ASSUME UiClosed PROVE IInv'
    BY <1>6 DEF UiClosed
<1>7. ASSUME UiPause PROVE IInv'
    BY <1>7 DEF UiPause
<1> QED BY <1>1, <1>2, <1>3, <1>4, <1>5, <1>6, <1>7 DEF UiStep

(* and the transfer task.                                                   *)
LEMMA TaskStepIInv == IInv /\ TaskStep => IInv'
<1> SUFFICES ASSUME IInv, TaskStep PROVE IInv'
    OBVIOUS
<1> USE TransferAssumption
    DEF IInv, TypeOK, CallInv, WorkerInv, NoteInv, MajorInv, AgreeInv,
        Awake, Looping, app, worker, major
<1>1. ASSUME MajorStart PROVE IInv'
    BY <1>1 DEF MajorStart
<1>2. ASSUME TransferStart PROVE IInv'
  <2>1. queue \in Queues /\ queue' = <<"log", "data">>
    BY <1>2, QueueHead, QueuesListed DEF TransferStart, Takes
  <2>2. queue = <<"start">>
    BY <1>2, <2>1, QueueHead, QueuesListed DEF TransferStart, Takes
  <2>3. TypeOK'
    BY <1>2, <2>1, QueueTyped, QueuesListed DEF TransferStart, Takes
  <2>4. MajorInv'
    BY <1>2, <2>1, <2>2, QueuesListed DEF TransferStart, Takes
  <2>5. CallInv' /\ WorkerInv' /\ NoteInv' /\ AgreeInv'
    BY <1>2, <2>1, <2>2, QueuesListed DEF TransferStart, Takes
  <2> QED BY <2>3, <2>4, <2>5
<1>3. ASSUME TransferLog PROVE IInv'
  <2>1. queue \in Queues /\ queue' = <<"data">>
    BY <1>3, QueueHead, QueuesListed DEF TransferLog, Takes
  <2>2. queue = <<"log", "data">>
    BY <1>3, <2>1, QueueHead, QueuesListed DEF TransferLog, Takes
  <2>3. TypeOK'
    BY <1>3, <2>1, QueueTyped, QueuesListed DEF TransferLog, Takes
  <2>4. MajorInv'
    BY <1>3, <2>1, <2>2, QueuesListed DEF TransferLog, Takes
  <2>5. CallInv' /\ WorkerInv' /\ NoteInv' /\ AgreeInv'
    BY <1>3, <2>1, <2>2, QueuesListed DEF TransferLog, Takes
  <2> QED BY <2>3, <2>4, <2>5
<1>4. ASSUME TransferData PROVE IInv'
  <2>1. queue \in Queues /\ queue' = <<>>
    BY <1>4, QueueHead, QueuesListed DEF TransferData, Takes
  <2>2. queue = <<"data">>
    BY <1>4, <2>1, QueueHead, QueuesListed DEF TransferData, Takes
  <2>3. TypeOK'
    BY <1>4, <2>1, QueueTyped, QueuesListed DEF TransferData, Takes
  <2>4. MajorInv'
    BY <1>4, <2>1, <2>2, QueuesListed DEF TransferData, Takes
  <2>5. CallInv' /\ WorkerInv' /\ NoteInv' /\ AgreeInv'
    BY <1>4, <2>1, <2>2, QueuesListed DEF TransferData, Takes
  <2> QED BY <2>3, <2>4, <2>5
<1>5. ASSUME LoopCheck PROVE IInv'
    BY <1>5 DEF LoopCheck
<1>6. ASSUME ReadNull PROVE IInv'
    BY <1>6 DEF ReadNull
<1>7. ASSUME Transferred PROVE IInv'
    BY <1>7 DEF Transferred
<1>8. ASSUME MajorExit PROVE IInv'
  <2>1. queue \in Queues /\ queue' = <<>>
    BY <1>8, QueueHead, QueuesListed DEF MajorExit, Takes
  <2>2. queue = <<"exit">>
    BY <1>8, <2>1, QueueHead, QueuesListed DEF MajorExit, Takes
  <2>3. sem = 0 /\ sem' = 1
    BY <1>8, <2>2, QueuesListed DEF MajorExit, Takes
  <2>4. TypeOK'
    BY <1>8, <2>1, <2>3, QueueTyped, QueuesListed DEF MajorExit, Takes
  <2>5. MajorInv'
    BY <1>8, <2>1, <2>2, QueuesListed DEF MajorExit, Takes
  <2>6. CallInv' /\ WorkerInv' /\ NoteInv' /\ AgreeInv'
    BY <1>8, <2>1, <2>2, QueuesListed DEF MajorExit, Takes
  <2> QED BY <2>4, <2>5, <2>6
<1>9. ASSUME NEW f \in Frame, Read(f) PROVE IInv'
    BY <1>9 DEF Read
<1> QED BY <1>1, <1>2, <1>3, <1>4, <1>5, <1>6, <1>7, <1>8, <1>9 DEF TaskStep
LEMMA NextIInv == IInv /\ [Next]_vars => IInv'
<1> SUFFICES ASSUME IInv, [Next]_vars PROVE IInv'
    OBVIOUS
<1>1. CASE Next
    BY <1>1, AppCallIInv, AppStepIInv, WorkerStepIInv, NoteStepIInv,
       UiStepIInv, TaskStepIInv DEF Next
<1>2. CASE UNCHANGED vars
    BY <1>2 DEF vars, app, worker, major, IInv, TypeOK, CallInv, WorkerInv,
                NoteInv, MajorInv, AgreeInv
<1> QED BY <1>1, <1>2

THEOREM Invariance == Spec => []IInv
<1> QED BY InitIInv, NextIInv, PTL DEF Spec
-----------------------------------------------------------------------------
(* Every variable has its type, and neither queue ever holds more than ten. *)
THEOREM TypeCorrect == Spec => []TypeOK
<1>1. IInv => TypeOK
    BY DEF IInv
<1> QED BY <1>1, Invariance, PTL

(* A callback runs only while it is registered.                             *)
THEOREM CallbacksQuiet == Spec => []Quiet
<1>1. IInv => Quiet
    BY DEF IInv, Quiet, WorkerInv, NoteInv, MajorInv, AgreeInv, CallInv,
           Awake, Looping
<1> QED BY <1>1, Invariance, PTL

(* Between two calls the two CPUs agree.                                    *)
THEOREM CpusInStep == Spec => []InStep
<1>1. ASSUME IInv, call = "idle"
      PROVE  /\ ~setting.early => trs = state
             /\ state = (task # "none")
             /\ appRunning = (appTask # "none")
             /\ trs => appRunning
  <2> USE <1>1 DEF IInv
  <2>1. (~setting.early => trs = state) /\ (trs => appRunning)
    BY DEF AgreeInv
  <2>2. state = (task # "none")
    BY DEF TypeOK, CallInv, MajorInv, Looping
  <2>3. appRunning = (appTask # "none")
    BY DEF TypeOK, WorkerInv, Awake
  <2> QED BY <2>1, <2>2, <2>3
<1>2. IInv => InStep
    BY <1>1 DEF InStep
<1> QED BY <1>2, Invariance, PTL
-----------------------------------------------------------------------------
(* The steps of FrameHandoff.                                               *)
LEMMA NextHandsOff ==
    IInv /\ IInv' /\ [Next]_vars => [Handoff!Next]_(Handoff!vars)
<1> SUFFICES ASSUME IInv, IInv', [Next]_vars
             PROVE  [Handoff!Next]_(Handoff!vars)
    OBVIOUS
<1> USE DEF Handoff!Next, Handoff!vars
<1>1. ASSUME NEW f \in Frame, Read(f) PROVE Handoff!Lend(f)
    BY <1>1 DEF Read, Handoff!Lend, IInv, MajorInv, WorkerInv, NoteInv, worker
<1>2. ASSUME TaskData PROVE Handoff!Use \/ UNCHANGED Handoff!vars
    BY <1>2 DEF TaskData, Handoff!Use, IInv, NoteInv, MajorInv
<1>3. ASSUME CallbackReturns PROVE Handoff!Done
    BY <1>3 DEF CallbackReturns, Handoff!Done, IInv, NoteInv
<1>4. ASSUME Transferred PROVE Handoff!TakeBack
    BY <1>4 DEF Transferred, Handoff!TakeBack, IInv, MajorInv, NoteInv, worker
<1>5. ASSUME NoteTake PROVE UNCHANGED Handoff!vars
    BY <1>5 DEF NoteTake, IInv, NoteInv, worker
<1>6. ASSUME AppCall \/ AppStep PROVE UNCHANGED Handoff!vars
    BY <1>6 DEF AppCall, AppStep, InitFails, Unregister, Pause, Register,
                InitDone, Opened, AppClose, AppClosed, Paused, worker,
                IInv, WorkerInv, Awake
<1>7. ASSUME TaskStart \/ TaskAnswers \/ TaskExit PROVE UNCHANGED Handoff!vars
    BY <1>7 DEF TaskStart, TaskAnswers, TaskExit
<1>8. ASSUME NoteCheck \/ NoteQueue \/ UiStep PROVE UNCHANGED Handoff!vars
    BY <1>8 DEF NoteCheck, NoteQueue, UiStep, UiOpenAgain, UiOpen, UiOpenFails,
                UiOpened, UiClose, UiClosed, UiPause, worker
<1>9. ASSUME \/ MajorStart \/ TransferStart \/ TransferLog \/ TransferData
             \/ LoopCheck \/ ReadNull \/ MajorExit
      PROVE  UNCHANGED Handoff!vars
    BY <1>9 DEF MajorStart, TransferStart, TransferLog, TransferData,
                LoopCheck, ReadNull, MajorExit, worker
<1>10. CASE UNCHANGED vars
    BY <1>10 DEF vars, worker
<1> QED
    BY <1>1, <1>2, <1>3, <1>4, <1>5, <1>6, <1>7, <1>8, <1>9, <1>10
    DEF Next, WorkerStep, NoteStep, TaskStep

(* Frames are handed to CPU0 as FrameHandoff says.                          *)
THEOREM FramesHandedOff == Spec => HandoffSpec
<1>1. Init => Handoff!Init
    BY DEF Init, Handoff!Init
<1> QED BY <1>1, Invariance, NextHandsOff, PTL DEF Spec, HandoffSpec, Handoff!Spec
=============================================================================
