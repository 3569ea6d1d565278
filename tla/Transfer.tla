------------------------------ MODULE Transfer ------------------------------
(***************************************************************************)
(* The transfer of encoded frames to a callback on CPU0                    *)
(* (media_app_register_read_frame_callback of app/media_app.c, and         *)
(* transfer/transfer_major_act.c, transfer/transfer_app_act.c of           *)
(* components/multimedia).                                                 *)
(*                                                                         *)
(* Five threads take part: the application and its task on CPU0, the       *)
(* mailbox thread of CPU0, and on CPU1 the thread media_ui, which handles  *)
(* one request at a time, and the transfer task.  Requests and answers     *)
(* between the CPUs are RemoteCall: each arrives once, and its caller      *)
(* waits for it.                                                           *)
(***************************************************************************)
EXTENDS Naturals, Sequences

CONSTANTS Callback,     \* what an application may register
          Frame,        \* what frame_buffer_fb_read returns
          None,         \* NULL
          Settings      \* the surroundings that are looked at

(* early: the application may unregister before frames are transferred.     *)
(* fails: memory for the tasks, queues and semaphores may not be had.       *)
ASSUME TransferAssumption ==
    /\ None \notin Callback \cup Frame
    /\ Settings \subseteq [early : BOOLEAN, fails : BOOLEAN]

VARIABLES
    setting,                  \* never changes
    trs,                      \* media_modules_state->trs_state is ENABLED
    call,                     \* where the call of the application is
    callback, current,        \* frame_read_callback, current_frame
    appRunning, appTask,      \* transfer_app_task_running; place of the task
    appQueue, appSem,         \* transfer_app_msg_que, transfer_app_sem
    note,                     \* the frame notification to CPU0
    told,                     \* transfer_log is set
    ui,                       \* where media_ui is
    state, running,           \* transfer_info.state, ..._major_task_running
    pause,                    \* transfer_info.pause
    task, queue, sem,         \* the transfer task, its queue and semaphore
    frame                     \* encode_frame

app == <<trs, call>>
worker == <<callback, appRunning, appTask, appQueue, appSem>>
major == <<state, running, pause, queue, sem>>
vars == <<setting, app, worker, current, note, told, ui, major, task, frame>>

Init == /\ setting \in Settings
        /\ trs = FALSE /\ call = "idle"
        /\ callback = None /\ current = None
        /\ appRunning = FALSE /\ appTask = "none"
        /\ appQueue = <<>> /\ appSem = 0
        /\ note = "none" /\ told = FALSE /\ ui = "idle"
        /\ state = FALSE /\ running = FALSE /\ pause = FALSE
        /\ task = "none" /\ queue = <<>> /\ sem = 0 /\ frame = None
-----------------------------------------------------------------------------
(* The application.  Calls that find what they want done return at once.    *)

(* transfer_app_task_init: a task that runs keeps the callback it has.      *)
Register(cb) ==
    /\ call = "idle" /\ ~trs
    /\ IF appRunning
       THEN /\ call' = "open" /\ ui' = "open"
            /\ UNCHANGED worker
       ELSE /\ call' = "init" /\ callback' = cb
            /\ appTask' = "start" /\ appQueue' = <<>>
            /\ UNCHANGED <<appRunning, appSem, ui>>
    /\ UNCHANGED <<setting, trs, current, note, told, major, task, frame>>

(* Whatever was made is undone, and the call returns an error.              *)
InitFails ==
    /\ setting.fails
    /\ call = "idle" /\ ~trs /\ ~appRunning
    /\ callback' = None
    /\ UNCHANGED <<setting, app, appRunning, appTask, appQueue, appSem, current,
                   note, told, ui, major, task, frame>>

(* Faulty form: the token of the start is left for the end.                 *)
InitDoneUntaken ==
    /\ call = "init" /\ appSem = 1
    /\ call' = "open" /\ ui' = "open"
    /\ UNCHANGED <<setting, trs, worker, current, note, told, major, task, frame>>

InitDone == /\ call = "init" /\ appSem = 1
            /\ appSem' = 0
            /\ call' = "open" /\ ui' = "open"
            /\ UNCHANGED <<setting, trs, callback, appRunning, appTask,
                           appQueue, current, note, told, major, task, frame>>

Opened(ok) == /\ call = "open" /\ ui = (IF ok THEN "ok" ELSE "failed")
              /\ trs' = ok
              /\ call' = "idle" /\ ui' = "idle"
              /\ UNCHANGED <<setting, worker, current, note, told, major, task,
                             frame>>

(* The application that waits for frames before it goes on.                 *)
Unregister == /\ call = "idle" /\ trs
              /\ setting.early \/ running
              /\ call' = "close" /\ ui' = "close"
              /\ UNCHANGED <<setting, trs, worker, current, note, told,
                             major, task, frame>>

(* Faulty form: nobody waits for the task to end.                           *)
AppCloseHasty ==
    /\ call = "close" /\ ui = "ok"
    /\ ui' = "idle" /\ call' = "idle" /\ trs' = FALSE
    /\ appRunning' = FALSE
    /\ appQueue' = IF appRunning THEN Append(appQueue, "exit") ELSE appQueue
    /\ UNCHANGED <<setting, callback, appTask, appSem, current, note,
                   told, major, task, frame>>

(* CPU1 has answered; transfer_app_task_close_handle.                       *)
AppClose ==
    /\ call = "close" /\ ui = "ok"
    /\ ui' = "idle"
    /\ IF appRunning
       THEN /\ appRunning' = FALSE
            /\ appQueue' = Append(appQueue, "exit")
            /\ call' = "exit" /\ UNCHANGED trs
       ELSE /\ call' = "idle" /\ trs' = FALSE
            /\ UNCHANGED <<appRunning, appQueue>>
    /\ UNCHANGED <<setting, callback, appTask, appSem, current, note,
                   told, major, task, frame>>

AppClosed == /\ call = "exit" /\ appSem = 1
             /\ appSem' = 0
             /\ call' = "idle" /\ trs' = FALSE
             /\ UNCHANGED <<setting, callback, appRunning, appTask,
                            appQueue, current, note, told, ui, major, task,
                            frame>>

Pause == /\ call = "idle"
         /\ call' = "pause" /\ ui' = "pause"
         /\ UNCHANGED <<setting, trs, worker, current, note, told, major,
                        task, frame>>

Paused == /\ call = "pause" /\ ui = "ok"
          /\ call' = "idle" /\ ui' = "idle"
          /\ UNCHANGED <<setting, trs, worker, current, note, told,
                         major, task, frame>>
-----------------------------------------------------------------------------
(* The task of the application.                                             *)

TaskStart == /\ appTask = "start"
             /\ appRunning' = TRUE
             /\ appSem' = appSem + 1 /\ appTask' = "idle"
             /\ UNCHANGED <<setting, app, callback, appQueue, current, note,
                            told, ui, major, task, frame>>

(* Faulty form: the answer goes out before the callback is at it.           *)
TaskDataAnswered ==
    /\ appTask = "idle" /\ appQueue # <<>> /\ Head(appQueue) = "data"
    /\ appQueue' = Tail(appQueue)
    /\ appTask' = IF current # None THEN "callback" ELSE "idle"
    /\ note' = "answered"
    /\ UNCHANGED <<setting, app, callback, appRunning, appSem, current, told, ui,
                   major, task, frame>>

(* The callback is called, unless there is no frame for it.                 *)
TaskData == /\ appTask = "idle" /\ appQueue # <<>> /\ Head(appQueue) = "data"
            /\ appQueue' = Tail(appQueue)
            /\ appTask' = IF current # None THEN "callback" ELSE "idle"
            /\ UNCHANGED <<setting, app, callback, appRunning, appSem, current,
                           note, told, ui, major, task, frame>>

(* Faulty form: no answer.                                                  *)
CallbackUnanswered ==
    /\ appTask = "callback"
    /\ current' = None
    /\ appTask' = "idle"
    /\ UNCHANGED <<setting, app, callback, appRunning, appQueue, appSem, note,
                   told, ui, major, task, frame>>

CallbackReturns == /\ appTask = "callback"
                   /\ current' = None
                   /\ appTask' = "answer"
                   /\ UNCHANGED <<setting, app, callback, appRunning, appQueue,
                                  appSem, note, told, ui, major, task, frame>>

TaskAnswers == /\ appTask = "answer"
               /\ note' = "answered"
               /\ appTask' = "idle"
               /\ UNCHANGED <<setting, app, callback, appRunning, appQueue,
                              appSem, current, told, ui, major, task, frame>>

(* What is left in the queue goes with it.                                  *)
TaskExit == /\ appTask = "idle" /\ appQueue # <<>> /\ Head(appQueue) = "exit"
            /\ callback' = None /\ current' = None
            /\ appRunning' = FALSE
            /\ appQueue' = <<>> /\ appTask' = "none" /\ appSem' = appSem + 1
            /\ UNCHANGED <<setting, app, note, told, ui, major, task, frame>>
-----------------------------------------------------------------------------
(* The mailbox thread of CPU0: transfer_app_task_start_handle.              *)

NoteCheck == /\ note = "sent"
             /\ note' = IF appRunning THEN "checked" ELSE "answered"
             /\ UNCHANGED <<setting, app, worker, current, told, ui, major,
                            task, frame>>

NoteTake == /\ note = "checked"
            /\ current' = frame
            /\ note' = "taken"
            /\ UNCHANGED <<setting, app, worker, told, ui, major, task, frame>>

(* Without a queue the answer is a failure, which nobody looks at.          *)
NoteQueue == /\ note = "taken"
             /\ IF appTask # "none"
                THEN /\ appQueue' = Append(appQueue, "data")
                     /\ note' = "queued"
                ELSE note' = "answered" /\ UNCHANGED appQueue
             /\ UNCHANGED <<setting, app, callback, appRunning, appTask, appSem,
                            current, told, ui, major, task, frame>>
-----------------------------------------------------------------------------
(* media_ui.                                                                *)

UiOpenAgain == /\ ui = "open" /\ state
               /\ ui' = "ok"
               /\ UNCHANGED <<setting, app, worker, current, note, told, major,
                              task, frame>>

(* transfer_major_task_init waits for the task it has created.              *)
UiOpen == /\ ui = "open" /\ ~state
          /\ ui' = "init"
          /\ task' = "start" /\ queue' = <<>>
          /\ UNCHANGED <<setting, app, worker, current, note, told, state,
                         running, pause, sem, frame>>

UiOpenFails == /\ ui = "open" /\ ~state /\ setting.fails
               /\ ui' = "failed"
               /\ UNCHANGED <<setting, app, worker, current, note, told, major,
                              task, frame>>

UiOpened == /\ ui = "init" /\ sem = 1
            /\ sem' = 0 /\ state' = TRUE
            /\ queue' = Append(queue, "start")
            /\ ui' = "ok"
            /\ UNCHANGED <<setting, app, worker, current, note, told, running,
                           pause, task, frame>>

(* Faulty form: the task is believed to end on its own.                     *)
UiCloseForgets == /\ ui = "close"
                  /\ running' = FALSE
                  /\ ui' = "ok"
                  /\ UNCHANGED <<setting, app, worker, current, note, told,
                                 state, pause, queue, sem, task, frame>>

(* transfer_major_task_close_handle.                                        *)
UiClose == /\ ui = "close"
           /\ IF running /\ state
              THEN /\ running' = FALSE
                   /\ queue' = Append(queue, "exit")
                   /\ ui' = "exit"
              ELSE ui' = "ok" /\ UNCHANGED <<running, queue>>
           /\ UNCHANGED <<setting, app, worker, current, note, told, state,
                          pause, sem, task, frame>>

UiClosed == /\ ui = "exit" /\ sem = 1
            /\ sem' = 0
            /\ ui' = "ok"
            /\ UNCHANGED <<setting, app, worker, current, note, told, state,
                           running, pause, queue, task, frame>>

UiPause == /\ ui = "pause"
           /\ pause' \in BOOLEAN
           /\ ui' = "ok"
           /\ UNCHANGED <<setting, app, worker, current, note, told, state,
                          running, queue, sem, task, frame>>
-----------------------------------------------------------------------------
(* The transfer task.                                                       *)

MajorStart == /\ task = "start"
              /\ sem' = sem + 1 /\ task' = "idle"
              /\ UNCHANGED <<setting, app, worker, current, note, told, ui,
                             state, running, pause, queue, frame>>

Takes(type) == task = "idle" /\ queue # <<>> /\ Head(queue) = type

TransferStart == /\ Takes("start")
                 /\ queue' = Tail(queue) \o <<"log", "data">>
                 /\ UNCHANGED <<setting, app, worker, current, note, told, ui,
                                state, running, pause, sem, task, frame>>

(* Notifications arrive in turn: CPU0 looks at this one before any frame.   *)
TransferLog == /\ Takes("log")
               /\ queue' = Tail(queue)
               /\ told' = TRUE
               /\ UNCHANGED <<setting, app, worker, current, note, ui, state,
                              running, pause, sem, task, frame>>

TransferData == /\ Takes("data")
                /\ queue' = Tail(queue)
                /\ running' = TRUE /\ task' = "loop"
                /\ UNCHANGED <<setting, app, worker, current, note, told, ui,
                               state, pause, sem, frame>>

LoopCheck == /\ task = "loop"
             /\ task' = IF running THEN "read" ELSE "idle"
             /\ UNCHANGED <<setting, app, worker, current, note, told, ui,
                            major, frame>>

ReadNull == /\ task = "read"
            /\ task' = "loop"
            /\ UNCHANGED <<setting, app, worker, current, note, told, ui,
                           major, frame>>

Read(f) == /\ task = "read"
           /\ frame' = f
           /\ note' = "sent" /\ task' = "sent"
           /\ UNCHANGED <<setting, app, worker, current, told, ui, major>>

(* The frame is freed.                                                      *)
Transferred == /\ task = "sent" /\ note = "answered"
               /\ note' = "none" /\ frame' = None
               /\ task' = "loop"
               /\ UNCHANGED <<setting, app, worker, current, told, ui, major>>

MajorExit == /\ Takes("exit")
             /\ state' = FALSE
             /\ queue' = <<>> /\ task' = "none" /\ sem' = sem + 1
             /\ UNCHANGED <<setting, app, worker, current, note, told, ui,
                            running, pause, frame>>
-----------------------------------------------------------------------------
AppCall == \/ InitFails \/ Unregister \/ Pause
           \/ \E cb \in Callback : Register(cb)
AppStep == InitDone \/ Opened(TRUE) \/ Opened(FALSE) \/ AppClose \/ AppClosed
           \/ Paused
WorkerStep == TaskStart \/ TaskData \/ CallbackReturns \/ TaskAnswers \/ TaskExit
NoteStep == NoteCheck \/ NoteTake \/ NoteQueue
UiStep == UiOpenAgain \/ UiOpen \/ UiOpenFails \/ UiOpened \/ UiClose
          \/ UiClosed \/ UiPause
TaskStep == \/ MajorStart \/ TransferStart \/ TransferLog \/ TransferData
            \/ LoopCheck \/ ReadNull \/ Transferred \/ MajorExit
            \/ \E f \in Frame : Read(f)

Next == AppCall \/ AppStep \/ WorkerStep \/ NoteStep \/ UiStep \/ TaskStep

(* Every thread runs, and a callback returns; the application need not call *)
(* anything.  frame_buffer_fb_read waits for at most 200 ms.                *)
Fairness == /\ WF_vars(AppStep) /\ WF_vars(WorkerStep) /\ WF_vars(NoteStep)
            /\ WF_vars(UiStep) /\ WF_vars(TaskStep)

Spec == Init /\ [][Next]_vars
FairSpec == Spec /\ Fairness
-----------------------------------------------------------------------------
(* Properties.                                                              *)

(* Every variable has its type, and the queues have room for what is sent.  *)
TypeOK ==
    /\ setting \in Settings
    /\ trs \in BOOLEAN
    /\ call \in {"idle", "init", "open", "close", "exit", "pause"}
    /\ callback \in Callback \cup {None} /\ current \in Frame \cup {None}
    /\ appRunning \in BOOLEAN
    /\ appTask \in {"none", "start", "idle", "callback", "answer"}
    /\ appQueue \in Seq({"data", "exit"}) /\ Len(appQueue) =< 10
    /\ appSem \in {0, 1}
    /\ note \in {"none", "sent", "checked", "taken", "queued", "answered"}
    /\ told \in BOOLEAN
    /\ ui \in {"idle", "open", "init", "close", "exit", "pause", "ok",
               "failed"}
    /\ state \in BOOLEAN /\ running \in BOOLEAN /\ pause \in BOOLEAN
    /\ task \in {"none", "start", "idle", "loop", "read", "sent"}
    /\ queue \in Seq({"start", "log", "data", "exit"}) /\ Len(queue) =< 10
    /\ sem \in {0, 1} /\ frame \in Frame \cup {None}

(* Frames are handed to CPU0 as FrameHandoff says: a callback works on the  *)
(* frame CPU1 waits for, and CPU1 frees it only when the callback is done.  *)
Handoff == INSTANCE FrameHandoff WITH
               NoFrame <- None,
               lent <- frame,
               used <- IF appTask = "callback" THEN current ELSE None

HandoffSpec == Handoff!Spec

(* A callback runs only while it is registered or a call about it is under  *)
(* way, with its counters there: once media_app_unregister_... has returned *)
(* the application may throw away what its callback uses.                   *)
Quiet == appTask = "callback" =>
             (trs \/ call # "idle") /\ callback # None /\ told

(* Between two calls both CPUs agree on whether frames are transferred, and *)
(* each task exists exactly when its flags say so; the task on CPU0 may     *)
(* have been left over from a call that CPU1 has failed.                    *)
InStep == call = "idle" =>
              /\ ~setting.early => trs = state
              /\ state = (task # "none")
              /\ appRunning = (appTask # "none")
              /\ trs => appRunning

(* What media_app_unregister_read_frame_callback returns BK_OK for.         *)
ClosedMeansClosed == call = "idle" /\ ~trs => ~state

(* Every call returns, and CPU0 gives every frame back, to an application   *)
(* that does not unregister too early: no thread waits for ever for another.*)
NobodyWaits == /\ ~setting.early /\ call # "idle" ~> call = "idle"
               /\ ~setting.early /\ frame # None ~> frame = None
=============================================================================
