------------------------------ MODULE Storage -------------------------------
(***************************************************************************)
(* Pictures and videos on the SD card (media_app_storage_enable, capture   *)
(* and save of app/media_app.c, storage/storage_major_act.c and            *)
(* storage/storage_app_act.c of components/multimedia).                    *)
(*                                                                         *)
(* The application and its storage task run on CPU0, with the mailbox      *)
(* thread of CPU0 between CPU1 and the task; on CPU1 media_ui handles the  *)
(* requests and hands most of them on to its own storage task, which       *)
(* answers them.  Requests and notifications between the CPUs are          *)
(* RemoteCall: each arrives once, and its caller waits for the answer.     *)
(***************************************************************************)
EXTENDS Naturals, Sequences

CONSTANTS Name,       \* the names an application gives
          AutoName,       \* the name of a file of an automatic save
          Frame,      \* what frame_buffer_fb_read returns
          None,       \* NULL
          QueueSize,  \* of either queue
          Hasty       \* kinds of application: those that call again at once

ASSUME StorageAssumption == /\ None \notin Name \cup {AutoName} \cup Frame
                            /\ QueueSize \in Nat \ {0}
                            /\ Hasty \subseteq BOOLEAN

VARIABLES
    hasty,                          \* never changes
    stor,                           \* media_modules_state->stor_state
    call, target,                   \* the call under way, the name it is given
    req, reply,                     \* what CPU1 is asked, how far that is
    appState, appCapture, appFrame, \* storage_app_info on CPU0
    autoSave, name,                 \* its auto_save; capture_name
    appTask, appQueue,              \* the storage task of CPU0, its queue
    picture,                        \* the name of the last picture written
    note,                           \* the frame notification to CPU0
    state, capture, sem,            \* storage_major_info, storage_major_sem
    task, queue,                    \* the storage task of CPU1, its queue
    frame                           \* its variable frame

caller == <<stor, call, target>>
wire == <<req, reply>>
info == <<appState, appCapture, appFrame, autoSave>>
worker == <<appTask, appQueue>>
major == <<state, capture, sem>>
thread == <<task, queue, frame>>
vars == <<hasty, caller, wire, info, name, worker, picture, note, major,
          thread>>

Init == /\ hasty \in Hasty
        /\ stor = "disabled" /\ call = "idle" /\ target = None
        /\ req = "none" /\ reply = "none"
        /\ appState = FALSE /\ appCapture = FALSE /\ appFrame = None
        /\ autoSave = FALSE /\ name = None
        /\ appTask = "none" /\ appQueue = <<>> /\ picture = None
        /\ note = "none"
        /\ state = FALSE /\ capture = FALSE /\ sem = 0
        /\ task = "none" /\ queue = <<>> /\ frame = None

(* The places of the task of CPU1 in a video, and of either task in what it *)
(* does after the answer that lets the application go on.                   *)
Saving == {"save", "loop", "read", "saved"}

Settled == /\ task \notin {"captured", "save", "leave"}
           /\ appTask \notin {"name", "leave"}
           /\ \A i \in 1 .. Len(appQueue) : appQueue[i] # "exit"
-----------------------------------------------------------------------------
(* The calls of the application.  A call that finds its work done returns   *)
(* at once, which changes nothing.                                          *)

Ask(request) == req' = request /\ reply' = "asked"

(* storage_app_task_open_handle.                                            *)
AppOpen == IF appState
           THEN UNCHANGED <<info, worker>>
           ELSE /\ appState' = TRUE /\ appCapture' = FALSE /\ appFrame' = None
                /\ autoSave' = FALSE
                /\ IF appTask = "none"
                   THEN appTask' = "idle" /\ appQueue' = <<>>
                   ELSE UNCHANGED worker

(* What a capture or a save asks of CPU1, once the storage is open.         *)
AskFor(op, n) == /\ name' = n
                 /\ Ask(IF op = "auto" THEN "save" ELSE op)

MayCall == call = "idle" /\ (hasty \/ Settled)

Enable == /\ MayCall /\ stor # "enabled"
          /\ call' = "enable" /\ AppOpen /\ Ask("open")
          /\ UNCHANGED <<hasty, stor, target, name, picture, note, major,
                         thread>>

(* media_app_capture, media_app_save_start and media_app_save_auto.         *)
Begin(op, n) ==
    /\ MayCall /\ (stor = "running" => op = "capture")
    /\ call' = op /\ target' = n /\ picture' = None
    /\ IF stor = "disabled"
       THEN AppOpen /\ Ask("open") /\ UNCHANGED name
       ELSE /\ AskFor(op, n)
            /\ autoSave' = (autoSave \/ op = "auto")
            /\ UNCHANGED <<appState, appCapture, appFrame, worker>>
    /\ UNCHANGED <<hasty, stor, note, major, thread>>

Opened ==
    /\ req = "open" /\ reply = "ok"
    /\ stor' = "enabled"
    /\ IF call = "enable"
       THEN /\ call' = "idle" /\ req' = "none" /\ reply' = "none"
            /\ UNCHANGED <<name, autoSave>>
       ELSE /\ AskFor(call, target)
            /\ autoSave' = (autoSave \/ call = "auto")
            /\ UNCHANGED call
    /\ UNCHANGED <<hasty, target, appState, appCapture, appFrame, worker,
                   picture, note, major, thread>>

Begun == /\ req \in {"capture", "save"} /\ reply \in {"ok", "failed"}
         /\ stor' = IF reply = "ok" THEN "running" ELSE stor
         /\ call' = "idle" /\ target' = None
         /\ req' = "none" /\ reply' = "none"
         /\ UNCHANGED <<hasty, info, name, worker, picture, note, major,
                        thread>>

(* Faulty form: CPU0 lets go of the file before CPU1 has stopped.           *)
StopLetsGo == /\ MayCall /\ stor = "running"
              /\ call' = "stop" /\ Ask("stop")
              /\ appCapture' = FALSE
              /\ name' = IF appCapture THEN None ELSE name
              /\ UNCHANGED <<hasty, stor, target, appState, appFrame, autoSave,
                             worker, picture, note, major, thread>>

Stop == /\ MayCall /\ stor = "running"
        /\ call' = "stop" /\ Ask("stop")
        /\ UNCHANGED <<hasty, stor, target, info, name, worker, picture, note,
                       major, thread>>

(* CPU1 has answered; storage_save_video_exit_handle.                       *)
Stopped == /\ req = "stop" /\ reply = "ok"
           /\ appCapture' = FALSE
           /\ name' = IF appCapture THEN None ELSE name
           /\ stor' = "enabled" /\ call' = "idle"
           /\ req' = "none" /\ reply' = "none"
           /\ UNCHANGED <<hasty, target, appState, appFrame, autoSave, worker,
                          picture, note, major, thread>>

Close == /\ MayCall /\ stor # "disabled"
         /\ call' = "close" /\ Ask("close")
         /\ UNCHANGED <<hasty, stor, target, info, name, worker, picture, note,
                        major, thread>>

(* Faulty form: the queue is taken to have room.                            *)
AcceptsAll(t, q) == t # "none"

(* storage_app_task_send_msg and storage_major_task_send_msg: neither waits  *)
(* for room in the queue.                                                   *)
Accepts(t, q) == t # "none" /\ Len(q) < QueueSize

(* CPU1 has answered; storage_app_task_close_handle, which may fail.        *)
Closed == /\ req = "close" /\ reply = "ok"
          /\ IF appState /\ Accepts(appTask, appQueue)
             THEN appQueue' = Append(appQueue, "exit")
             ELSE UNCHANGED appQueue
          /\ stor' = IF appState /\ ~Accepts(appTask, appQueue)
                     THEN stor ELSE "disabled"
          /\ call' = "idle" /\ req' = "none" /\ reply' = "none"
          /\ UNCHANGED <<hasty, target, info, name, appTask, picture, note,
                         major, thread>>
-----------------------------------------------------------------------------
(* The mailbox thread of CPU0.  What goes wrong is answered with an error,  *)
(* which CPU1 does not look at.                                             *)

Refused == note' = "answered" /\ UNCHANGED <<appCapture, appFrame, appQueue>>

(* Faulty form: the answer does not wait for the task.                      *)
TakenAnswered(type) == /\ appCapture' = TRUE /\ appFrame' = frame
                       /\ appQueue' = Append(appQueue, type)
                       /\ note' = "answered"

Taken(type) == /\ appCapture' = TRUE /\ appFrame' = frame
               /\ IF Accepts(appTask, appQueue)
                  THEN appQueue' = Append(appQueue, type) /\ note' = "queued"
                  ELSE note' = "answered" /\ UNCHANGED appQueue

CaptureNotified ==
    /\ note = "capture"
    /\ IF appCapture \/ name = None THEN Refused ELSE Taken("capture")
    /\ UNCHANGED <<hasty, caller, wire, appState, autoSave, name, appTask,
                   picture, major, thread>>

SaveNotified ==
    /\ note = "save"
    /\ \/ /\ ~appState \/ name = None
          /\ Refused
       \/ /\ appState /\ name # None /\ appFrame = None
          /\ Taken("save")
       \/ /\ appState /\ name # None /\ appFrame # None
          /\ appCapture' = TRUE /\ note' = "answered"
          /\ UNCHANGED <<appFrame, appQueue>>
    /\ UNCHANGED <<hasty, caller, wire, appState, autoSave, name, appTask,
                   picture, major, thread>>
-----------------------------------------------------------------------------
(* The storage task of CPU0.                                                *)

AppTakes(type) == /\ appTask = "idle" /\ appQueue # <<>>
                  /\ Head(appQueue) = type
                  /\ appQueue' = Tail(appQueue)

(* Without a frame, or with capture_state reset meanwhile, there is no      *)
(* answer.                                                                  *)
TaskData(type) == /\ AppTakes(type)
                  /\ appTask' = IF appFrame # None /\ appCapture
                                THEN type ELSE "idle"
                  /\ UNCHANGED <<hasty, caller, wire, info, name, picture, note,
                                 major, thread>>

PictureWritten == /\ appTask = "capture"
                  /\ picture' = name
                  /\ appFrame' = None /\ appCapture' = FALSE
                  /\ appTask' = "picture"
                  /\ UNCHANGED <<hasty, caller, wire, appState, autoSave, name,
                                 appQueue, note, major, thread>>

PictureAnswered == /\ appTask = "picture"
                   /\ note' = "answered"
                   /\ appTask' = "name"
                   /\ UNCHANGED <<hasty, caller, wire, info, name, appQueue,
                                  picture, major, thread>>

NameFreed == /\ appTask = "name"
             /\ name' = None
             /\ appTask' = "idle"
             /\ UNCHANGED <<hasty, caller, wire, info, appQueue, picture, note,
                            major, thread>>

(* An automatic save begins a new file when its time is up and an I frame   *)
(* has come.                                                                *)
VideoWritten == /\ appTask = "save"
                /\ \/ autoSave /\ name' = AutoName
                   \/ UNCHANGED name
                /\ appFrame' = None
                /\ appTask' = "video"
                /\ UNCHANGED <<hasty, caller, wire, appState, appCapture,
                               autoSave, appQueue, picture, note, major,
                               thread>>

VideoAnswered == /\ appTask = "video"
                 /\ note' = "answered"
                 /\ appTask' = "idle"
                 /\ UNCHANGED <<hasty, caller, wire, info, name, appQueue,
                                picture, major, thread>>

TaskExit == /\ AppTakes("exit")
            /\ name' = None
            /\ appState' = FALSE /\ appCapture' = FALSE
            /\ appTask' = "leave"
            /\ UNCHANGED <<hasty, caller, wire, appFrame, autoSave, picture,
                           note, major, thread>>

TaskLeaves == /\ appTask = "leave"
              /\ appTask' = "none" /\ appQueue' = <<>>
              /\ UNCHANGED <<hasty, caller, wire, info, name, picture, note,
                             major, thread>>
-----------------------------------------------------------------------------
(* media_ui of CPU1.                                                        *)

(* What cannot be queued nobody answers.                                    *)
Post(type) == /\ reply' = "posted"
              /\ queue' = IF Accepts(task, queue)
                         THEN Append(queue, type)
                         ELSE queue

UiOpen == /\ req = "open" /\ reply = "asked"
          /\ reply' = "ok"
          /\ IF state
             THEN UNCHANGED <<major, task, queue>>
             ELSE /\ state' = TRUE /\ capture' = FALSE
                  /\ UNCHANGED sem
                  /\ IF task = "none"
                     THEN task' = "idle" /\ queue' = <<>>
                     ELSE UNCHANGED <<task, queue>>
          /\ UNCHANGED <<hasty, caller, req, info, name, worker, picture, note,
                         frame>>

UiClose == /\ req = "close" /\ reply = "asked"
           /\ IF state
              THEN capture' = FALSE /\ Post("exit")
              ELSE reply' = "ok" /\ UNCHANGED <<capture, queue>>
           /\ UNCHANGED <<hasty, caller, req, info, name, worker, picture, note,
                          state, sem, task, frame>>

(* Busy is answered with BK_OK.                                             *)
UiCapture == /\ req = "capture" /\ reply = "asked"
             /\ \/ ~state /\ reply' = "failed" /\ UNCHANGED queue
                \/ state /\ capture /\ reply' = "ok" /\ UNCHANGED queue
                \/ state /\ ~capture /\ Post("capture")
             /\ UNCHANGED <<hasty, caller, req, info, name, worker, picture,
                            note, major, task, frame>>

UiSave == /\ req = "save" /\ reply = "asked"
          /\ \/ ~state /\ reply' = "failed" /\ UNCHANGED <<capture, queue>>
             \/ /\ state /\ capture
                /\ reply' = "ok" /\ UNCHANGED <<capture, queue>>
             \/ state /\ ~capture /\ capture' = TRUE /\ Post("save")
          /\ UNCHANGED <<hasty, caller, req, info, name, worker, picture, note,
                         state, sem, task, frame>>

(* Faulty form: the answer does not wait for the task.                      *)
UiStopAnswered ==
    /\ req = "stop" /\ reply = "asked"
    /\ capture' = FALSE /\ reply' = "ok"
    /\ UNCHANGED <<hasty, caller, req, info, name, worker, picture, note, state,
                   sem, thread>>

UiStop == /\ req = "stop" /\ reply = "asked"
          /\ IF capture
             THEN capture' = FALSE /\ Post("stop")
             ELSE reply' = "ok" /\ UNCHANGED <<capture, queue>>
          /\ UNCHANGED <<hasty, caller, req, info, name, worker, picture, note,
                         state, sem, task, frame>>
-----------------------------------------------------------------------------
(* The storage task of CPU1.                                                *)

Takes(type) == /\ task = "idle" /\ queue # <<>> /\ Head(queue) = type
               /\ queue' = Tail(queue)

CaptureBegins == /\ Takes("capture")
                 /\ capture' = TRUE
                 /\ task' = "capture"
                 /\ UNCHANGED <<hasty, caller, wire, info, name, worker,
                                picture, note, state, sem, frame>>

CaptureReadNull == /\ task = "capture"
                   /\ reply' = "failed"
                   /\ task' = "captured"
                   /\ UNCHANGED <<hasty, caller, req, info, name, worker,
                                  picture, note, major, queue, frame>>

CaptureRead(f) == /\ task = "capture"
                  /\ frame' = f /\ note' = "capture"
                  /\ task' = "shown"
                  /\ UNCHANGED <<hasty, caller, wire, info, name, worker,
                                 picture, major, queue>>

(* The frame is freed, whatever CPU0 has answered.                          *)
CaptureAnswered == /\ task = "shown" /\ note = "answered"
                   /\ frame' = None /\ note' = "none"
                   /\ reply' = "ok"
                   /\ task' = "captured"
                   /\ UNCHANGED <<hasty, caller, req, info, name, worker,
                                  picture, major, queue>>

CaptureEnds == /\ task = "captured"
               /\ capture' = FALSE
               /\ task' = "idle"
               /\ UNCHANGED <<hasty, caller, wire, info, name, worker, picture,
                              note, state, sem, queue, frame>>

SaveAnswers == /\ Takes("save")
               /\ reply' = "ok"
               /\ task' = "save"
               /\ UNCHANGED <<hasty, caller, req, info, name, worker, picture,
                              note, major, frame>>

SaveBegins == /\ task = "save"
              /\ capture' = TRUE
              /\ task' = "loop"
              /\ UNCHANGED <<hasty, caller, wire, info, name, worker, picture,
                             note, state, sem, queue, frame>>

(* Faulty form: nobody is told that the video has ended.                    *)
LoopEndsSilent ==
    /\ task = "loop"
    /\ task' = IF capture THEN "read" ELSE "idle"
    /\ UNCHANGED <<hasty, caller, wire, info, name, worker, picture, note,
                   major, queue, frame>>

LoopCheck == /\ task = "loop"
             /\ IF capture
                THEN task' = "read" /\ UNCHANGED sem
                ELSE task' = "idle" /\ sem' = 1
             /\ UNCHANGED <<hasty, caller, wire, info, name, worker, picture,
                            note, state, capture, queue, frame>>

SaveReadNull == /\ task = "read"
                /\ task' = "loop"
                /\ UNCHANGED <<hasty, caller, wire, info, name, worker, picture,
                               note, major, queue, frame>>

SaveRead(f) == /\ task = "read"
               /\ frame' = f /\ note' = "save"
               /\ task' = "saved"
               /\ UNCHANGED <<hasty, caller, wire, info, name, worker, picture,
                              major, queue>>

SaveAnswered == /\ task = "saved" /\ note = "answered"
                /\ frame' = None /\ note' = "none"
                /\ task' = "loop"
                /\ UNCHANGED <<hasty, caller, wire, info, name, worker, picture,
                               major, queue>>

StopAnswers == /\ Takes("stop") /\ sem = 1
               /\ sem' = 0
               /\ reply' = "ok"
               /\ UNCHANGED <<hasty, caller, req, info, name, worker, picture,
                              note, state, capture, task, frame>>

(* storage_major_deinit.                                                    *)
ExitAnswers == /\ Takes("exit")
               /\ sem' = 0 /\ state' = FALSE /\ capture' = FALSE
               /\ reply' = "ok"
               /\ task' = "leave"
               /\ UNCHANGED <<hasty, caller, req, info, name, worker, picture,
                              note, frame>>

(* The queue goes, with what was sent meanwhile.                            *)
Leaves == /\ task = "leave"
          /\ task' = "none" /\ queue' = <<>>
          /\ UNCHANGED <<hasty, caller, wire, info, name, worker, picture, note,
                         major, frame>>
-----------------------------------------------------------------------------
AppCall == \/ Enable \/ Stop \/ Close \/ Begin("auto", AutoName)
           \/ \E n \in Name, op \in {"capture", "save"} : Begin(op, n)
AppStep == Opened \/ Begun \/ Stopped \/ Closed
NoteStep == CaptureNotified \/ SaveNotified
WorkerStep == \/ TaskData("capture") \/ TaskData("save")
              \/ PictureWritten \/ PictureAnswered \/ NameFreed
              \/ VideoWritten \/ VideoAnswered \/ TaskExit \/ TaskLeaves
UiStep == UiOpen \/ UiClose \/ UiCapture \/ UiSave \/ UiStop
TaskStep == \/ CaptureBegins \/ CaptureReadNull \/ CaptureAnswered
            \/ CaptureEnds \/ SaveAnswers \/ SaveBegins \/ LoopCheck
            \/ SaveReadNull \/ SaveAnswered \/ StopAnswers \/ ExitAnswers
            \/ Leaves \/ \E f \in Frame : CaptureRead(f) \/ SaveRead(f)

Next == AppCall \/ AppStep \/ NoteStep \/ WorkerStep \/ UiStep \/ TaskStep

(* Every thread runs; the application need not call anything.               *)
Fairness == /\ WF_vars(AppStep) /\ WF_vars(NoteStep) /\ WF_vars(WorkerStep)
            /\ WF_vars(UiStep) /\ WF_vars(TaskStep)

Spec == Init /\ [][Next]_vars
FairSpec == Spec /\ Fairness
-----------------------------------------------------------------------------
(* Properties.                                                              *)

(* Every variable has its type; the queues have room for what is sent.      *)
TypeOK ==
    /\ hasty \in Hasty
    /\ stor \in {"disabled", "enabled", "running"}
    /\ call \in {"idle", "enable", "capture", "save", "auto", "stop", "close"}
    /\ target \in Name \cup {AutoName, None}
    /\ req \in {"none", "open", "close", "capture", "save", "stop"}
    /\ reply \in {"none", "asked", "posted", "ok", "failed"}
    /\ appState \in BOOLEAN /\ appCapture \in BOOLEAN
    /\ appFrame \in Frame \cup {None} /\ autoSave \in BOOLEAN
    /\ name \in Name \cup {AutoName, None}
    /\ picture \in Name \cup {AutoName, None}
    /\ appTask \in {"none", "idle", "capture", "picture", "name", "save",
                    "video", "leave"}
    /\ appQueue \in Seq({"capture", "save", "exit"})
    /\ Len(appQueue) =< QueueSize
    /\ note \in {"none", "capture", "save", "queued", "answered"}
    /\ state \in BOOLEAN /\ capture \in BOOLEAN /\ sem \in {0, 1}
    /\ task \in {"none", "idle", "capture", "shown", "captured", "leave"}
                    \cup Saving
    /\ queue \in Seq({"capture", "save", "stop", "exit"})
    /\ Len(queue) =< QueueSize
    /\ frame \in Frame \cup {None}

(* Frames are handed to CPU0 as FrameHandoff says: the card is written from *)
(* the frame CPU1 waits for, and CPU1 frees it only when that is done.      *)
Handoff == INSTANCE FrameHandoff WITH
               NoFrame <- None,
               lent <- frame,
               used <- IF appTask \in {"capture", "save"}
                       THEN appFrame ELSE None

HandoffSpec == Handoff!Spec

(* When a save_stop or a close is answered, the video has ended: CPU1 shows *)
(* no more frames, and CPU0 is done with the last one.                      *)
StopIsQuiet == req \in {"stop", "close"} /\ reply = "ok" =>
                   /\ task \notin Saving /\ note = "none" /\ ~capture
                   /\ appTask \notin {"save", "video"}

(* The storage task never writes for a patient application under a name     *)
(* that was freed; and a capture that returns BK_OK has written the picture *)
(* under the name it was given, unless a video is being saved.              *)
PictureTaken ==
    ~hasty => /\ appTask \in {"capture", "save"} => name # None
              /\ req = "capture" /\ reply = "ok" =>
                     task \in Saving \/ picture = target

(* Every call of a patient application returns.                             *)
CallsReturn == ~hasty /\ call # "idle" ~> call = "idle"

(* What "is already saving" says of the state running.                      *)
RunningMeansSaving == call = "idle" /\ stor = "running" => task \in Saving
=============================================================================
