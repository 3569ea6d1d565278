----------------------------- MODULE AudioElement -----------------------------
(***************************************************************************)
(* One element of an audio pipeline: its task and the application task     *)
(* that runs, resumes, pauses, stops and terminates it                     *)
(* (components/bk_audio/audio_pipeline/audio_element.c with the command    *)
(* queue of audio_event_iface.c).                                          *)
(*                                                                         *)
(* Both tasks read and write the fields of the element without a lock; the *)
(* application asks through a queue of commands and waits for bits of an   *)
(* event group.  A step is the code up to the next access that the other   *)
(* task can tell apart.  The element has open and process callbacks and    *)
(* writes to a ring buffer.                                                *)
(***************************************************************************)
EXTENDS Naturals, Sequences, FiniteSets

CONSTANTS
    QueueSize,   \* internal_queue_size: 5 in the code
    Uses,        \* the calls that the application makes
    Patient,     \* whether it lets the element start, and stop, before it goes on
    TimesOut     \* the waits that are allowed to run out

States == {"INIT", "INITIALIZING", "RUNNING", "PAUSED", "STOPPED", "FINISHED", "ERROR"}
Commands == {"STOP", "PAUSE", "RESUME", "DESTROY"}
Calls == Commands \cup {"RUN", "WAIT"}
Bits == {"STOPPED", "CREATED", "DESTROYED", "PAUSED", "RESUMED"}

ASSUME ElementAssumption ==
    /\ QueueSize \in Nat \ {0}
    /\ Uses \subseteq Calls /\ TimesOut \subseteq Calls
    /\ Patient \in BOOLEAN

VARIABLES
    el,         \* the fields of the element that both tasks use
    bits,       \* state_event
    cmds,       \* internal_queue
    aborted,    \* abort_write of the output ring buffer
    at,         \* the place of the element's task
    goal,       \* what it is about to make of the element
    back,       \* where its handler returns to
    call,       \* the place of the application's task
    asking,     \* the call it is in
    last        \* the last call that returned, with its result

task == <<at, goal, back>>
application == <<call, asking, last>>
vars == <<el, bits, cmds, aborted, task, application>>

Init ==
    /\ el = [state |-> "INIT", is_running |-> FALSE, is_open |-> FALSE,
             task_run |-> FALSE, stopping |-> FALSE, forever |-> FALSE]
    /\ bits = {} /\ cmds = <<>> /\ aborted = FALSE
    /\ at = "none" /\ goal = "INIT" /\ back = "loop"
    /\ call = "idle" /\ asking = "RUN" /\ last = <<"RUN", "FAIL">>
-----------------------------------------------------------------------------
(* The element's task: audio_element_task.                                  *)

Go(from, to) == at = from /\ at' = to /\ UNCHANGED <<goal, back, application>>

TaskStart ==
    /\ Go("created", "boot")
    /\ el' = [el EXCEPT !.task_run = TRUE]
    /\ bits' = bits \cup {"CREATED"}
    /\ UNCHANGED <<cmds, aborted>>

TaskReset ==
    /\ Go("boot", "unstop")
    /\ el' = [el EXCEPT !.state = "INIT", !.forever = TRUE]
    /\ UNCHANGED <<bits, cmds, aborted>>

TaskUnstop ==
    /\ Go("unstop", "loop")
    /\ bits' = bits \ {"STOPPED"}
    /\ UNCHANGED <<el, cmds, aborted>>

(* audio_event_iface_waiting_cmd_msg: the time to wait is fixed when the    *)
(* wait begins.                                                             *)
Await ==
    /\ cmds = <<>>
    /\ Go("loop", IF el.forever THEN "blocked" ELSE "process")
    /\ UNCHANGED <<el, bits, cmds, aborted>>

(* audio_element_on_cmd *)
Take ==
    /\ at \in {"loop", "blocked"} /\ cmds # <<>>
    /\ cmds' = Tail(cmds)
    /\ at' = Head(cmds) /\ back' = "process"
    /\ UNCHANGED <<el, bits, aborted, goal, application>>

OnPause ==
    /\ Go("PAUSE", "pausing")
    /\ el' = [el EXCEPT !.state = "PAUSED"]
    /\ UNCHANGED <<bits, cmds, aborted>>

(* Faulty form: the element stays open while it is paused.                  *)
OnPauseKeepsOpen ==
    /\ Go("pausing", "paused")
    /\ el' = [el EXCEPT !.forever = TRUE]
    /\ UNCHANGED <<bits, cmds, aborted>>

OnPauseClose ==
    /\ Go("pausing", "paused")
    /\ el' = [el EXCEPT !.is_open = FALSE, !.forever = TRUE]
    /\ UNCHANGED <<bits, cmds, aborted>>

OnPauseDone ==
    /\ Go("paused", "process")
    /\ el' = [el EXCEPT !.is_running = FALSE]
    /\ bits' = bits \cup {"PAUSED"}
    /\ UNCHANGED <<cmds, aborted>>

(* The three ways to give up: on_cmd_stop, on_cmd_finish, on_cmd_error.     *)
OnStop ==
    /\ at = "STOP"
    /\ \/ /\ el.state \notin {"FINISHED", "STOPPED"}
          /\ at' = "close" /\ goal' = "STOPPED"
          /\ UNCHANGED el
       \/ /\ el.state = "STOPPED" /\ ~el.is_running
          /\ el' = [el EXCEPT !.stopping = FALSE]
          /\ at' = back
          /\ UNCHANGED goal
       \/ /\ el.state = "FINISHED" \/ (el.state = "STOPPED" /\ el.is_running)
          /\ el' = [el EXCEPT !.state = "STOPPED"]
          /\ at' = "quiet" /\ goal' = "STOPPED"
    /\ UNCHANGED <<bits, cmds, aborted, back, application>>

OnFinish ==
    /\ at = "finish"
    /\ IF el.state \in {"ERROR", "STOPPED"} THEN at' = back /\ UNCHANGED goal
                                            ELSE at' = "close" /\ goal' = "FINISHED"
    /\ UNCHANGED <<el, bits, cmds, aborted, back, application>>

OnError ==
    /\ at = "error"
    /\ IF el.state = "STOPPED" THEN at' = back /\ UNCHANGED goal
                               ELSE at' = "close" /\ goal' = "ERROR"
    /\ UNCHANGED <<el, bits, cmds, aborted, back, application>>

Close ==
    /\ Go("close", "settle")
    /\ el' = [el EXCEPT !.is_open = FALSE]
    /\ UNCHANGED <<bits, cmds, aborted>>

(* Faulty form: the bit is set before the element is marked as not running. *)
SettleSignals ==
    /\ Go("settle", "quiet")
    /\ el' = [el EXCEPT !.state = goal, !.forever = TRUE]
    /\ bits' = bits \cup {"STOPPED"}
    /\ UNCHANGED <<cmds, aborted>>

Settle ==
    /\ Go("settle", "quiet")
    /\ el' = [el EXCEPT !.state = goal, !.forever = TRUE]
    /\ UNCHANGED <<bits, cmds, aborted>>

Quiet ==
    /\ Go("quiet", "signal")
    /\ el' = [el EXCEPT !.is_running = FALSE,
                        !.stopping = IF goal = "STOPPED" THEN FALSE ELSE @]
    /\ UNCHANGED <<bits, cmds, aborted>>

Signal ==
    /\ Go("signal", back)
    /\ bits' = bits \cup {"STOPPED"}
    /\ UNCHANGED <<el, cmds, aborted>>

(* audio_element_on_cmd_resume with audio_element_process_init.             *)
OnResume ==
    /\ at = "RESUME" /\ at' = "wake"
    /\ goal' = IF el.state = "RUNNING" THEN "RUNNING" ELSE "INITIALIZING"
    /\ aborted' = (aborted /\ el.state \in {"INIT", "RUNNING", "PAUSED"})
    /\ UNCHANGED <<el, bits, cmds, back, application>>

Wake ==
    /\ Go("wake", "resumed")
    /\ el' = [el EXCEPT !.is_running = TRUE]
    /\ UNCHANGED <<bits, cmds, aborted>>

Resumed ==
    /\ Go("resumed", IF goal = "RUNNING" THEN back ELSE "open")
    /\ bits' = bits \cup {"RESUMED"}
    /\ UNCHANGED <<el, cmds, aborted>>

Open ==
    /\ Go("open", "opening")
    /\ el' = [el EXCEPT !.is_open = TRUE, !.state = "INITIALIZING"]
    /\ UNCHANGED <<bits, cmds, aborted>>

OpenSucceeds ==
    /\ Go("opening", "opened")
    /\ el' = [el EXCEPT !.state = "RUNNING"]
    /\ UNCHANGED <<bits, cmds, aborted>>

OpenFails ==
    /\ at = "opening"
    /\ \/ at' = "STOP" /\ UNCHANGED el
       \/ at' = "error" /\ el' = [el EXCEPT !.state = "ERROR"]
    /\ back' = IF back = "process" THEN "unopened" ELSE "unopened_again"
    /\ UNCHANGED <<bits, cmds, aborted, goal, application>>

NotOpened ==
    /\ at \in {"unopened", "unopened_again"}
    /\ aborted' = TRUE
    /\ el' = [el EXCEPT !.is_running = FALSE]
    /\ at' = IF at = "unopened" THEN "failed" ELSE "loop"
    /\ UNCHANGED <<bits, cmds, goal, back, application>>

(* A command that failed.                                                   *)
Failed ==
    /\ Go("failed", "process")
    /\ bits' = bits \cup {"STOPPED"}
    /\ UNCHANGED <<el, cmds, aborted>>

Opened ==
    /\ Go("opened", "unstopped")
    /\ el' = [el EXCEPT !.forever = FALSE]
    /\ UNCHANGED <<bits, cmds, aborted>>

Unstopped ==
    /\ Go("unstopped", back)
    /\ bits' = bits \ {"STOPPED"}
    /\ UNCHANGED <<el, cmds, aborted>>

(* Faulty form: only the state counts.                                      *)
ProcessUnchecked ==
    /\ Go("process", IF el.state \in {"INIT", "INITIALIZING"} THEN "loop" ELSE "busy")
    /\ UNCHANGED <<el, bits, cmds, aborted>>

(* audio_element_process_running *)
Process ==
    /\ Go("process", IF el.state \in {"INIT", "INITIALIZING"} \/ ~el.is_running
                     THEN "loop" ELSE "busy")
    /\ UNCHANGED <<el, bits, cmds, aborted>>

(* Data, AEL_IO_TIMEOUT or an unknown result; done; failed; aborted.        *)
ProcessReturns ==
    /\ at = "busy" /\ back' = "loop"
    /\ \/ at' = "loop"
       \/ at' = IF el.state = "INIT" THEN "RESUME" ELSE "finish"
       \/ at' = "error"
       \/ aborted /\ at' = "STOP"
    /\ UNCHANGED <<el, bits, cmds, aborted, goal, application>>

(* AEL_MSG_CMD_DESTROY, and the end of the task.                            *)
OnDestroy ==
    /\ Go("DESTROY", "destroyed")
    /\ el' = [el EXCEPT !.is_running = FALSE]
    /\ UNCHANGED <<bits, cmds, aborted>>

TaskBreaks ==
    /\ Go("destroyed", "leave")
    /\ bits' = bits \cup {"STOPPED"}
    /\ UNCHANGED <<el, cmds, aborted>>

TaskCloses ==
    /\ Go("leave", "end")
    /\ el' = [el EXCEPT !.is_open = FALSE,
                        !.state = IF el.is_open THEN "STOPPED" ELSE @]
    /\ UNCHANGED <<bits, cmds, aborted>>

TaskEnds ==
    /\ Go("end", "report")
    /\ el' = [el EXCEPT !.stopping = FALSE, !.task_run = FALSE]
    /\ UNCHANGED <<bits, cmds, aborted>>

TaskReports ==
    /\ Go("report", "delete")
    /\ bits' = bits \cup {"STOPPED", "RESUMED", "DESTROYED"}
    /\ UNCHANGED <<el, cmds, aborted>>

(* el->audio_thread = NULL; rtos_delete_thread                              *)
TaskDeleted == Go("delete", "none") /\ UNCHANGED <<el, bits, cmds, aborted>>
-----------------------------------------------------------------------------
(* The application's task.                                                  *)

(* From the creation of the task, or the command to resume, to the end of   *)
(* audio_element_on_cmd_resume.                                             *)
Starting ==
    \/ at \in {"created", "boot", "unstop", "RESUME", "wake", "resumed", "open", "opening",
              "opened", "unstopped", "unopened", "unopened_again", "failed"}
    \/ /\ at \in {"STOP", "error", "close", "settle", "quiet", "signal"}
       /\ back \in {"unopened", "unopened_again"}

(* A new call.  A patient application makes it when the element has         *)
(* started, and waits for the end of each stop.                             *)
Ready(c) ==
    /\ call = "idle" /\ c \in Uses
    /\ Patient => /\ last[1] = "STOP" => c = "WAIT"
                  /\ ~Starting

Enter(c, place) == /\ call = "idle"
                   /\ call' = place /\ asking' = c
                   /\ UNCHANGED <<task, last>>

Step(from, to) == call = from /\ call' = to /\ UNCHANGED <<task, asking, last>>

Returns(c, result) == /\ call' = "idle" /\ last' = <<c, result>>
                      /\ UNCHANGED <<task, asking>>

(* The bit that answers a call.                                             *)
Answer(c) == CASE c = "RUN"     -> "CREATED"
               [] c = "RESUME"  -> "RESUMED"
               [] c = "PAUSE"   -> "PAUSED"
               [] c = "DESTROY" -> "DESTROYED"
               [] c = "WAIT"    -> "STOPPED"

(* Clear the bit of the answer, then send the command.                      *)
Asks(c) == Enter(c, "send") /\ bits' = bits \ {Answer(c)} /\ UNCHANGED el

(* audio_element_run, where the task does not exist yet.                    *)
Run ==
    /\ Ready("RUN") /\ ~el.task_run /\ at = "none"
    /\ asking' = "RUN" /\ cmds' = <<>>
    /\ bits' = bits \ {"CREATED"}
    /\ \/ at' = "created" /\ call' = "wait" /\ UNCHANGED <<el, last>>
       \/ /\ el' = [el EXCEPT !.state = "ERROR"]
          /\ call' = "idle" /\ last' = <<"RUN", "FAIL">> /\ UNCHANGED at
    /\ UNCHANGED <<aborted, goal, back>>

Resume ==
    /\ Ready("RESUME")
    /\ \/ /\ ~el.task_run \/ el.state = "ERROR"
          /\ Returns("RESUME", "FAIL") /\ UNCHANGED <<el, bits>>
       \/ /\ el.task_run /\ el.state \in {"RUNNING", "FINISHED"}
          /\ Returns("RESUME", "OK") /\ UNCHANGED <<el, bits>>
       \/ /\ el.task_run /\ el.state \notin {"RUNNING", "FINISHED", "ERROR"}
          /\ Asks("RESUME")
    /\ UNCHANGED <<cmds, aborted>>

Pause ==
    /\ Ready("PAUSE")
    /\ \/ ~el.task_run /\ Returns("PAUSE", "FAIL") /\ UNCHANGED <<el, bits>>
       \/ /\ el.task_run /\ el.state \in {"PAUSED", "STOPPED", "FINISHED", "ERROR"}
          /\ Enter("PAUSE", "force") /\ UNCHANGED <<el, bits>>
       \/ /\ el.task_run /\ el.state \in {"INIT", "INITIALIZING", "RUNNING"}
          /\ Asks("PAUSE")
    /\ UNCHANGED <<cmds, aborted>>

PauseForces ==
    /\ call = "force" /\ Returns("PAUSE", "OK")
    /\ el' = [el EXCEPT !.state = "PAUSED"]
    /\ UNCHANGED <<bits, cmds, aborted>>

Terminate ==
    /\ Ready("DESTROY")
    /\ \/ ~el.task_run /\ Returns("DESTROY", "OK") /\ UNCHANGED <<el, bits>>
       \/ el.task_run /\ Asks("DESTROY")
    /\ UNCHANGED <<cmds, aborted>>

(* Faulty form: it does not matter whether the element is running.          *)
StopAlways ==
    /\ Ready("STOP")
    /\ \/ ~el.task_run /\ Returns("STOP", "FAIL")
       \/ el.task_run /\ Enter("STOP", "abort")
    /\ UNCHANGED <<el, bits, cmds, aborted>>

(* audio_element_stop *)
Stop ==
    /\ Ready("STOP")
    /\ \/ ~el.task_run /\ Returns("STOP", "FAIL")
       \/ el.task_run /\ ~el.is_running /\ Enter("STOP", "mark")
       \/ el.task_run /\ el.is_running /\ Enter("STOP", "abort")
    /\ UNCHANGED <<el, bits, cmds, aborted>>

StopMarks ==
    /\ call = "mark" /\ Returns("STOP", "OK")
    /\ bits' = bits \cup {"STOPPED"}
    /\ UNCHANGED <<el, cmds, aborted>>

(* Faulty form: the ring buffer is left alone.                              *)
StopAbortsNothing ==
    /\ Step("abort", "look")
    /\ UNCHANGED <<el, bits, cmds, aborted>>

StopAborts ==
    /\ Step("abort", "look")
    /\ aborted' = TRUE
    /\ UNCHANGED <<el, bits, cmds>>

StopLooks ==
    /\ Step("look", IF el.state = "RUNNING" THEN "clear" ELSE "stop")
    /\ UNCHANGED <<el, bits, cmds, aborted>>

StopClears ==
    /\ Step("clear", "stop")
    /\ bits' = bits \ {"STOPPED"}
    /\ UNCHANGED <<el, cmds, aborted>>

StopAsks ==
    /\ call = "stop"
    /\ LET awake == IF el.state = "PAUSED" THEN FALSE ELSE el.forever IN
       IF el.stopping
       THEN /\ Returns("STOP", "OK")
            /\ el' = [el EXCEPT !.forever = awake]
       ELSE /\ Step("stop", "send")
            /\ el' = [el EXCEPT !.forever = awake, !.stopping = TRUE]
    /\ UNCHANGED <<bits, cmds, aborted>>

(* Faulty forms: no command waits for its answer; room does not matter.     *)
SendOnly ==
    /\ call = "send" /\ Len(cmds) < QueueSize
    /\ cmds' = Append(cmds, asking)
    /\ Returns(asking, "OK")
    /\ UNCHANGED <<el, bits, aborted>>

SendAnyway ==
    /\ call = "send"
    /\ cmds' = Append(cmds, asking)
    /\ IF asking = "STOP" THEN Returns("STOP", "OK") ELSE Step("send", "wait")
    /\ UNCHANGED <<el, bits, aborted>>

(* audio_event_iface_cmd: does not wait for room in the queue.              *)
Send ==
    /\ call = "send" /\ Len(cmds) < QueueSize
    /\ cmds' = Append(cmds, asking)
    /\ IF asking = "STOP" THEN Returns("STOP", "OK") ELSE Step("send", "wait")
    /\ UNCHANGED <<el, bits, aborted>>

SendFails ==
    /\ call = "send" /\ Len(cmds) = QueueSize
    /\ Returns(asking, "FAIL")
    /\ el' = [el EXCEPT !.stopping = IF asking = "STOP" THEN FALSE ELSE @]
    /\ UNCHANGED <<bits, cmds, aborted>>

(* audio_pipeline_wait_for_stop, after audio_pipeline_stop.                 *)
WaitForStop ==
    /\ Ready("WAIT") /\ last[1] = "STOP" /\ Enter("WAIT", "wait")
    /\ UNCHANGED <<el, bits, cmds, aborted>>

Answered ==
    /\ call = "wait" /\ Answer(asking) \in bits
    /\ IF asking = "WAIT" THEN Step("wait", "reset") ELSE Returns(asking, "OK")
    /\ UNCHANGED <<el, bits, cmds, aborted>>

(* The waits last for seconds: only a callback can take that long.          *)
TimedOut ==
    /\ call = "wait" /\ Answer(asking) \notin bits
    /\ asking \in TimesOut /\ at \in {"opening", "busy"}
    /\ Returns(asking, "FAIL")
    /\ UNCHANGED <<el, bits, cmds, aborted>>

(* audio_element_reset_state *)
ResetState ==
    /\ call = "reset" /\ Returns("WAIT", "OK")
    /\ el' = [el EXCEPT !.state = "INIT"]
    /\ UNCHANGED <<bits, cmds, aborted>>

(* audio_element_deinit frees the element after the call of terminate.      *)
Deinit ==
    /\ last[1] = "DESTROY" /\ Enter("DESTROY", "freed")
    /\ UNCHANGED <<el, bits, cmds, aborted>>
-----------------------------------------------------------------------------
TaskStep ==
    \/ TaskStart \/ TaskReset \/ TaskUnstop \/ Await \/ Take
    \/ OnPause \/ OnPauseClose \/ OnPauseDone
    \/ OnStop \/ OnFinish \/ OnError \/ Close \/ Settle \/ Quiet \/ Signal
    \/ OnResume \/ Wake \/ Resumed \/ Open \/ OpenSucceeds \/ OpenFails
    \/ NotOpened \/ Failed \/ Opened \/ Unstopped \/ Process
    \/ OnDestroy \/ TaskBreaks \/ TaskCloses \/ TaskEnds \/ TaskReports \/ TaskDeleted

NewCall == Run \/ Resume \/ Pause \/ Stop \/ WaitForStop \/ Terminate \/ Deinit

CallStep ==
    \/ PauseForces \/ StopMarks \/ StopAborts \/ StopLooks \/ StopClears
    \/ StopAsks \/ Send \/ SendFails \/ Answered \/ TimedOut \/ ResetState

Next == TaskStep \/ ProcessReturns \/ NewCall \/ CallStep

Spec == Init /\ [][Next]_vars

(* The scheduler runs both tasks; a callback that waits for its ring buffer *)
(* returns when the buffer is aborted.  Nobody has to make a call.          *)
Fairness ==
    /\ WF_vars(TaskStep)
    /\ WF_vars(aborted /\ ProcessReturns)
    /\ WF_vars(CallStep /\ ~TimedOut)

FairSpec == Spec /\ Fairness

(* A process callback that always returns, as data keeps coming.            *)
KeepsFlowing == WF_vars(ProcessReturns)
-----------------------------------------------------------------------------
(* Every field, bit and command has its type, and the queue its size.       *)
TypeOK ==
    /\ el \in [state : States, is_running : BOOLEAN, is_open : BOOLEAN,
               task_run : BOOLEAN, stopping : BOOLEAN, forever : BOOLEAN]
    /\ bits \subseteq Bits /\ cmds \in Seq(Commands) /\ aborted \in BOOLEAN
    /\ Len(cmds) <= QueueSize
    /\ goal \in States /\ asking \in Calls /\ last \in Calls \X {"OK", "FAIL"}

(* Without waits that run out, no command is ever refused for lack of room. *)
NothingRefused == call = "send" => Len(cmds) < QueueSize

(* When the task sleeps until the next command, or has ended, the element   *)
(* is neither marked as running nor left open.                              *)
AsleepIsClosed ==
    at \in {"blocked", "none"} => ~el.is_running /\ ~el.is_open

(* The strengthening that is inductive, whatever the application calls and  *)
(* when.  Where the two tasks can stand, and what brought them there; what  *)
(* is_open, is_running and wait_time, which only the element's task sets    *)
(* (the application may only shorten the wait), are at each place of it;    *)
(* and what the state, which both tasks write, still says of is_open.       *)
Returning == {"loop", "process"}
Reopened == {"unopened", "unopened_again"}
Created == {"created", "boot", "unstop"}
Dead == {"end", "report", "delete", "none"}
Resuming == {"RESUME", "wake", "resumed", "open", "opening", "opened", "unstopped"}
GivingUp == {"STOP", "error", "close", "settle", "quiet", "signal"}
TaskPlaces ==
    {"loop", "blocked", "process", "busy", "PAUSE", "pausing", "paused", "finish",
     "unopened", "unopened_again", "failed", "DESTROY", "destroyed", "leave"}
    \cup Created \cup Dead \cup Resuming \cup GivingUp
StopPlaces == {"mark", "abort", "look", "clear", "stop"}

PlacesInv ==
    /\ at \in TaskPlaces /\ back \in Returning \cup Reopened
    /\ at \in Resuming \cup {"finish"} => back \in Returning
    /\ at \in {"close", "settle", "quiet"} => goal \in {"STOPPED", "FINISHED", "ERROR"}
    /\ call \in {"idle", "force", "send", "wait", "reset", "freed"} \cup StopPlaces
    /\ call = "send" => asking \in Commands
    /\ call \in StopPlaces => asking = "STOP"

(* Running means open, and an open element does not wait for ever.          *)
Settled == /\ el.is_running => el.is_open
           /\ el.forever => ~el.is_open

OpenInv ==
    /\ at \in {"loop", "process", "PAUSE", "RESUME", "DESTROY"} => Settled
    /\ at \in {"busy", "finish"} => Settled /\ el.is_open
    /\ at \in {"STOP", "error"} => IF back \in Returning THEN Settled ELSE el.is_open
    /\ at \in {"wake", "resumed"} /\ goal = "RUNNING" => el.is_open /\ ~el.forever
    /\ at \in {"opening", "opened", "unstopped"} => el.is_open
    /\ at = "unstopped" => ~el.forever
    /\ at \in {"settle", "quiet", "signal", "paused"} \cup Reopened => ~el.is_open
    /\ at = "signal" => ~el.is_running
    /\ at \in {"destroyed", "leave"} => ~el.is_running
    /\ at \in {"blocked", "failed"} \cup Created \cup Dead => ~el.is_open /\ ~el.is_running

StateInv ==
    /\ el.state = "RUNNING" => el.is_open \/ at = "settle"
    /\ el.state \in {"STOPPED", "FINISHED"} => ~el.is_open
    /\ at = "pausing" => el.state # "RUNNING"

IInv == TypeOK /\ PlacesInv /\ OpenInv /\ StateInv

(* The mark of audio_element_stop works: however its calls cross with an    *)
(* abort that stops the element first, there is never more than one stop    *)
(* command in the queue; and the mark is gone when the task has nothing     *)
(* left to do: left behind, it would swallow the next stop.                 *)
StopMarked ==
    /\ Cardinality({i \in DOMAIN cmds : cmds[i] = "STOP"}) <= 1
    /\ at = "blocked" /\ cmds = <<>> /\ call \notin {"stop", "send"} => ~el.stopping

(* Once audio_element_pause has reported success, process is not called     *)
(* until the application asks for something else; and                       *)
(* audio_pipeline_wait_stop ends only when the element has stopped.         *)
AnsweredIsQuiet ==
    /\ last = <<"PAUSE", "OK">> /\ call = "idle" => at # "busy"
    /\ call = "reset" => ~el.is_running

(* An element whose last resume reported success does not come to rest      *)
(* paused: no earlier pause is left to take effect.                         *)
ResumedKeepsRunning ==
    last = <<"RESUME", "OK">> /\ call = "idle" /\ at = "blocked" => el.state # "PAUSED"

(* The wait of audio_pipeline_wait_for_stop, "until all the Elements in the *)
(* pipeline actually stop" (audio_pipeline.h), comes to its end.            *)
WaitReturns == call = "wait" /\ asking = "WAIT" ~> call # "wait"

(* A stop that was asked for takes effect, though process may be waiting    *)
(* for its ring buffer without a timeout; and the other calls are answered, *)
(* if process always comes back.                                            *)
CommandsTakeEffect ==
    /\ el.stopping ~> ~el.is_running
    /\ KeepsFlowing => (call = "wait" /\ asking # "WAIT" ~> call = "idle")

(* The protocol of the callbacks.  After a failed open, is_open stays set   *)
(* until the handler of the failure has called close.                       *)
Phase ==
    IF at = "opening" THEN "opening"
    ELSE IF at = "busy" THEN "processing"
    ELSE IF ~el.is_open THEN "closed"
    ELSE IF Starting /\ at \in {"STOP", "error", "close"} THEN "failed"
    ELSE "open"

(* An open element is not opened again; this is the application's part of   *)
(* the protocol of the callbacks, which CallbacksSpec includes.             *)
NeverReopened == at = "open" => ~el.is_open

Callbacks == INSTANCE ElementCallbacks WITH phase <- Phase
CallbacksSpec == Callbacks!Spec
=============================================================================
