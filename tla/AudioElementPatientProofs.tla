---------------------- MODULE AudioElementPatientProofs ----------------------
(***************************************************************************)
(* What holds of an audio element for a patient application: first while   *)
(* any of its waits may run out, so that commands are left in the queue;   *)
(* then, for a calm one, of whose waits none does.                         *)
(***************************************************************************)
EXTENDS AudioElementProofs, SequenceTheorems, FiniteSetTheorems

Waits(c) == call = "wait" /\ asking = c
Replied(c) == Waits(c) /\ Answer(c) \in bits
Pausing == at \in {"PAUSE", "pausing", "paused"}
Waking == at \in {"RESUME", "wake", "resumed"}
Reopening == \/ at \in {"open", "opening", "opened", "unstopped", "failed"}
             \/ at \in Reopened
             \/ at \in GivingUp /\ back \in Reopened

(* A queue in which a resume waits, and one in which nothing is behind it.  *)
HasResume(q) == \E i \in 1 .. Len(q) : q[i] = "RESUME"
ResumeLast(q) == \A i \in 1 .. Len(q) : q[i] = "RESUME" => i = Len(q)

(* A resume in the queue is the last command of it, and the application     *)
(* waits for it; or it was left behind when the task ended.                 *)
ResumeInv ==
    /\ ResumeLast(cmds)
    /\ HasResume(cmds) => \/ Waits("RESUME") /\ "RESUMED" \notin bits
                          \/ /\ at \in {"delete", "none"}
                             /\ call \notin StopPlaces \cup {"send"}
    /\ call = "send" /\ asking = "RESUME" /\ "RESUMED" \in bits =>
         at \in {"delete", "none"}

(* While an element starts, its application waits for it.                   *)
StartInv ==
    /\ at \in Created => Waits("RUN") \/ (call = "idle" /\ last[1] = "RUN")
    /\ Waking => Waits("RESUME") /\ "RESUMED" \notin bits /\ ~HasResume(cmds)
    /\ Reopening => \/ Replied("RESUME")
                    \/ call = "idle" /\ last = <<"RESUME", "OK">>

(* What the element is at each place of its task: once started, it runs in  *)
(* the state RUNNING until it gives up, and is open only as long as it      *)
(* runs.  So a resume that is sent finds it closed.                         *)
PlayInv ==
    /\ el.task_run <=> at \notin {"none", "created", "report", "delete"}
    /\ call = "force" =>
         el.state \in {"PAUSED", "STOPPED", "FINISHED", "ERROR"}
    /\ call = "mark" => ~el.is_running
    /\ el.is_running /\ ~Starting =>
         el.state = "RUNNING" \/ at = "quiet" \/ Pausing
    /\ \/ at = "busy"
       \/ /\ at \in {"finish", "error", "STOP", "close", "settle"}
          /\ back = "loop"
       => el.is_running /\ el.state = "RUNNING"
    /\ at \in {"opened", "unstopped"} => el.state = "RUNNING"
    /\ at \in {"wake", "resumed"} => goal = "INITIALIZING"
    /\ /\ asking = "RESUME"
       /\ call = "send" \/ (call = "wait" /\ "RESUMED" \notin bits)
       => el.state # "RUNNING"
    /\ el.is_open => el.is_running \/ at \in {"destroyed", "leave"}
    /\ at \in {"RESUME", "wake", "resumed", "open"} => ~el.is_open
    /\ at \in {"resumed", "open"} => el.is_running

(* What an answer says of the element.                                      *)
QuietInv ==
    /\ call \in {"send", "wait"} /\ asking = "PAUSE" /\ "PAUSED" \in bits =>
         ~el.is_running
    /\ call = "idle" /\ last = <<"PAUSE", "OK">> /\ el.is_running =>
         at = "quiet" \/ Pausing
    /\ "STOPPED" \in bits /\ el.is_running => Starting
    /\ call = "reset" => ~el.is_running

PatientInv == IInv /\ ResumeInv /\ StartInv /\ PlayInv /\ QuietInv
-----------------------------------------------------------------------------
(* What a queue holds when its first command is taken,                      *)
LEMMA ResumeTaken ==
    ASSUME NEW q \in Seq(Commands), q # <<>>, ResumeLast(q)
    PROVE  /\ Head(q) \in Commands /\ ResumeLast(Tail(q))
           /\ HasResume(Tail(q)) => HasResume(q)
           /\ Head(q) = "RESUME" => HasResume(q) /\ ~HasResume(Tail(q))
<1> DEFINE r == Tail(q)
<1>1. /\ Len(r) = Len(q) - 1 /\ Len(q) \in Nat \ {0}
      /\ \A i \in 1 .. Len(q) - 1 : r[i] = q[i + 1]
      /\ Head(q) = q[1] /\ q[1] \in Commands
  OBVIOUS
<1> HIDE DEF r
<1>2. ASSUME NEW i \in 1 .. Len(r), r[i] = "RESUME"
      PROVE  i + 1 \in 1 .. Len(q) /\ q[i + 1] = "RESUME" /\ i + 1 = Len(q)
  BY <1>1, <1>2 DEF ResumeLast
<1>3. Head(q) = "RESUME" => HasResume(q) /\ Len(q) = 1
  BY <1>1 DEF HasResume, ResumeLast
<1>4. ResumeLast(r)
  BY <1>1, <1>2 DEF ResumeLast
<1>5. HasResume(r) => HasResume(q)
  BY <1>2 DEF HasResume
<1>6. Head(q) = "RESUME" => ~HasResume(r)
  BY <1>1, <1>3 DEF HasResume
<1> QED
  BY <1>1, <1>3, <1>4, <1>5, <1>6 DEF r

(* and when a command is sent.                                              *)
LEMMA ResumeSent ==
    ASSUME NEW q \in Seq(Commands), NEW c \in Commands, ~HasResume(q)
    PROVE  /\ ResumeLast(Append(q, c))
           /\ HasResume(Append(q, c)) => c = "RESUME"
<1> DEFINE r == Append(q, c)
<1>1. /\ Len(r) = Len(q) + 1 /\ Len(q) \in Nat
      /\ \A i \in 1 .. Len(q) : r[i] = q[i]
      /\ r[Len(q) + 1] = c
  OBVIOUS
<1> HIDE DEF r
<1>2. ASSUME NEW i \in 1 .. Len(r), r[i] = "RESUME" PROVE i = Len(q) + 1
  BY <1>1, <1>2 DEF HasResume
<1> QED
  BY <1>1, <1>2 DEF ResumeLast, HasResume, r

(* The step of audio_element_stop that looks at the mark.                   *)
LEMMA StopAsksOnce ==
    ASSUME TypeOK, StopAsks
    PROVE  /\ el'.state = el.state /\ el'.is_running = el.is_running
           /\ el'.task_run = el.task_run /\ el'.is_open = el.is_open
           /\ call = "stop" /\ UNCHANGED <<bits, cmds, task>>
           /\ \/ /\ el.stopping /\ el'.stopping
                 /\ call' = "idle" /\ last' = <<"STOP", "OK">>
              \/ ~el.stopping /\ call' = "send" /\ last' = last
           /\ asking' = asking
<1> DEFINE awake == IF el.state = "PAUSED" THEN FALSE ELSE el.forever
<1>1. CASE el.stopping
  <2>1. el' = [el EXCEPT !.forever = awake] /\ Returns("STOP", "OK")
    BY <1>1 DEF StopAsks
  <2> HIDE DEF awake
  <2>2. el'.stopping
    BY <1>1, <2>1 DEF TypeOK
  <2> QED
    BY <1>1, <2>1, <2>2 DEF StopAsks, Returns, TypeOK
<1>2. CASE ~el.stopping
  <2>1. /\ el' = [el EXCEPT !.forever = awake, !.stopping = TRUE]
        /\ Step("stop", "send")
    BY <1>2 DEF StopAsks
  <2> HIDE DEF awake
  <2> QED
    BY <1>2, <2>1 DEF StopAsks, Step, TypeOK
<1> QED
  BY <1>1, <1>2

(* A resume in the queue stays the last command, and waited for.            *)
LEMMA ResumeNext ==
    ASSUME Patient, PatientInv, [Next]_vars
    PROVE  ResumeInv'
<1> USE DEF PatientInv, IInv, TypeOK, PlacesInv, ResumeInv, StartInv,
       PlayInv, Waits, Replied, Waking, Reopening, Answer, StopPlaces, task,
       application
<1>1. CASE TaskStart
  BY <1>1 DEF TaskStart, Go
<1>2. CASE TaskReset
  BY <1>2 DEF TaskReset, Go
<1>3. CASE TaskUnstop
  BY <1>3 DEF TaskUnstop, Go
<1>4. CASE Await
  BY <1>4 DEF Await, Go
<1>5. CASE Take
  <2>1. cmds \in Seq(Commands) /\ cmds # <<>>
    BY <1>5 DEF Take
  <2> QED
    BY <1>5, <2>1, ResumeTaken DEF Take
<1>6. CASE OnPause
  BY <1>6 DEF OnPause, Go
<1>7. CASE OnPauseClose
  BY <1>7 DEF OnPauseClose, Go
<1>8. CASE OnPauseDone
  BY <1>8 DEF OnPauseDone, Go
<1>9. CASE OnStop
  BY <1>9 DEF OnStop
<1>10. CASE OnFinish
  BY <1>10 DEF OnFinish
<1>11. CASE OnError
  BY <1>11 DEF OnError
<1>12. CASE Close
  BY <1>12 DEF Close, Go
<1>13. CASE Settle
  BY <1>13 DEF Settle, Go
<1>14. CASE Quiet
  BY <1>14 DEF Quiet, Go
<1>15. CASE Signal
  BY <1>15 DEF Signal, Go
<1>16. CASE OnResume
  BY <1>16 DEF OnResume
<1>17. CASE Wake
  BY <1>17 DEF Wake, Go
<1>18. CASE Resumed
  BY <1>18 DEF Resumed, Go
<1>19. CASE Open
  BY <1>19 DEF Open, Go
<1>20. CASE OpenSucceeds
  BY <1>20 DEF OpenSucceeds, Go
<1>21. CASE OpenFails
  BY <1>21 DEF OpenFails
<1>22. CASE NotOpened
  BY <1>22 DEF NotOpened
<1>23. CASE Failed
  BY <1>23 DEF Failed, Go
<1>24. CASE Opened
  BY <1>24 DEF Opened, Go
<1>25. CASE Unstopped
  BY <1>25 DEF Unstopped, Go
<1>26. CASE Process
  BY <1>26 DEF Process, Go
<1>27. CASE OnDestroy
  BY <1>27 DEF OnDestroy, Go
<1>28. CASE TaskBreaks
  BY <1>28 DEF TaskBreaks, Go
<1>29. CASE TaskCloses
  BY <1>29 DEF TaskCloses, Go
<1>30. CASE TaskEnds
  BY <1>30 DEF TaskEnds, Go
<1>31. CASE TaskReports
  BY <1>31 DEF TaskReports, Go
<1>32. CASE TaskDeleted
  BY <1>32 DEF TaskDeleted, Go
<1>33. CASE ProcessReturns
  BY <1>33 DEF ProcessReturns
<1>34. CASE Run
  <2>1. ResumeLast(<<>>) /\ ~HasResume(<<>>)
    BY DEF ResumeLast, HasResume
  <2> QED
    BY <1>34, <2>1 DEF Run, Ready
<1>35. CASE Resume
  BY <1>35 DEF Resume, Ready, Returns, Asks, Enter, Answer
<1>36. CASE Pause
  BY <1>36 DEF Pause, Ready, Enter, Returns, Asks, Answer
<1>37. CASE Stop
  BY <1>37 DEF Stop, Ready, Enter, Returns
<1>38. CASE WaitForStop
  BY <1>38 DEF WaitForStop, Ready, Enter
<1>39. CASE Terminate
  BY <1>39 DEF Terminate, Ready, Returns, Asks, Enter, Answer
<1>40. CASE Deinit
  BY <1>40 DEF Deinit, Enter
<1>41. CASE PauseForces
  BY <1>41 DEF PauseForces, Returns
<1>42. CASE StopMarks
  BY <1>42 DEF StopMarks, Returns
<1>43. CASE StopAborts
  BY <1>43 DEF StopAborts, Step
<1>44. CASE StopLooks
  BY <1>44 DEF StopLooks, Step
<1>45. CASE StopClears
  BY <1>45 DEF StopClears, Step
<1>46. CASE StopAsks
  BY <1>46, StopAsksOnce
<1>47. CASE Send
  <2>1. cmds \in Seq(Commands) /\ asking \in Commands
    BY <1>47 DEF Send
  <2> QED
    BY <1>47, <2>1, ResumeSent DEF Send, Step, Returns
<1>48. CASE SendFails
  BY <1>48 DEF SendFails, Returns
<1>49. CASE Answered
  BY <1>49 DEF Answered, Step, Returns
<1>50. CASE TimedOut
  BY <1>50 DEF TimedOut, Returns
<1>51. CASE ResetState
  BY <1>51 DEF ResetState, Returns
<1>52. CASE UNCHANGED vars
  BY <1>52 DEF vars
<1> QED
  BY <1>1, <1>2, <1>3, <1>4, <1>5, <1>6, <1>7, <1>8, <1>9, <1>10, <1>11,
     <1>12, <1>13, <1>14, <1>15, <1>16, <1>17, <1>18, <1>19, <1>20, <1>21,
     <1>22, <1>23, <1>24, <1>25, <1>26, <1>27, <1>28, <1>29, <1>30, <1>31,
     <1>32, <1>33, <1>34, <1>35, <1>36, <1>37, <1>38, <1>39, <1>40, <1>41,
     <1>42, <1>43, <1>44, <1>45, <1>46, <1>47, <1>48, <1>49, <1>50, <1>51,
     <1>52
     DEF Next, TaskStep, NewCall, CallStep

(* An element that starts is waited for.                                    *)
LEMMA StartNext ==
    ASSUME Patient, PatientInv, [Next]_vars
    PROVE  StartInv'
<1> USE DEF PatientInv, IInv, TypeOK, PlacesInv, ResumeInv, StartInv,
       PlayInv, Waits, Replied, Waking, Reopening, Starting, Answer, Commands,
       Returning, Reopened, Created, GivingUp, task, application
<1>1. CASE TaskStart
  BY <1>1 DEF TaskStart, Go
<1>2. CASE TaskReset
  BY <1>2 DEF TaskReset, Go
<1>3. CASE TaskUnstop
  BY <1>3 DEF TaskUnstop, Go
<1>4. CASE Await
  BY <1>4 DEF Await, Go
<1>5. CASE Take
  <2>1. cmds \in Seq(Commands) /\ cmds # <<>>
    BY <1>5 DEF Take
  <2> QED
    BY <1>5, <2>1, ResumeTaken DEF Take
<1>6. CASE OnPause
  BY <1>6 DEF OnPause, Go
<1>7. CASE OnPauseClose
  BY <1>7 DEF OnPauseClose, Go
<1>8. CASE OnPauseDone
  BY <1>8 DEF OnPauseDone, Go
<1>9. CASE OnStop
  BY <1>9 DEF OnStop
<1>10. CASE OnFinish
  BY <1>10 DEF OnFinish
<1>11. CASE OnError
  BY <1>11 DEF OnError
<1>12. CASE Close
  BY <1>12 DEF Close, Go
<1>13. CASE Settle
  BY <1>13 DEF Settle, Go
<1>14. CASE Quiet
  BY <1>14 DEF Quiet, Go
<1>15. CASE Signal
  BY <1>15 DEF Signal, Go
<1>16. CASE OnResume
  BY <1>16 DEF OnResume
<1>17. CASE Wake
  BY <1>17 DEF Wake, Go
<1>18. CASE Resumed
  BY <1>18 DEF Resumed, Go
<1>19. CASE Open
  BY <1>19 DEF Open, Go
<1>20. CASE OpenSucceeds
  BY <1>20 DEF OpenSucceeds, Go
<1>21. CASE OpenFails
  BY <1>21 DEF OpenFails
<1>22. CASE NotOpened
  BY <1>22 DEF NotOpened
<1>23. CASE Failed
  BY <1>23 DEF Failed, Go
<1>24. CASE Opened
  BY <1>24 DEF Opened, Go
<1>25. CASE Unstopped
  BY <1>25 DEF Unstopped, Go
<1>26. CASE Process
  BY <1>26 DEF Process, Go
<1>27. CASE OnDestroy
  BY <1>27 DEF OnDestroy, Go
<1>28. CASE TaskBreaks
  BY <1>28 DEF TaskBreaks, Go
<1>29. CASE TaskCloses
  BY <1>29 DEF TaskCloses, Go
<1>30. CASE TaskEnds
  BY <1>30 DEF TaskEnds, Go
<1>31. CASE TaskReports
  BY <1>31 DEF TaskReports, Go
<1>32. CASE TaskDeleted
  BY <1>32 DEF TaskDeleted, Go
<1>33. CASE ProcessReturns
  BY <1>33 DEF ProcessReturns
<1>34. CASE Run
  <2>1. ResumeLast(<<>>) /\ ~HasResume(<<>>)
    BY DEF ResumeLast, HasResume
  <2> QED
    BY <1>34, <2>1 DEF Run, Ready
<1>35. CASE Resume
  BY <1>35 DEF Resume, Ready, Returns, Asks, Enter, Answer
<1>36. CASE Pause
  BY <1>36 DEF Pause, Ready, Enter, Returns, Asks, Answer
<1>37. CASE Stop
  BY <1>37 DEF Stop, Ready, Enter, Returns
<1>38. CASE WaitForStop
  BY <1>38 DEF WaitForStop, Ready, Enter
<1>39. CASE Terminate
  BY <1>39 DEF Terminate, Ready, Returns, Asks, Enter, Answer
<1>40. CASE Deinit
  BY <1>40 DEF Deinit, Enter
<1>41. CASE PauseForces
  BY <1>41 DEF PauseForces, Returns
<1>42. CASE StopMarks
  BY <1>42 DEF StopMarks, Returns
<1>43. CASE StopAborts
  BY <1>43 DEF StopAborts, Step
<1>44. CASE StopLooks
  BY <1>44 DEF StopLooks, Step
<1>45. CASE StopClears
  BY <1>45 DEF StopClears, Step
<1>46. CASE StopAsks
  BY <1>46, StopAsksOnce
<1>47. CASE Send
  BY <1>47 DEF Send, Step, Returns
<1>48. CASE SendFails
  BY <1>48 DEF SendFails, Returns
<1>49. CASE Answered
  BY <1>49 DEF Answered, Step, Returns
<1>50. CASE TimedOut
  BY <1>50 DEF TimedOut, Returns
<1>51. CASE ResetState
  BY <1>51 DEF ResetState, Returns
<1>52. CASE UNCHANGED vars
  BY <1>52 DEF vars
<1> QED
  BY <1>1, <1>2, <1>3, <1>4, <1>5, <1>6, <1>7, <1>8, <1>9, <1>10, <1>11,
     <1>12, <1>13, <1>14, <1>15, <1>16, <1>17, <1>18, <1>19, <1>20, <1>21,
     <1>22, <1>23, <1>24, <1>25, <1>26, <1>27, <1>28, <1>29, <1>30, <1>31,
     <1>32, <1>33, <1>34, <1>35, <1>36, <1>37, <1>38, <1>39, <1>40, <1>41,
     <1>42, <1>43, <1>44, <1>45, <1>46, <1>47, <1>48, <1>49, <1>50, <1>51,
     <1>52
     DEF Next, TaskStep, NewCall, CallStep

(* What the element is at each place of its task.                           *)
LEMMA PlayNext ==
    ASSUME Patient, PatientInv, [Next]_vars
    PROVE  PlayInv'
<1> USE DEF PatientInv, IInv, TypeOK, PlacesInv, OpenInv, ResumeInv,
       StartInv, PlayInv, QuietInv, Waits, Replied, Pausing, Waking,
       Reopening, Starting, Answer, Commands, Returning, Reopened, Dead,
       Resuming, GivingUp, TaskPlaces, task, application
<1>1. CASE TaskStart
  BY <1>1 DEF TaskStart, Go
<1>2. CASE TaskReset
  BY <1>2 DEF TaskReset, Go
<1>3. CASE TaskUnstop
  BY <1>3 DEF TaskUnstop, Go
<1>4. CASE Await
  BY <1>4 DEF Await, Go
<1>5. CASE Take
  <2>1. cmds \in Seq(Commands) /\ cmds # <<>>
    BY <1>5 DEF Take
  <2> QED
    BY <1>5, <2>1, ResumeTaken DEF Take
<1>6. CASE OnPause
  BY <1>6 DEF OnPause, Go
<1>7. CASE OnPauseClose
  BY <1>7 DEF OnPauseClose, Go
<1>8. CASE OnPauseDone
  BY <1>8 DEF OnPauseDone, Go
<1>9. CASE OnStop
  BY <1>9 DEF OnStop
<1>10. CASE OnFinish
  BY <1>10 DEF OnFinish
<1>11. CASE OnError
  BY <1>11 DEF OnError
<1>12. CASE Close
  BY <1>12 DEF Close, Go
<1>13. CASE Settle
  BY <1>13 DEF Settle, Go
<1>14. CASE Quiet
  BY <1>14 DEF Quiet, Go
<1>15. CASE Signal
  BY <1>15 DEF Signal, Go
<1>16. CASE OnResume
  BY <1>16 DEF OnResume
<1>17. CASE Wake
  BY <1>17 DEF Wake, Go
<1>18. CASE Resumed
  BY <1>18 DEF Resumed, Go
<1>19. CASE Open
  BY <1>19 DEF Open, Go
<1>20. CASE OpenSucceeds
  BY <1>20 DEF OpenSucceeds, Go
<1>21. CASE OpenFails
  BY <1>21 DEF OpenFails
<1>22. CASE NotOpened
  BY <1>22 DEF NotOpened
<1>23. CASE Failed
  BY <1>23 DEF Failed, Go
<1>24. CASE Opened
  BY <1>24 DEF Opened, Go
<1>25. CASE Unstopped
  BY <1>25 DEF Unstopped, Go
<1>26. CASE Process
  BY <1>26 DEF Process, Go
<1>27. CASE OnDestroy
  BY <1>27 DEF OnDestroy, Go
<1>28. CASE TaskBreaks
  BY <1>28 DEF TaskBreaks, Go
<1>29. CASE TaskCloses
  BY <1>29 DEF TaskCloses, Go
<1>30. CASE TaskEnds
  BY <1>30 DEF TaskEnds, Go
<1>31. CASE TaskReports
  BY <1>31 DEF TaskReports, Go
<1>32. CASE TaskDeleted
  BY <1>32 DEF TaskDeleted, Go
<1>33. CASE ProcessReturns
  BY <1>33 DEF ProcessReturns
<1>34. CASE Run
  BY <1>34 DEF Run, Ready
<1>35. CASE Resume
  BY <1>35 DEF Resume, Ready, Returns, Asks, Enter, Answer
<1>36. CASE Pause
  BY <1>36 DEF Pause, Ready, Enter, Returns, Asks, Answer
<1>37. CASE Stop
  BY <1>37 DEF Stop, Ready, Enter, Returns
<1>38. CASE WaitForStop
  BY <1>38 DEF WaitForStop, Ready, Enter
<1>39. CASE Terminate
  BY <1>39 DEF Terminate, Ready, Returns, Asks, Enter, Answer
<1>40. CASE Deinit
  BY <1>40 DEF Deinit, Enter
<1>41. CASE PauseForces
  BY <1>41 DEF PauseForces, Returns
<1>42. CASE StopMarks
  BY <1>42 DEF StopMarks, Returns
<1>43. CASE StopAborts
  BY <1>43 DEF StopAborts, Step
<1>44. CASE StopLooks
  BY <1>44 DEF StopLooks, Step
<1>45. CASE StopClears
  BY <1>45 DEF StopClears, Step
<1>46. CASE StopAsks
  BY <1>46, StopAsksOnce
<1>47. CASE Send
  BY <1>47 DEF Send, Step, Returns
<1>48. CASE SendFails
  BY <1>48 DEF SendFails, Returns
<1>49. CASE Answered
  BY <1>49 DEF Answered, Step, Returns
<1>50. CASE TimedOut
  BY <1>50 DEF TimedOut, Returns
<1>51. CASE ResetState
  BY <1>51 DEF ResetState, Returns
<1>52. CASE UNCHANGED vars
  BY <1>52 DEF vars
<1> QED
  BY <1>1, <1>2, <1>3, <1>4, <1>5, <1>6, <1>7, <1>8, <1>9, <1>10, <1>11,
     <1>12, <1>13, <1>14, <1>15, <1>16, <1>17, <1>18, <1>19, <1>20, <1>21,
     <1>22, <1>23, <1>24, <1>25, <1>26, <1>27, <1>28, <1>29, <1>30, <1>31,
     <1>32, <1>33, <1>34, <1>35, <1>36, <1>37, <1>38, <1>39, <1>40, <1>41,
     <1>42, <1>43, <1>44, <1>45, <1>46, <1>47, <1>48, <1>49, <1>50, <1>51,
     <1>52
     DEF Next, TaskStep, NewCall, CallStep

(* What an answer says stays true.                                          *)
LEMMA QuietNext ==
    ASSUME Patient, PatientInv, [Next]_vars
    PROVE  QuietInv'
<1> USE DEF PatientInv, IInv, TypeOK, PlacesInv, OpenInv, StartInv, PlayInv,
       QuietInv, Waits, Replied, Pausing, Waking, Reopening, Starting, Answer,
       Reopened, Resuming, GivingUp, TaskPlaces, task, application
<1>1. CASE TaskStart
  BY <1>1 DEF TaskStart, Go
<1>2. CASE TaskReset
  BY <1>2 DEF TaskReset, Go
<1>3. CASE TaskUnstop
  BY <1>3 DEF TaskUnstop, Go
<1>4. CASE Await
  BY <1>4 DEF Await, Go
<1>5. CASE Take
  BY <1>5 DEF Take
<1>6. CASE OnPause
  BY <1>6 DEF OnPause, Go
<1>7. CASE OnPauseClose
  BY <1>7 DEF OnPauseClose, Go
<1>8. CASE OnPauseDone
  BY <1>8 DEF OnPauseDone, Go
<1>9. CASE OnStop
  BY <1>9 DEF OnStop
<1>10. CASE OnFinish
  BY <1>10 DEF OnFinish
<1>11. CASE OnError
  BY <1>11 DEF OnError
<1>12. CASE Close
  BY <1>12 DEF Close, Go
<1>13. CASE Settle
  BY <1>13 DEF Settle, Go
<1>14. CASE Quiet
  BY <1>14 DEF Quiet, Go
<1>15. CASE Signal
  BY <1>15 DEF Signal, Go
<1>16. CASE OnResume
  BY <1>16 DEF OnResume
<1>17. CASE Wake
  BY <1>17 DEF Wake, Go
<1>18. CASE Resumed
  BY <1>18 DEF Resumed, Go
<1>19. CASE Open
  BY <1>19 DEF Open, Go
<1>20. CASE OpenSucceeds
  BY <1>20 DEF OpenSucceeds, Go
<1>21. CASE OpenFails
  BY <1>21 DEF OpenFails
<1>22. CASE NotOpened
  BY <1>22 DEF NotOpened
<1>23. CASE Failed
  BY <1>23 DEF Failed, Go
<1>24. CASE Opened
  BY <1>24 DEF Opened, Go
<1>25. CASE Unstopped
  BY <1>25 DEF Unstopped, Go
<1>26. CASE Process
  BY <1>26 DEF Process, Go
<1>27. CASE OnDestroy
  BY <1>27 DEF OnDestroy, Go
<1>28. CASE TaskBreaks
  BY <1>28 DEF TaskBreaks, Go
<1>29. CASE TaskCloses
  BY <1>29 DEF TaskCloses, Go
<1>30. CASE TaskEnds
  BY <1>30 DEF TaskEnds, Go
<1>31. CASE TaskReports
  BY <1>31 DEF TaskReports, Go
<1>32. CASE TaskDeleted
  BY <1>32 DEF TaskDeleted, Go
<1>33. CASE ProcessReturns
  BY <1>33 DEF ProcessReturns
<1>34. CASE Run
  BY <1>34 DEF Run, Ready
<1>35. CASE Resume
  BY <1>35 DEF Resume, Ready, Returns, Asks, Enter, Answer
<1>36. CASE Pause
  BY <1>36 DEF Pause, Ready, Enter, Returns, Asks, Answer
<1>37. CASE Stop
  BY <1>37 DEF Stop, Ready, Enter, Returns
<1>38. CASE WaitForStop
  BY <1>38 DEF WaitForStop, Ready, Enter
<1>39. CASE Terminate
  BY <1>39 DEF Terminate, Ready, Returns, Asks, Enter, Answer
<1>40. CASE Deinit
  BY <1>40 DEF Deinit, Enter
<1>41. CASE PauseForces
  BY <1>41 DEF PauseForces, Returns
<1>42. CASE StopMarks
  BY <1>42 DEF StopMarks, Returns
<1>43. CASE StopAborts
  BY <1>43 DEF StopAborts, Step
<1>44. CASE StopLooks
  BY <1>44 DEF StopLooks, Step
<1>45. CASE StopClears
  BY <1>45 DEF StopClears, Step
<1>46. CASE StopAsks
  BY <1>46, StopAsksOnce
<1>47. CASE Send
  BY <1>47 DEF Send, Step, Returns
<1>48. CASE SendFails
  BY <1>48 DEF SendFails, Returns
<1>49. CASE Answered
  BY <1>49 DEF Answered, Step, Returns
<1>50. CASE TimedOut
  BY <1>50 DEF TimedOut, Returns
<1>51. CASE ResetState
  BY <1>51 DEF ResetState, Returns
<1>52. CASE UNCHANGED vars
  BY <1>52 DEF vars
<1> QED
  BY <1>1, <1>2, <1>3, <1>4, <1>5, <1>6, <1>7, <1>8, <1>9, <1>10, <1>11,
     <1>12, <1>13, <1>14, <1>15, <1>16, <1>17, <1>18, <1>19, <1>20, <1>21,
     <1>22, <1>23, <1>24, <1>25, <1>26, <1>27, <1>28, <1>29, <1>30, <1>31,
     <1>32, <1>33, <1>34, <1>35, <1>36, <1>37, <1>38, <1>39, <1>40, <1>41,
     <1>42, <1>43, <1>44, <1>45, <1>46, <1>47, <1>48, <1>49, <1>50, <1>51,
     <1>52
     DEF Next, TaskStep, NewCall, CallStep

(* Together they are inductive.                                             *)
LEMMA PatientInit == Init => PatientInv
<1> SUFFICES ASSUME Init PROVE PatientInv
  OBVIOUS
<1>1. IInv
  BY InitIInv
<1>2. ResumeLast(<<>>) /\ ~HasResume(<<>>)
  BY DEF ResumeLast, HasResume
<1>3. ResumeInv /\ StartInv /\ PlayInv /\ QuietInv
  BY <1>2 DEF Init, ResumeInv, StartInv, PlayInv, QuietInv, Waits, Replied,
              Pausing, Waking, Reopening, Starting, StopPlaces, Created,
              Returning, Reopened, GivingUp
<1> QED
  BY <1>1, <1>3 DEF PatientInv

(* Every step of the element or of a patient application keeps all parts.   *)
LEMMA PatientNext ==
    ASSUME Patient, PatientInv, [Next]_vars
    PROVE  PatientInv'
<1>1. IInv'
  BY TypeNext, PlacesNext, OpenNext, StateNext DEF PatientInv, IInv
<1> QED
  BY <1>1, ResumeNext, StartNext, PlayNext, QuietNext DEF PatientInv

(* The parts hold for ever, whichever of the waits run out.                 *)
LEMMA PatientInvariance == ASSUME Patient PROVE Spec => []PatientInv
<1>1. PatientInv /\ [Next]_vars => PatientInv'
  BY PatientNext
<1> QED
  BY <1>1, PatientInit, PTL DEF Spec

(* An element that has answered a pause does not call process, and one that *)
(* is reset after a stop is not running, whichever of the waits run out.    *)
THEOREM AnswersMeanQuiet == ASSUME Patient PROVE Spec => []AnsweredIsQuiet
<1>1. ASSUME PatientInv PROVE AnsweredIsQuiet
  BY <1>1 DEF PatientInv, PlayInv, QuietInv, AnsweredIsQuiet, Pausing
<1> QED
  BY <1>1, PatientInvariance, PTL

(* For a patient application the element implements the protocol of its     *)
(* callbacks, whichever of the waits run out: it is never opened while it   *)
(* is open.                                                                 *)
THEOREM PatientCallbacks == ASSUME Patient PROVE Spec => CallbacksSpec
<1>1. PatientInv => NeverReopened
  BY DEF PatientInv, PlayInv, NeverReopened
<1> QED
  BY <1>1, PatientInvariance, CallbacksInTurn, PTL
-----------------------------------------------------------------------------
(* The queue has room for a stop and one more command: 5 in the code.       *)
CalmApplication == Patient /\ TimesOut = {} /\ QueueSize >= 2

SendsStop == call = "send" /\ asking = "STOP"
StopQueued == cmds # <<>> /\ Head(cmds) = "STOP"
Resting == at \in {"loop", "blocked", "process"}
Ending == at \in {"DESTROY", "destroyed", "leave", "end", "report"}

(* In the queue is at most the stop that was asked for last, and behind it  *)
(* the command that the application waits for; and who finds the element    *)
(* stopped, with its stop still in the queue, finds it at rest.             *)
QueueInv ==
    /\ \/ cmds = <<>> \/ cmds = <<"STOP">>
       \/ /\ Waits("RESUME") \/ Waits("PAUSE") \/ Waits("DESTROY")
          /\ cmds = <<asking>> \/ cmds = <<"STOP", asking>>
    /\ cmds # <<>> => /\ ~Starting /\ ~Pausing /\ ~Ending
                      /\ at \notin {"delete", "none"}
    /\ StopQueued =>
         /\ last[1] \in {"STOP", "WAIT"} /\ ~SendsStop
         /\ call \notin {"force", "freed", "abort", "look", "clear", "stop"}
         /\ last[1] = "WAIT" => el.state = "INIT"
         /\ last[1] = "WAIT" \/ call = "reset" \/ "STOPPED" \in bits =>
              Resting /\ ~el.is_running

(* The mark stands for a stop that is on its way, and a stop is marked.     *)
MarkInv ==
    el.stopping =>
      \/ StopQueued
      \/ SendsStop
      \/ at = "STOP" /\ back = "process"
      \/ /\ at \in {"close", "settle", "quiet"}
         /\ back = "process" /\ goal = "STOPPED"

(* While the task carries out a command, the application waits for it, or   *)
(* has been answered and has not gone on.                                   *)
WaitInv ==
    /\ at = "created" => Waits("RUN")
    /\ Pausing => Waits("PAUSE")
    /\ Ending => Waits("DESTROY")
    /\ Waits("RUN") => /\ cmds = <<>> /\ ~el.is_running
                       /\ at \in {"created", "boot", "unstop"} \/ Resting
    /\ Waits("WAIT") \/ call = "reset" => last[1] = "STOP"
    /\ last[1] = "STOP" => call \in {"idle", "reset"} \/ Waits("WAIT")

(* What the bit of an answer says of the element, while the application     *)
(* has not seen it and after it has.                                        *)
AnswerInv ==
    /\ Replied("RUN") => at # "created"
    /\ Replied("PAUSE") =>
         cmds = <<>> /\ Resting /\ ~el.is_running /\ el.state = "PAUSED"
    /\ Replied("RESUME") => /\ cmds = <<>> /\ ~Waking
                            /\ at # "open" => el.state # "PAUSED"
                            /\ ~(at \in GivingUp /\ back = "process")
    /\ Replied("DESTROY") => at \in {"delete", "none"}
    /\ call = "send" /\ asking # "STOP" => Answer(asking) \notin bits
    /\ /\ asking = "RESUME"
       /\ call = "send" \/ (call = "wait" /\ "RESUMED" \notin bits)
       => el.state # "FINISHED"
    /\ /\ "STOPPED" \in bits
       /\ call \in {"abort", "look", "clear", "stop"} \/ SendsStop
       => Resting /\ ~el.is_running
    /\ call = "reset" => ~Starting
    /\ call = "idle" /\ last = <<"PAUSE", "OK">> => el.state = "PAUSED"
    /\ call = "idle" /\ last = <<"RESUME", "OK">> /\ at # "open" =>
         el.state # "PAUSED"

(* What the element is while a pause or a stop is under way.                *)
RunInv ==
    /\ call \in StopPlaces \cup {"send", "force"} => el.task_run
    /\ at \in {"pausing", "paused"} => el.state = "PAUSED"
    /\ at \in {"finish", "error"} => back # "process"
    /\ at \in {"STOP", "close", "settle"} /\ back = "process" =>
         /\ at # "STOP" => goal = "STOPPED"
         /\ last[1] = "STOP" \/ (last[1] = "WAIT" /\ el.state = "INIT")

CalmInv ==
    PatientInv /\ QueueInv /\ MarkInv /\ WaitInv /\ AnswerInv /\ RunInv

(* What the head and the tail of the queue are, when there is a command.    *)
LEMMA QueueTaken ==
    ASSUME QueueInv, cmds # <<>>, asking \in Calls
    PROVE  \/ Head(cmds) = "STOP" /\ Tail(cmds) = <<>>
           \/ /\ Waits("RESUME") \/ Waits("PAUSE") \/ Waits("DESTROY")
              /\ \/ Head(cmds) = asking /\ Tail(cmds) = <<>>
                 \/ Head(cmds) = "STOP" /\ Tail(cmds) = <<asking>>
<1>1. Head(<<"STOP">>) = "STOP" /\ Tail(<<"STOP">>) = <<>>
  OBVIOUS
<1>2. Head(<<asking>>) = asking /\ Tail(<<asking>>) = <<>>
  OBVIOUS
<1>3. /\ Head(<<"STOP", asking>>) = "STOP"
      /\ Tail(<<"STOP", asking>>) = <<asking>>
  OBVIOUS
<1> QED
  BY <1>1, <1>2, <1>3 DEF QueueInv

(* What the queue is with a command more.                                   *)
LEMMA QueueGrown ==
    ASSUME NEW c
    PROVE  Append(<<>>, c) = <<c>> /\ Append(<<"STOP">>, c) = <<"STOP", c>>
<1> DEFINE S == {c, "STOP"}
           s == Append(<<>>, c)
           t == Append(<<"STOP">>, c)
<1>1. /\ <<c>> \in Seq(S) /\ Len(<<c>>) = 1
      /\ <<"STOP">> \in Seq(S) /\ Len(<<"STOP">>) = 1
      /\ <<"STOP", c>> \in Seq(S) /\ Len(<<"STOP", c>>) = 2
  OBVIOUS
<1>2. s \in Seq(S) /\ Len(s) = 1 /\ s[1] = c
  OBVIOUS
<1>3. t \in Seq(S) /\ Len(t) = 2 /\ t[1] = "STOP" /\ t[2] = c
  BY <1>1
<1> HIDE DEF s, t
<1>4. s = <<c>>
  BY <1>1, <1>2, SeqEqual
<1>5. t = <<"STOP", c>>
  BY <1>1, <1>3, SeqEqual
<1> QED
  BY <1>4, <1>5 DEF s, t

(* A command that is sent stands alone in the queue or behind a stop.       *)
LEMMA QueueSent ==
    ASSUME QueueInv, Send
    PROVE  /\ cmds' \in {<<asking>>, <<"STOP", asking>>} /\ cmds' # <<>>
           /\ Head(cmds') = (IF cmds = <<>> THEN asking ELSE "STOP")
           /\ cmds # <<>> => cmds = <<"STOP">> /\ StopQueued
           /\ cmds = <<>> => cmds' = <<asking>>
<1>1. cmds' = Append(cmds, asking) /\ cmds \in {<<>>, <<"STOP">>}
  BY DEF Send, QueueInv, Waits
<1>2. /\ Head(<<asking>>) = asking /\ Head(<<"STOP", asking>>) = "STOP"
      /\ <<asking>> # <<>> /\ <<"STOP", asking>> # <<>>
      /\ Head(<<"STOP">>) = "STOP" /\ <<"STOP">> # <<>>
  OBVIOUS
<1> QED
  BY <1>1, <1>2, QueueGrown DEF StopQueued

(* The queue holds a stop and one more command at most.                     *)
LEMMA QueueNext ==
    ASSUME CalmApplication, CalmInv, [Next]_vars
    PROVE  QueueInv'
<1> USE DEF CalmApplication, CalmInv, PatientInv, IInv, TypeOK, PlacesInv,
       OpenInv, StartInv, PlayInv, Waits, Replied, Pausing, Waking, Reopening,
       Starting, Answer, Commands, Calls, Returning, Reopened, Dead, Resuming,
       GivingUp, TaskPlaces, task, application, QueueInv, WaitInv, AnswerInv,
       RunInv, SendsStop, StopQueued, Resting, Ending
<1>1. CASE TaskStart
  BY <1>1 DEF TaskStart, Go
<1>2. CASE TaskReset
  BY <1>2 DEF TaskReset, Go
<1>3. CASE TaskUnstop
  BY <1>3 DEF TaskUnstop, Go
<1>4. CASE Await
  BY <1>4 DEF Await, Go
<1>5. CASE Take
  <2>1. /\ asking \in Calls /\ at' = Head(cmds)
        /\ cmds' = Tail(cmds) /\ cmds # <<>>
    BY <1>5 DEF Take
  <2>2. Head(<<asking>>) = asking
    OBVIOUS
  <2> QED
    BY <1>5, <2>1, <2>2, QueueTaken DEF Take
<1>6. CASE OnPause
  BY <1>6 DEF OnPause, Go
<1>7. CASE OnPauseClose
  BY <1>7 DEF OnPauseClose, Go
<1>8. CASE OnPauseDone
  BY <1>8 DEF OnPauseDone, Go
<1>9. CASE OnStop
  BY <1>9 DEF OnStop
<1>10. CASE OnFinish
  BY <1>10 DEF OnFinish
<1>11. CASE OnError
  BY <1>11 DEF OnError
<1>12. CASE Close
  BY <1>12 DEF Close, Go
<1>13. CASE Settle
  BY <1>13 DEF Settle, Go
<1>14. CASE Quiet
  BY <1>14 DEF Quiet, Go
<1>15. CASE Signal
  BY <1>15 DEF Signal, Go
<1>16. CASE OnResume
  BY <1>16 DEF OnResume
<1>17. CASE Wake
  BY <1>17 DEF Wake, Go
<1>18. CASE Resumed
  BY <1>18 DEF Resumed, Go
<1>19. CASE Open
  BY <1>19 DEF Open, Go
<1>20. CASE OpenSucceeds
  BY <1>20 DEF OpenSucceeds, Go
<1>21. CASE OpenFails
  BY <1>21 DEF OpenFails
<1>22. CASE NotOpened
  BY <1>22 DEF NotOpened
<1>23. CASE Failed
  BY <1>23 DEF Failed, Go
<1>24. CASE Opened
  BY <1>24 DEF Opened, Go
<1>25. CASE Unstopped
  BY <1>25 DEF Unstopped, Go
<1>26. CASE Process
  BY <1>26 DEF Process, Go
<1>27. CASE OnDestroy
  BY <1>27 DEF OnDestroy, Go
<1>28. CASE TaskBreaks
  BY <1>28 DEF TaskBreaks, Go
<1>29. CASE TaskCloses
  BY <1>29 DEF TaskCloses, Go
<1>30. CASE TaskEnds
  BY <1>30 DEF TaskEnds, Go
<1>31. CASE TaskReports
  BY <1>31 DEF TaskReports, Go
<1>32. CASE TaskDeleted
  BY <1>32 DEF TaskDeleted, Go
<1>33. CASE ProcessReturns
  BY <1>33 DEF ProcessReturns
<1>34. CASE Run
  BY <1>34 DEF Run, Ready
<1>35. CASE Resume
  BY <1>35 DEF Resume, Ready, Returns, Asks, Enter, Answer
<1>36. CASE Pause
  BY <1>36 DEF Pause, Ready, Enter, Returns, Asks, Answer
<1>37. CASE Stop
  BY <1>37 DEF Stop, Ready, Enter, Returns
<1>38. CASE WaitForStop
  BY <1>38 DEF WaitForStop, Ready, Enter
<1>39. CASE Terminate
  BY <1>39 DEF Terminate, Ready, Returns, Asks, Enter, Answer
<1>40. CASE Deinit
  BY <1>40 DEF Deinit, Enter
<1>41. CASE PauseForces
  BY <1>41 DEF PauseForces, Returns
<1>42. CASE StopMarks
  BY <1>42 DEF StopMarks, Returns
<1>43. CASE StopAborts
  BY <1>43 DEF StopAborts, Step
<1>44. CASE StopLooks
  BY <1>44 DEF StopLooks, Step
<1>45. CASE StopClears
  BY <1>45 DEF StopClears, Step
<1>46. CASE StopAsks
  BY <1>46, StopAsksOnce
<1>47. CASE Send
  <2>1. asking \in Commands
    BY <1>47 DEF Send
  <2> QED
    BY <1>47, <2>1, QueueSent DEF Send, Step, Returns
<1>48. CASE SendFails
  BY <1>48 DEF SendFails, Returns
<1>49. CASE Answered
  BY <1>49 DEF Answered, Step, Returns
<1>50. CASE TimedOut
  BY <1>50 DEF TimedOut, Returns
<1>51. CASE ResetState
  BY <1>51 DEF ResetState, Returns
<1>52. CASE UNCHANGED vars
  BY <1>52 DEF vars
<1> QED
  BY <1>1, <1>2, <1>3, <1>4, <1>5, <1>6, <1>7, <1>8, <1>9, <1>10, <1>11,
     <1>12, <1>13, <1>14, <1>15, <1>16, <1>17, <1>18, <1>19, <1>20, <1>21,
     <1>22, <1>23, <1>24, <1>25, <1>26, <1>27, <1>28, <1>29, <1>30, <1>31,
     <1>32, <1>33, <1>34, <1>35, <1>36, <1>37, <1>38, <1>39, <1>40, <1>41,
     <1>42, <1>43, <1>44, <1>45, <1>46, <1>47, <1>48, <1>49, <1>50, <1>51,
     <1>52
     DEF Next, TaskStep, NewCall, CallStep

(* The mark is a stop on its way.                                           *)
LEMMA MarkNext ==
    ASSUME CalmApplication, CalmInv, [Next]_vars
    PROVE  MarkInv'
<1> USE DEF CalmInv, PatientInv, IInv, TypeOK, PlacesInv, task, application,
       QueueInv, MarkInv, SendsStop, StopQueued
<1>1. CASE TaskStart
  BY <1>1 DEF TaskStart, Go
<1>2. CASE TaskReset
  BY <1>2 DEF TaskReset, Go
<1>3. CASE TaskUnstop
  BY <1>3 DEF TaskUnstop, Go
<1>4. CASE Await
  BY <1>4 DEF Await, Go
<1>5. CASE Take
  BY <1>5 DEF Take
<1>6. CASE OnPause
  BY <1>6 DEF OnPause, Go
<1>7. CASE OnPauseClose
  BY <1>7 DEF OnPauseClose, Go
<1>8. CASE OnPauseDone
  BY <1>8 DEF OnPauseDone, Go
<1>9. CASE OnStop
  BY <1>9 DEF OnStop
<1>10. CASE OnFinish
  BY <1>10 DEF OnFinish
<1>11. CASE OnError
  BY <1>11 DEF OnError
<1>12. CASE Close
  BY <1>12 DEF Close, Go
<1>13. CASE Settle
  BY <1>13 DEF Settle, Go
<1>14. CASE Quiet
  BY <1>14 DEF Quiet, Go
<1>15. CASE Signal
  BY <1>15 DEF Signal, Go
<1>16. CASE OnResume
  BY <1>16 DEF OnResume
<1>17. CASE Wake
  BY <1>17 DEF Wake, Go
<1>18. CASE Resumed
  BY <1>18 DEF Resumed, Go
<1>19. CASE Open
  BY <1>19 DEF Open, Go
<1>20. CASE OpenSucceeds
  BY <1>20 DEF OpenSucceeds, Go
<1>21. CASE OpenFails
  BY <1>21 DEF OpenFails
<1>22. CASE NotOpened
  BY <1>22 DEF NotOpened
<1>23. CASE Failed
  BY <1>23 DEF Failed, Go
<1>24. CASE Opened
  BY <1>24 DEF Opened, Go
<1>25. CASE Unstopped
  BY <1>25 DEF Unstopped, Go
<1>26. CASE Process
  BY <1>26 DEF Process, Go
<1>27. CASE OnDestroy
  BY <1>27 DEF OnDestroy, Go
<1>28. CASE TaskBreaks
  BY <1>28 DEF TaskBreaks, Go
<1>29. CASE TaskCloses
  BY <1>29 DEF TaskCloses, Go
<1>30. CASE TaskEnds
  BY <1>30 DEF TaskEnds, Go
<1>31. CASE TaskReports
  BY <1>31 DEF TaskReports, Go
<1>32. CASE TaskDeleted
  BY <1>32 DEF TaskDeleted, Go
<1>33. CASE ProcessReturns
  BY <1>33 DEF ProcessReturns
<1>34. CASE Run
  BY <1>34 DEF Run, Ready
<1>35. CASE Resume
  BY <1>35 DEF Resume, Ready, Returns, Asks, Enter, Answer
<1>36. CASE Pause
  BY <1>36 DEF Pause, Ready, Enter, Returns, Asks, Answer
<1>37. CASE Stop
  BY <1>37 DEF Stop, Ready, Enter, Returns
<1>38. CASE WaitForStop
  BY <1>38 DEF WaitForStop, Ready, Enter
<1>39. CASE Terminate
  BY <1>39 DEF Terminate, Ready, Returns, Asks, Enter, Answer
<1>40. CASE Deinit
  BY <1>40 DEF Deinit, Enter
<1>41. CASE PauseForces
  BY <1>41 DEF PauseForces, Returns
<1>42. CASE StopMarks
  BY <1>42 DEF StopMarks, Returns
<1>43. CASE StopAborts
  BY <1>43 DEF StopAborts, Step
<1>44. CASE StopLooks
  BY <1>44 DEF StopLooks, Step
<1>45. CASE StopClears
  BY <1>45 DEF StopClears, Step
<1>46. CASE StopAsks
  BY <1>46, StopAsksOnce
<1>47. CASE Send
  BY <1>47 DEF Send, Step, Returns
<1>48. CASE SendFails
  BY <1>48 DEF SendFails, Returns
<1>49. CASE Answered
  BY <1>49 DEF Answered, Step, Returns
<1>50. CASE TimedOut
  BY <1>50 DEF TimedOut, Returns
<1>51. CASE ResetState
  BY <1>51 DEF ResetState, Returns
<1>52. CASE UNCHANGED vars
  BY <1>52 DEF vars
<1> QED
  BY <1>1, <1>2, <1>3, <1>4, <1>5, <1>6, <1>7, <1>8, <1>9, <1>10, <1>11,
     <1>12, <1>13, <1>14, <1>15, <1>16, <1>17, <1>18, <1>19, <1>20, <1>21,
     <1>22, <1>23, <1>24, <1>25, <1>26, <1>27, <1>28, <1>29, <1>30, <1>31,
     <1>32, <1>33, <1>34, <1>35, <1>36, <1>37, <1>38, <1>39, <1>40, <1>41,
     <1>42, <1>43, <1>44, <1>45, <1>46, <1>47, <1>48, <1>49, <1>50, <1>51,
     <1>52
     DEF Next, TaskStep, NewCall, CallStep

(* Commands are carried out while somebody waits.                           *)
LEMMA WaitNext ==
    ASSUME CalmApplication, CalmInv, [Next]_vars
    PROVE  WaitInv'
<1> USE DEF CalmApplication, CalmInv, PatientInv, IInv, PlacesInv, OpenInv,
       Waits, Replied, Pausing, Commands, Returning, Reopened, Resuming,
       GivingUp, TaskPlaces, task, application, QueueInv, WaitInv, AnswerInv,
       Resting, Ending
<1>1. CASE TaskStart
  BY <1>1 DEF TaskStart, Go
<1>2. CASE TaskReset
  BY <1>2 DEF TaskReset, Go
<1>3. CASE TaskUnstop
  BY <1>3 DEF TaskUnstop, Go
<1>4. CASE Await
  BY <1>4 DEF Await, Go
<1>5. CASE Take
  BY <1>5 DEF Take
<1>6. CASE OnPause
  BY <1>6 DEF OnPause, Go
<1>7. CASE OnPauseClose
  BY <1>7 DEF OnPauseClose, Go
<1>8. CASE OnPauseDone
  BY <1>8 DEF OnPauseDone, Go
<1>9. CASE OnStop
  BY <1>9 DEF OnStop
<1>10. CASE OnFinish
  BY <1>10 DEF OnFinish
<1>11. CASE OnError
  BY <1>11 DEF OnError
<1>12. CASE Close
  BY <1>12 DEF Close, Go
<1>13. CASE Settle
  BY <1>13 DEF Settle, Go
<1>14. CASE Quiet
  BY <1>14 DEF Quiet, Go
<1>15. CASE Signal
  BY <1>15 DEF Signal, Go
<1>16. CASE OnResume
  BY <1>16 DEF OnResume
<1>17. CASE Wake
  BY <1>17 DEF Wake, Go
<1>18. CASE Resumed
  BY <1>18 DEF Resumed, Go
<1>19. CASE Open
  BY <1>19 DEF Open, Go
<1>20. CASE OpenSucceeds
  BY <1>20 DEF OpenSucceeds, Go
<1>21. CASE OpenFails
  BY <1>21 DEF OpenFails
<1>22. CASE NotOpened
  BY <1>22 DEF NotOpened
<1>23. CASE Failed
  BY <1>23 DEF Failed, Go
<1>24. CASE Opened
  BY <1>24 DEF Opened, Go
<1>25. CASE Unstopped
  BY <1>25 DEF Unstopped, Go
<1>26. CASE Process
  BY <1>26 DEF Process, Go
<1>27. CASE OnDestroy
  BY <1>27 DEF OnDestroy, Go
<1>28. CASE TaskBreaks
  BY <1>28 DEF TaskBreaks, Go
<1>29. CASE TaskCloses
  BY <1>29 DEF TaskCloses, Go
<1>30. CASE TaskEnds
  BY <1>30 DEF TaskEnds, Go
<1>31. CASE TaskReports
  BY <1>31 DEF TaskReports, Go
<1>32. CASE TaskDeleted
  BY <1>32 DEF TaskDeleted, Go
<1>33. CASE ProcessReturns
  BY <1>33 DEF ProcessReturns
<1>34. CASE Run
  BY <1>34 DEF Run, Ready
<1>35. CASE Resume
  BY <1>35 DEF Resume, Ready, Returns, Asks, Enter, Answer
<1>36. CASE Pause
  BY <1>36 DEF Pause, Ready, Enter, Returns, Asks, Answer
<1>37. CASE Stop
  BY <1>37 DEF Stop, Ready, Enter, Returns
<1>38. CASE WaitForStop
  BY <1>38 DEF WaitForStop, Ready, Enter
<1>39. CASE Terminate
  BY <1>39 DEF Terminate, Ready, Returns, Asks, Enter, Answer
<1>40. CASE Deinit
  BY <1>40 DEF Deinit, Enter
<1>41. CASE PauseForces
  BY <1>41 DEF PauseForces, Returns
<1>42. CASE StopMarks
  BY <1>42 DEF StopMarks, Returns
<1>43. CASE StopAborts
  BY <1>43 DEF StopAborts, Step
<1>44. CASE StopLooks
  BY <1>44 DEF StopLooks, Step
<1>45. CASE StopClears
  BY <1>45 DEF StopClears, Step
<1>46. CASE StopAsks
  BY <1>46, StopAsksOnce
<1>47. CASE Send
  BY <1>47 DEF Send, Step, Returns
<1>48. CASE SendFails
  BY <1>48 DEF SendFails, Returns
<1>49. CASE Answered
  BY <1>49 DEF Answered, Step, Returns
<1>50. CASE TimedOut
  BY <1>50 DEF TimedOut, Returns
<1>51. CASE ResetState
  BY <1>51 DEF ResetState, Returns
<1>52. CASE UNCHANGED vars
  BY <1>52 DEF vars
<1> QED
  BY <1>1, <1>2, <1>3, <1>4, <1>5, <1>6, <1>7, <1>8, <1>9, <1>10, <1>11,
     <1>12, <1>13, <1>14, <1>15, <1>16, <1>17, <1>18, <1>19, <1>20, <1>21,
     <1>22, <1>23, <1>24, <1>25, <1>26, <1>27, <1>28, <1>29, <1>30, <1>31,
     <1>32, <1>33, <1>34, <1>35, <1>36, <1>37, <1>38, <1>39, <1>40, <1>41,
     <1>42, <1>43, <1>44, <1>45, <1>46, <1>47, <1>48, <1>49, <1>50, <1>51,
     <1>52
     DEF Next, TaskStep, NewCall, CallStep

(* What answers say, before and after they are seen.                        *)
LEMMA AnswerNext ==
    ASSUME CalmApplication, CalmInv, [Next]_vars
    PROVE  AnswerInv'
<1> USE DEF CalmApplication, CalmInv, PatientInv, IInv, TypeOK, PlacesInv,
       OpenInv, StartInv, PlayInv, QuietInv, Waits, Replied, Pausing, Waking,
       Reopening, Starting, Answer, Commands, Returning, Reopened, Dead,
       Resuming, GivingUp, TaskPlaces, task, application, QueueInv, WaitInv,
       AnswerInv, RunInv, SendsStop, StopQueued, Resting, Ending
<1>1. CASE TaskStart
  BY <1>1 DEF TaskStart, Go
<1>2. CASE TaskReset
  BY <1>2 DEF TaskReset, Go
<1>3. CASE TaskUnstop
  BY <1>3 DEF TaskUnstop, Go
<1>4. CASE Await
  BY <1>4 DEF Await, Go
<1>5. CASE Take
  BY <1>5 DEF Take
<1>6. CASE OnPause
  BY <1>6 DEF OnPause, Go
<1>7. CASE OnPauseClose
  BY <1>7 DEF OnPauseClose, Go
<1>8. CASE OnPauseDone
  BY <1>8 DEF OnPauseDone, Go
<1>9. CASE OnStop
  BY <1>9 DEF OnStop
<1>10. CASE OnFinish
  BY <1>10 DEF OnFinish
<1>11. CASE OnError
  BY <1>11 DEF OnError
<1>12. CASE Close
  BY <1>12 DEF Close, Go
<1>13. CASE Settle
  BY <1>13 DEF Settle, Go
<1>14. CASE Quiet
  BY <1>14 DEF Quiet, Go
<1>15. CASE Signal
  BY <1>15 DEF Signal, Go
<1>16. CASE OnResume
  BY <1>16 DEF OnResume
<1>17. CASE Wake
  BY <1>17 DEF Wake, Go
<1>18. CASE Resumed
  BY <1>18 DEF Resumed, Go
<1>19. CASE Open
  BY <1>19 DEF Open, Go
<1>20. CASE OpenSucceeds
  BY <1>20 DEF OpenSucceeds, Go
<1>21. CASE OpenFails
  BY <1>21 DEF OpenFails
<1>22. CASE NotOpened
  BY <1>22 DEF NotOpened
<1>23. CASE Failed
  BY <1>23 DEF Failed, Go
<1>24. CASE Opened
  BY <1>24 DEF Opened, Go
<1>25. CASE Unstopped
  BY <1>25 DEF Unstopped, Go
<1>26. CASE Process
  BY <1>26 DEF Process, Go
<1>27. CASE OnDestroy
  BY <1>27 DEF OnDestroy, Go
<1>28. CASE TaskBreaks
  BY <1>28 DEF TaskBreaks, Go
<1>29. CASE TaskCloses
  BY <1>29 DEF TaskCloses, Go
<1>30. CASE TaskEnds
  BY <1>30 DEF TaskEnds, Go
<1>31. CASE TaskReports
  BY <1>31 DEF TaskReports, Go
<1>32. CASE TaskDeleted
  BY <1>32 DEF TaskDeleted, Go
<1>33. CASE ProcessReturns
  BY <1>33 DEF ProcessReturns
<1>34. CASE Run
  BY <1>34 DEF Run, Ready
<1>35. CASE Resume
  BY <1>35 DEF Resume, Ready, Returns, Asks, Enter, Answer
<1>36. CASE Pause
  BY <1>36 DEF Pause, Ready, Enter, Returns, Asks, Answer
<1>37. CASE Stop
  BY <1>37 DEF Stop, Ready, Enter, Returns
<1>38. CASE WaitForStop
  BY <1>38 DEF WaitForStop, Ready, Enter
<1>39. CASE Terminate
  BY <1>39 DEF Terminate, Ready, Returns, Asks, Enter, Answer
<1>40. CASE Deinit
  BY <1>40 DEF Deinit, Enter
<1>41. CASE PauseForces
  BY <1>41 DEF PauseForces, Returns
<1>42. CASE StopMarks
  BY <1>42 DEF StopMarks, Returns
<1>43. CASE StopAborts
  BY <1>43 DEF StopAborts, Step
<1>44. CASE StopLooks
  BY <1>44 DEF StopLooks, Step
<1>45. CASE StopClears
  BY <1>45 DEF StopClears, Step
<1>46. CASE StopAsks
  BY <1>46, StopAsksOnce
<1>47. CASE Send
  BY <1>47 DEF Send, Step, Returns
<1>48. CASE SendFails
  BY <1>48 DEF SendFails, Returns
<1>49. CASE Answered
  BY <1>49 DEF Answered, Step, Returns
<1>50. CASE TimedOut
  BY <1>50 DEF TimedOut, Returns
<1>51. CASE ResetState
  BY <1>51 DEF ResetState, Returns
<1>52. CASE UNCHANGED vars
  BY <1>52 DEF vars
<1> QED
  BY <1>1, <1>2, <1>3, <1>4, <1>5, <1>6, <1>7, <1>8, <1>9, <1>10, <1>11,
     <1>12, <1>13, <1>14, <1>15, <1>16, <1>17, <1>18, <1>19, <1>20, <1>21,
     <1>22, <1>23, <1>24, <1>25, <1>26, <1>27, <1>28, <1>29, <1>30, <1>31,
     <1>32, <1>33, <1>34, <1>35, <1>36, <1>37, <1>38, <1>39, <1>40, <1>41,
     <1>42, <1>43, <1>44, <1>45, <1>46, <1>47, <1>48, <1>49, <1>50, <1>51,
     <1>52
     DEF Next, TaskStep, NewCall, CallStep

(* What the element is while a pause or a stop is under way.                *)
LEMMA RunNext ==
    ASSUME CalmApplication, CalmInv, [Next]_vars
    PROVE  RunInv'
<1> USE DEF CalmApplication, CalmInv, PatientInv, IInv, TypeOK, PlacesInv,
       PlayInv, Waits, Replied, Pausing, Commands, Calls, StopPlaces,
       Returning, Reopened, GivingUp, task, application, QueueInv, WaitInv,
       AnswerInv, RunInv, StopQueued, Resting, Ending
<1>1. CASE TaskStart
  BY <1>1 DEF TaskStart, Go
<1>2. CASE TaskReset
  BY <1>2 DEF TaskReset, Go
<1>3. CASE TaskUnstop
  BY <1>3 DEF TaskUnstop, Go
<1>4. CASE Await
  BY <1>4 DEF Await, Go
<1>5. CASE Take
  BY <1>5 DEF Take
<1>6. CASE OnPause
  BY <1>6 DEF OnPause, Go
<1>7. CASE OnPauseClose
  BY <1>7 DEF OnPauseClose, Go
<1>8. CASE OnPauseDone
  BY <1>8 DEF OnPauseDone, Go
<1>9. CASE OnStop
  BY <1>9 DEF OnStop
<1>10. CASE OnFinish
  BY <1>10 DEF OnFinish
<1>11. CASE OnError
  BY <1>11 DEF OnError
<1>12. CASE Close
  BY <1>12 DEF Close, Go
<1>13. CASE Settle
  BY <1>13 DEF Settle, Go
<1>14. CASE Quiet
  BY <1>14 DEF Quiet, Go
<1>15. CASE Signal
  BY <1>15 DEF Signal, Go
<1>16. CASE OnResume
  BY <1>16 DEF OnResume
<1>17. CASE Wake
  BY <1>17 DEF Wake, Go
<1>18. CASE Resumed
  BY <1>18 DEF Resumed, Go
<1>19. CASE Open
  BY <1>19 DEF Open, Go
<1>20. CASE OpenSucceeds
  BY <1>20 DEF OpenSucceeds, Go
<1>21. CASE OpenFails
  BY <1>21 DEF OpenFails
<1>22. CASE NotOpened
  BY <1>22 DEF NotOpened
<1>23. CASE Failed
  BY <1>23 DEF Failed, Go
<1>24. CASE Opened
  BY <1>24 DEF Opened, Go
<1>25. CASE Unstopped
  BY <1>25 DEF Unstopped, Go
<1>26. CASE Process
  BY <1>26 DEF Process, Go
<1>27. CASE OnDestroy
  BY <1>27 DEF OnDestroy, Go
<1>28. CASE TaskBreaks
  BY <1>28 DEF TaskBreaks, Go
<1>29. CASE TaskCloses
  BY <1>29 DEF TaskCloses, Go
<1>30. CASE TaskEnds
  BY <1>30 DEF TaskEnds, Go
<1>31. CASE TaskReports
  BY <1>31 DEF TaskReports, Go
<1>32. CASE TaskDeleted
  BY <1>32 DEF TaskDeleted, Go
<1>33. CASE ProcessReturns
  BY <1>33 DEF ProcessReturns
<1>34. CASE Run
  BY <1>34 DEF Run, Ready
<1>35. CASE Resume
  BY <1>35 DEF Resume, Ready, Returns, Asks, Enter, Answer
<1>36. CASE Pause
  BY <1>36 DEF Pause, Ready, Enter, Returns, Asks, Answer
<1>37. CASE Stop
  BY <1>37 DEF Stop, Ready, Enter, Returns
<1>38. CASE WaitForStop
  BY <1>38 DEF WaitForStop, Ready, Enter
<1>39. CASE Terminate
  BY <1>39 DEF Terminate, Ready, Returns, Asks, Enter, Answer
<1>40. CASE Deinit
  BY <1>40 DEF Deinit, Enter
<1>41. CASE PauseForces
  BY <1>41 DEF PauseForces, Returns
<1>42. CASE StopMarks
  BY <1>42 DEF StopMarks, Returns
<1>43. CASE StopAborts
  BY <1>43 DEF StopAborts, Step
<1>44. CASE StopLooks
  BY <1>44 DEF StopLooks, Step
<1>45. CASE StopClears
  BY <1>45 DEF StopClears, Step
<1>46. CASE StopAsks
  BY <1>46, StopAsksOnce
<1>47. CASE Send
  BY <1>47 DEF Send, Step, Returns
<1>48. CASE SendFails
  BY <1>48 DEF SendFails, Returns
<1>49. CASE Answered
  BY <1>49 DEF Answered, Step, Returns
<1>50. CASE TimedOut
  BY <1>50 DEF TimedOut, Returns
<1>51. CASE ResetState
  BY <1>51 DEF ResetState, Returns
<1>52. CASE UNCHANGED vars
  BY <1>52 DEF vars
<1> QED
  BY <1>1, <1>2, <1>3, <1>4, <1>5, <1>6, <1>7, <1>8, <1>9, <1>10, <1>11,
     <1>12, <1>13, <1>14, <1>15, <1>16, <1>17, <1>18, <1>19, <1>20, <1>21,
     <1>22, <1>23, <1>24, <1>25, <1>26, <1>27, <1>28, <1>29, <1>30, <1>31,
     <1>32, <1>33, <1>34, <1>35, <1>36, <1>37, <1>38, <1>39, <1>40, <1>41,
     <1>42, <1>43, <1>44, <1>45, <1>46, <1>47, <1>48, <1>49, <1>50, <1>51,
     <1>52
     DEF Next, TaskStep, NewCall, CallStep

(* An element that has just been initialised, and every step from there:    *)
(* the parts are inductive together.                                        *)
LEMMA CalmInit == Init => CalmInv
<1> SUFFICES ASSUME Init PROVE CalmInv
  OBVIOUS
<1>1. PatientInv
  BY PatientInit
<1>2. QueueInv /\ MarkInv /\ WaitInv /\ AnswerInv /\ RunInv
  BY DEF Init, QueueInv, MarkInv, WaitInv, AnswerInv, RunInv, Waits, Replied,
         SendsStop, StopQueued, Resting, Pausing, Ending, Starting, StopPlaces,
         Returning, Reopened
<1> QED
  BY <1>1, <1>2 DEF CalmInv

(* They hold for ever when the application is calm: no wait runs out.       *)
LEMMA CalmInvariance == ASSUME CalmApplication PROVE Spec => []CalmInv
<1>1. CalmInv /\ [Next]_vars => CalmInv'
  <2> SUFFICES ASSUME CalmInv, [Next]_vars PROVE CalmInv'
    OBVIOUS
  <2>1. Patient /\ PatientInv
    BY DEF CalmApplication, CalmInv
  <2>2. PatientInv'
    BY <2>1, PatientNext
  <2> QED
    BY <2>2, QueueNext, MarkNext, WaitNext, AnswerNext, RunNext DEF CalmInv
<1> QED
  BY <1>1, CalmInit, PTL DEF Spec

(* audio_event_iface_cmd is never refused for lack of room: what is sent    *)
(* finds at most one command in the queue.                                  *)
THEOREM CommandsHaveRoom ==
    ASSUME CalmApplication
    PROVE  Spec => []NothingRefused
<1>1. ASSUME CalmInv PROVE NothingRefused
  <2> SUFFICES ASSUME call = "send" PROVE Len(cmds) < QueueSize
    BY DEF NothingRefused
  <2>1. cmds \in {<<>>, <<"STOP">>}
    BY <1>1 DEF CalmInv, QueueInv, Waits
  <2>2. Len(<<>>) = 0 /\ Len(<<"STOP">>) = 1
    OBVIOUS
  <2> QED
    BY <2>1, <2>2, ElementAssumption DEF CalmApplication
<1> QED
  BY <1>1, CalmInvariance, PTL

(* The mark of audio_element_stop is worth what it says: there are never    *)
(* two stops in the queue, and the mark is gone when the task sleeps with   *)
(* nothing left to do.                                                      *)
THEOREM OneStopAtATime ==
    ASSUME CalmApplication
    PROVE  Spec => []StopMarked
<1>1. ASSUME CalmInv PROVE StopMarked
  <2>1. Cardinality({i \in DOMAIN cmds : cmds[i] = "STOP"}) <= 1
    <3> DEFINE stops == {i \in DOMAIN cmds : cmds[i] = "STOP"}
    <3>1. \A i, j \in stops : i = j
      <4>1. /\ DOMAIN <<>> = {}
            /\ DOMAIN <<"STOP">> = {1} /\ DOMAIN <<asking>> = {1}
            /\ DOMAIN <<"STOP", asking>> = {1, 2}
            /\ <<"STOP", asking>>[2] = asking
        OBVIOUS
      <4>2. \/ cmds \in {<<>>, <<"STOP">>}
            \/ asking # "STOP" /\ cmds \in {<<asking>>, <<"STOP", asking>>}
        BY <1>1 DEF CalmInv, QueueInv, Waits
      <4> QED
        BY <4>1, <4>2
    <3> HIDE DEF stops
    <3>2. stops = {} \/ \E i : stops = {i}
      BY <3>1
    <3>3. Cardinality(stops) <= 1
      <4>1. CASE stops = {}
        BY <4>1, FS_EmptySet
      <4>2. ASSUME NEW i, stops = {i} PROVE Cardinality(stops) <= 1
        BY <4>2, FS_Singleton
      <4> QED
        BY <3>2, <4>1, <4>2
    <3> QED
      BY <3>3 DEF stops
  <2>2. at = "blocked" /\ cmds = <<>> /\ call \notin {"stop", "send"} =>
          ~el.stopping
    BY <1>1 DEF CalmInv, MarkInv, StopQueued, SendsStop
  <2> QED
    BY <2>1, <2>2 DEF StopMarked
<1> QED
  BY <1>1, CalmInvariance, PTL

(* No earlier pause is left to take effect after a resume that reported     *)
(* success.                                                                 *)
THEOREM ResumeOutlastsPause ==
    ASSUME CalmApplication
    PROVE  Spec => []ResumedKeepsRunning
<1>1. ASSUME CalmInv PROVE ResumedKeepsRunning
  BY <1>1 DEF CalmInv, AnswerInv, ResumedKeepsRunning
<1> QED
  BY <1>1, CalmInvariance, PTL
=============================================================================
