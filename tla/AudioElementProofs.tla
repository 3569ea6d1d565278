-------------------------- MODULE AudioElementProofs --------------------------
(***************************************************************************)
(* What holds of an audio element for every length of its command queue,   *)
(* whatever the application calls, when it calls and which waits run out.  *)
(***************************************************************************)
EXTENDS AudioElement, TLAPS

(* The invariant holds of an element that has just been initialised.        *)
LEMMA InitIInv == Init => IInv
<1> SUFFICES ASSUME Init PROVE IInv
  OBVIOUS
<1>1. TypeOK
  <2>1. el \in [state : States, is_running : BOOLEAN, is_open : BOOLEAN,
                task_run : BOOLEAN, stopping : BOOLEAN, forever : BOOLEAN]
    BY DEF Init, States
  <2>2. cmds \in Seq(Commands) /\ Len(cmds) <= QueueSize
    BY ElementAssumption DEF Init
  <2>4. aborted \in BOOLEAN
    BY DEF Init
  <2>3. bits \subseteq Bits /\ goal \in States /\ asking \in Calls
        /\ last \in Calls \X {"OK", "FAIL"}
    BY DEF Init, Bits, States, Calls
  <2> QED
    BY <2>1, <2>2, <2>3, <2>4 DEF TypeOK
<1>2. PlacesInv /\ OpenInv /\ StateInv
  BY DEF Init, PlacesInv, OpenInv, StateInv, TaskPlaces, Created, Dead, Resuming,
         GivingUp, StopPlaces, Returning, Reopened, Settled
<1> QED
  BY <1>1, <1>2 DEF IInv

(* The step of audio_element_stop that may shorten the wait of the task     *)
(* changes nothing else that the task acts on.                              *)
LEMMA StopAsksEffect ==
    ASSUME TypeOK, StopAsks
    PROVE  /\ el' \in [state : States, is_running : BOOLEAN, is_open : BOOLEAN,
                       task_run : BOOLEAN, stopping : BOOLEAN, forever : BOOLEAN]
           /\ el'.state = el.state /\ el'.is_open = el.is_open
           /\ el'.is_running = el.is_running
           /\ el'.forever => el.forever
           /\ UNCHANGED <<bits, cmds, aborted, task, asking>>
           /\ last' \in Calls \X {"OK", "FAIL"}
           /\ call = "stop" /\ call' \in {"idle", "send"}
<1> DEFINE awake == IF el.state = "PAUSED" THEN FALSE ELSE el.forever
<1>1. awake \in BOOLEAN /\ (awake => el.forever)
  BY DEF TypeOK
<1>2. CASE el.stopping
  <2>1. el' = [el EXCEPT !.forever = awake] /\ Returns("STOP", "OK")
    BY <1>2 DEF StopAsks
  <2> HIDE DEF awake
  <2>2. last' \in Calls \X {"OK", "FAIL"} /\ call' = "idle" /\ UNCHANGED <<task, asking>>
    BY <2>1 DEF Returns, Calls, Commands
  <2> QED
    BY <1>1, <2>1, <2>2 DEF StopAsks, TypeOK
<1>3. CASE ~el.stopping
  <2>1. el' = [el EXCEPT !.forever = awake, !.stopping = TRUE] /\ Step("stop", "send")
    BY <1>3 DEF StopAsks
  <2> HIDE DEF awake
  <2>2. last' \in Calls \X {"OK", "FAIL"} /\ call' = "send" /\ UNCHANGED <<task, asking>>
    BY <2>1 DEF Step, TypeOK
  <2> QED
    BY <1>1, <2>1, <2>2 DEF StopAsks, TypeOK
<1> QED
  BY <1>2, <1>3

(* Every step of either task keeps the types.                               *)
LEMMA TypeNext == TypeOK /\ PlacesInv /\ [Next]_vars => TypeOK'
<1> SUFFICES ASSUME TypeOK, PlacesInv, [Next]_vars PROVE TypeOK'
  OBVIOUS
<1> USE ElementAssumption DEF TypeOK, States, Bits, Commands, Calls, application, task
<1>1. CASE TaskStart
  BY <1>1 DEF TaskStart, Go
<1>2. CASE TaskReset
  BY <1>2 DEF TaskReset, Go
<1>3. CASE TaskUnstop
  BY <1>3 DEF TaskUnstop, Go
<1>4. CASE Await
  BY <1>4 DEF Await, Go
<1>5. CASE Take
  BY <1>5 DEF Take
<1>6. CASE OnPause
  BY <1>6 DEF OnPause, Go
<1>7. CASE OnPauseClose
  BY <1>7 DEF OnPauseClose, Go
<1>8. CASE OnPauseDone
  BY <1>8 DEF OnPauseDone, Go
<1>9. CASE OnStop
  BY <1>9 DEF OnStop
<1>10. CASE OnFinish
  BY <1>10 DEF OnFinish
<1>11. CASE OnError
  BY <1>11 DEF OnError
<1>12. CASE Close
  BY <1>12 DEF Close, Go
<1>13. CASE Settle
  BY <1>13 DEF Settle, Go
<1>14. CASE Quiet
  BY <1>14 DEF Quiet, Go
<1>15. CASE Signal
  BY <1>15 DEF Signal, Go
<1>16. CASE OnResume
  BY <1>16 DEF OnResume
<1>17. CASE Wake
  BY <1>17 DEF Wake, Go
<1>18. CASE Resumed
  BY <1>18 DEF Resumed, Go
<1>19. CASE Open
  BY <1>19 DEF Open, Go
<1>20. CASE OpenSucceeds
  BY <1>20 DEF OpenSucceeds, Go
<1>21. CASE OpenFails
  BY <1>21 DEF OpenFails
<1>22. CASE NotOpened
  BY <1>22 DEF NotOpened
<1>23. CASE Failed
  BY <1>23 DEF Failed, Go
<1>24. CASE Opened
  BY <1>24 DEF Opened, Go
<1>25. CASE Unstopped
  BY <1>25 DEF Unstopped, Go
<1>26. CASE Process
  BY <1>26 DEF Process, Go
<1>27. CASE OnDestroy
  BY <1>27 DEF OnDestroy, Go
<1>28. CASE TaskBreaks
  BY <1>28 DEF TaskBreaks, Go
<1>29. CASE TaskCloses
  BY <1>29 DEF TaskCloses, Go
<1>30. CASE TaskEnds
  BY <1>30 DEF TaskEnds, Go
<1>31. CASE TaskReports
  BY <1>31 DEF TaskReports, Go
<1>32. CASE TaskDeleted
  BY <1>32 DEF TaskDeleted, Go
<1>33. CASE ProcessReturns
  BY <1>33 DEF ProcessReturns
<1>34. CASE Run
  BY <1>34 DEF Run
<1>35. CASE Resume
  BY <1>35 DEF Resume, Returns, Asks, Enter, Answer
<1>36. CASE Pause
  BY <1>36 DEF Pause, Enter, Returns, Asks, Answer
<1>37. CASE Stop
  BY <1>37 DEF Stop, Enter, Returns
<1>38. CASE WaitForStop
  BY <1>38 DEF WaitForStop, Enter
<1>39. CASE Terminate
  BY <1>39 DEF Terminate, Returns, Asks, Enter, Answer
<1>40. CASE Deinit
  BY <1>40 DEF Deinit, Enter
<1>41. CASE PauseForces
  BY <1>41 DEF PauseForces, Returns
<1>42. CASE StopMarks
  BY <1>42 DEF StopMarks, Returns
<1>43. CASE StopAborts
  BY <1>43 DEF StopAborts, Step
<1>44. CASE StopLooks
  BY <1>44 DEF StopLooks, Step
<1>45. CASE StopClears
  BY <1>45 DEF StopClears, Step
<1>46. CASE StopAsks
  BY <1>46, StopAsksEffect DEF task
<1>47. CASE Send
  BY <1>47 DEF Send, Step, Returns, PlacesInv
<1>48. CASE SendFails
  BY <1>48 DEF SendFails, Returns
<1>49. CASE Answered
  BY <1>49 DEF Answered, Step, Returns, Answer
<1>50. CASE TimedOut
  BY <1>50 DEF TimedOut, Returns, Answer
<1>51. CASE ResetState
  BY <1>51 DEF ResetState, Returns
<1>52. CASE UNCHANGED vars
  BY <1>52 DEF vars, task, application
<1> QED
  BY <1>1, <1>2, <1>3, <1>4, <1>5, <1>6, <1>7, <1>8, <1>9, <1>10, <1>11, <1>12,
     <1>13, <1>14, <1>15, <1>16, <1>17, <1>18, <1>19, <1>20, <1>21, <1>22,
     <1>23, <1>24, <1>25, <1>26, <1>27, <1>28, <1>29, <1>30, <1>31, <1>32,
     <1>33, <1>34, <1>35, <1>36, <1>37, <1>38, <1>39, <1>40, <1>41, <1>42,
     <1>43, <1>44, <1>45, <1>46, <1>47, <1>48, <1>49, <1>50, <1>51, <1>52
     DEF Next, TaskStep, NewCall, CallStep

(* Every step leads to a place of its task, with a handler to return to.    *)
LEMMA PlacesNext == TypeOK /\ PlacesInv /\ [Next]_vars => PlacesInv'
<1> SUFFICES ASSUME TypeOK, PlacesInv, [Next]_vars PROVE PlacesInv'
  OBVIOUS
<1> USE DEF TypeOK, PlacesInv, TaskPlaces, StopPlaces, Created, Dead, Resuming,
       GivingUp, Returning, Reopened, task, application
<1>1. CASE TaskStart
  BY <1>1 DEF TaskStart, Go
<1>2. CASE TaskReset
  BY <1>2 DEF TaskReset, Go
<1>3. CASE TaskUnstop
  BY <1>3 DEF TaskUnstop, Go
<1>4. CASE Await
  BY <1>4 DEF Await, Go
<1>5. CASE Take
  BY <1>5 DEF Take, Commands
<1>6. CASE OnPause
  BY <1>6 DEF OnPause, Go
<1>7. CASE OnPauseClose
  BY <1>7 DEF OnPauseClose, Go
<1>8. CASE OnPauseDone
  BY <1>8 DEF OnPauseDone, Go
<1>9. CASE OnStop
  BY <1>9 DEF OnStop
<1>10. CASE OnFinish
  BY <1>10 DEF OnFinish
<1>11. CASE OnError
  BY <1>11 DEF OnError
<1>12. CASE Close
  BY <1>12 DEF Close, Go
<1>13. CASE Settle
  BY <1>13 DEF Settle, Go
<1>14. CASE Quiet
  BY <1>14 DEF Quiet, Go
<1>15. CASE Signal
  BY <1>15 DEF Signal, Go
<1>16. CASE OnResume
  BY <1>16 DEF OnResume
<1>17. CASE Wake
  BY <1>17 DEF Wake, Go
<1>18. CASE Resumed
  BY <1>18 DEF Resumed, Go
<1>19. CASE Open
  BY <1>19 DEF Open, Go
<1>20. CASE OpenSucceeds
  BY <1>20 DEF OpenSucceeds, Go
<1>21. CASE OpenFails
  BY <1>21 DEF OpenFails
<1>22. CASE NotOpened
  BY <1>22 DEF NotOpened
<1>23. CASE Failed
  BY <1>23 DEF Failed, Go
<1>24. CASE Opened
  BY <1>24 DEF Opened, Go
<1>25. CASE Unstopped
  BY <1>25 DEF Unstopped, Go
<1>26. CASE Process
  BY <1>26 DEF Process, Go
<1>27. CASE OnDestroy
  BY <1>27 DEF OnDestroy, Go
<1>28. CASE TaskBreaks
  BY <1>28 DEF TaskBreaks, Go
<1>29. CASE TaskCloses
  BY <1>29 DEF TaskCloses, Go
<1>30. CASE TaskEnds
  BY <1>30 DEF TaskEnds, Go
<1>31. CASE TaskReports
  BY <1>31 DEF TaskReports, Go
<1>32. CASE TaskDeleted
  BY <1>32 DEF TaskDeleted, Go
<1>33. CASE ProcessReturns
  BY <1>33 DEF ProcessReturns
<1>34. CASE Run
  BY <1>34 DEF Run
<1>35. CASE Resume
  BY <1>35 DEF Resume, Returns, Asks, Enter, Commands
<1>36. CASE Pause
  BY <1>36 DEF Pause, Enter, Returns, Asks, Commands
<1>37. CASE Stop
  BY <1>37 DEF Stop, Enter, Returns
<1>38. CASE WaitForStop
  BY <1>38 DEF WaitForStop, Enter
<1>39. CASE Terminate
  BY <1>39 DEF Terminate, Returns, Asks, Enter, Commands
<1>40. CASE Deinit
  BY <1>40 DEF Deinit, Enter
<1>41. CASE PauseForces
  BY <1>41 DEF PauseForces, Returns
<1>42. CASE StopMarks
  BY <1>42 DEF StopMarks, Returns
<1>43. CASE StopAborts
  BY <1>43 DEF StopAborts, Step
<1>44. CASE StopLooks
  BY <1>44 DEF StopLooks, Step
<1>45. CASE StopClears
  BY <1>45 DEF StopClears, Step
<1>46. CASE StopAsks
  BY <1>46, StopAsksEffect DEF Commands
<1>47. CASE Send
  BY <1>47 DEF Send, Step, Returns
<1>48. CASE SendFails
  BY <1>48 DEF SendFails, Returns
<1>49. CASE Answered
  BY <1>49 DEF Answered, Step, Returns
<1>50. CASE TimedOut
  BY <1>50 DEF TimedOut, Returns
<1>51. CASE ResetState
  BY <1>51 DEF ResetState, Returns
<1>52. CASE UNCHANGED vars
  BY <1>52 DEF vars
<1> QED
  BY <1>1, <1>2, <1>3, <1>4, <1>5, <1>6, <1>7, <1>8, <1>9, <1>10, <1>11, <1>12,
     <1>13, <1>14, <1>15, <1>16, <1>17, <1>18, <1>19, <1>20, <1>21, <1>22,
     <1>23, <1>24, <1>25, <1>26, <1>27, <1>28, <1>29, <1>30, <1>31, <1>32,
     <1>33, <1>34, <1>35, <1>36, <1>37, <1>38, <1>39, <1>40, <1>41, <1>42,
     <1>43, <1>44, <1>45, <1>46, <1>47, <1>48, <1>49, <1>50, <1>51, <1>52
     DEF Next, TaskStep, NewCall, CallStep

(* Every step keeps what is_open, is_running and the wait are at each place *)
(* of the task.                                                             *)
LEMMA OpenNext == TypeOK /\ PlacesInv /\ OpenInv /\ StateInv /\ [Next]_vars => OpenInv'
<1> SUFFICES ASSUME TypeOK, PlacesInv, OpenInv, StateInv, [Next]_vars PROVE OpenInv'
  OBVIOUS
<1> USE DEF TypeOK, PlacesInv, OpenInv, StateInv, Settled, TaskPlaces,
       StopPlaces, Created, Dead, Resuming, GivingUp, Returning, Reopened,
       task, application
<1>1. CASE TaskStart
  BY <1>1 DEF TaskStart, Go
<1>2. CASE TaskReset
  BY <1>2 DEF TaskReset, Go
<1>3. CASE TaskUnstop
  BY <1>3 DEF TaskUnstop, Go
<1>4. CASE Await
  BY <1>4 DEF Await, Go
<1>5. CASE Take
  BY <1>5 DEF Take, Commands
<1>6. CASE OnPause
  BY <1>6 DEF OnPause, Go
<1>7. CASE OnPauseClose
  BY <1>7 DEF OnPauseClose, Go
<1>8. CASE OnPauseDone
  BY <1>8 DEF OnPauseDone, Go
<1>9. CASE OnStop
  BY <1>9 DEF OnStop
<1>10. CASE OnFinish
  BY <1>10 DEF OnFinish
<1>11. CASE OnError
  BY <1>11 DEF OnError
<1>12. CASE Close
  BY <1>12 DEF Close, Go
<1>13. CASE Settle
  BY <1>13 DEF Settle, Go
<1>14. CASE Quiet
  BY <1>14 DEF Quiet, Go
<1>15. CASE Signal
  BY <1>15 DEF Signal, Go
<1>16. CASE OnResume
  BY <1>16 DEF OnResume
<1>17. CASE Wake
  BY <1>17 DEF Wake, Go
<1>18. CASE Resumed
  BY <1>18 DEF Resumed, Go
<1>19. CASE Open
  BY <1>19 DEF Open, Go
<1>20. CASE OpenSucceeds
  BY <1>20 DEF OpenSucceeds, Go
<1>21. CASE OpenFails
  BY <1>21 DEF OpenFails
<1>22. CASE NotOpened
  BY <1>22 DEF NotOpened
<1>23. CASE Failed
  BY <1>23 DEF Failed, Go
<1>24. CASE Opened
  BY <1>24 DEF Opened, Go
<1>25. CASE Unstopped
  BY <1>25 DEF Unstopped, Go
<1>26. CASE Process
  BY <1>26 DEF Process, Go
<1>27. CASE OnDestroy
  BY <1>27 DEF OnDestroy, Go
<1>28. CASE TaskBreaks
  BY <1>28 DEF TaskBreaks, Go
<1>29. CASE TaskCloses
  BY <1>29 DEF TaskCloses, Go
<1>30. CASE TaskEnds
  BY <1>30 DEF TaskEnds, Go
<1>31. CASE TaskReports
  BY <1>31 DEF TaskReports, Go
<1>32. CASE TaskDeleted
  BY <1>32 DEF TaskDeleted, Go
<1>33. CASE ProcessReturns
  BY <1>33 DEF ProcessReturns
<1>34. CASE Run
  BY <1>34 DEF Run
<1>35. CASE Resume
  BY <1>35 DEF Resume, Returns, Asks, Enter, Commands
<1>36. CASE Pause
  BY <1>36 DEF Pause, Enter, Returns, Asks, Commands
<1>37. CASE Stop
  BY <1>37 DEF Stop, Enter, Returns
<1>38. CASE WaitForStop
  BY <1>38 DEF WaitForStop, Enter
<1>39. CASE Terminate
  BY <1>39 DEF Terminate, Returns, Asks, Enter, Commands
<1>40. CASE Deinit
  BY <1>40 DEF Deinit, Enter
<1>41. CASE PauseForces
  BY <1>41 DEF PauseForces, Returns
<1>42. CASE StopMarks
  BY <1>42 DEF StopMarks, Returns
<1>43. CASE StopAborts
  BY <1>43 DEF StopAborts, Step
<1>44. CASE StopLooks
  BY <1>44 DEF StopLooks, Step
<1>45. CASE StopClears
  BY <1>45 DEF StopClears, Step
<1>46. CASE StopAsks
  BY <1>46, StopAsksEffect
<1>47. CASE Send
  BY <1>47 DEF Send, Step, Returns
<1>48. CASE SendFails
  BY <1>48 DEF SendFails, Returns
<1>49. CASE Answered
  BY <1>49 DEF Answered, Step, Returns
<1>50. CASE TimedOut
  BY <1>50 DEF TimedOut, Returns
<1>51. CASE ResetState
  BY <1>51 DEF ResetState, Returns
<1>52. CASE UNCHANGED vars
  BY <1>52 DEF vars
<1> QED
  BY <1>1, <1>2, <1>3, <1>4, <1>5, <1>6, <1>7, <1>8, <1>9, <1>10, <1>11, <1>12,
     <1>13, <1>14, <1>15, <1>16, <1>17, <1>18, <1>19, <1>20, <1>21, <1>22,
     <1>23, <1>24, <1>25, <1>26, <1>27, <1>28, <1>29, <1>30, <1>31, <1>32,
     <1>33, <1>34, <1>35, <1>36, <1>37, <1>38, <1>39, <1>40, <1>41, <1>42,
     <1>43, <1>44, <1>45, <1>46, <1>47, <1>48, <1>49, <1>50, <1>51, <1>52
     DEF Next, TaskStep, NewCall, CallStep

(* Every step, PauseForces and ResetState of the application included,      *)
(* keeps what the state says of is_open.                                    *)
LEMMA StateNext == TypeOK /\ PlacesInv /\ OpenInv /\ StateInv /\ [Next]_vars => StateInv'
<1> SUFFICES ASSUME TypeOK, PlacesInv, OpenInv, StateInv, [Next]_vars PROVE StateInv'
  OBVIOUS
<1> USE DEF TypeOK, PlacesInv, OpenInv, StateInv, Settled, TaskPlaces,
       StopPlaces, Created, Dead, Resuming, GivingUp, Returning, Reopened,
       task, application
<1>1. CASE TaskStart
  BY <1>1 DEF TaskStart, Go
<1>2. CASE TaskReset
  BY <1>2 DEF TaskReset, Go
<1>3. CASE TaskUnstop
  BY <1>3 DEF TaskUnstop, Go
<1>4. CASE Await
  BY <1>4 DEF Await, Go
<1>5. CASE Take
  BY <1>5 DEF Take, Commands
<1>6. CASE OnPause
  BY <1>6 DEF OnPause, Go
<1>7. CASE OnPauseClose
  BY <1>7 DEF OnPauseClose, Go
<1>8. CASE OnPauseDone
  BY <1>8 DEF OnPauseDone, Go
<1>9. CASE OnStop
  BY <1>9 DEF OnStop
<1>10. CASE OnFinish
  BY <1>10 DEF OnFinish
<1>11. CASE OnError
  BY <1>11 DEF OnError
<1>12. CASE Close
  BY <1>12 DEF Close, Go
<1>13. CASE Settle
  BY <1>13 DEF Settle, Go
<1>14. CASE Quiet
  BY <1>14 DEF Quiet, Go
<1>15. CASE Signal
  BY <1>15 DEF Signal, Go
<1>16. CASE OnResume
  BY <1>16 DEF OnResume
<1>17. CASE Wake
  BY <1>17 DEF Wake, Go
<1>18. CASE Resumed
  BY <1>18 DEF Resumed, Go
<1>19. CASE Open
  BY <1>19 DEF Open, Go
<1>20. CASE OpenSucceeds
  BY <1>20 DEF OpenSucceeds, Go
<1>21. CASE OpenFails
  BY <1>21 DEF OpenFails
<1>22. CASE NotOpened
  BY <1>22 DEF NotOpened
<1>23. CASE Failed
  BY <1>23 DEF Failed, Go
<1>24. CASE Opened
  BY <1>24 DEF Opened, Go
<1>25. CASE Unstopped
  BY <1>25 DEF Unstopped, Go
<1>26. CASE Process
  BY <1>26 DEF Process, Go
<1>27. CASE OnDestroy
  BY <1>27 DEF OnDestroy, Go
<1>28. CASE TaskBreaks
  BY <1>28 DEF TaskBreaks, Go
<1>29. CASE TaskCloses
  BY <1>29 DEF TaskCloses, Go
<1>30. CASE TaskEnds
  BY <1>30 DEF TaskEnds, Go
<1>31. CASE TaskReports
  BY <1>31 DEF TaskReports, Go
<1>32. CASE TaskDeleted
  BY <1>32 DEF TaskDeleted, Go
<1>33. CASE ProcessReturns
  BY <1>33 DEF ProcessReturns
<1>34. CASE Run
  BY <1>34 DEF Run
<1>35. CASE Resume
  BY <1>35 DEF Resume, Returns, Asks, Enter, Commands
<1>36. CASE Pause
  BY <1>36 DEF Pause, Enter, Returns, Asks, Commands
<1>37. CASE Stop
  BY <1>37 DEF Stop, Enter, Returns
<1>38. CASE WaitForStop
  BY <1>38 DEF WaitForStop, Enter
<1>39. CASE Terminate
  BY <1>39 DEF Terminate, Returns, Asks, Enter, Commands
<1>40. CASE Deinit
  BY <1>40 DEF Deinit, Enter
<1>41. CASE PauseForces
  BY <1>41 DEF PauseForces, Returns
<1>42. CASE StopMarks
  BY <1>42 DEF StopMarks, Returns
<1>43. CASE StopAborts
  BY <1>43 DEF StopAborts, Step
<1>44. CASE StopLooks
  BY <1>44 DEF StopLooks, Step
<1>45. CASE StopClears
  BY <1>45 DEF StopClears, Step
<1>46. CASE StopAsks
  BY <1>46, StopAsksEffect
<1>47. CASE Send
  BY <1>47 DEF Send, Step, Returns
<1>48. CASE SendFails
  BY <1>48 DEF SendFails, Returns
<1>49. CASE Answered
  BY <1>49 DEF Answered, Step, Returns
<1>50. CASE TimedOut
  BY <1>50 DEF TimedOut, Returns
<1>51. CASE ResetState
  BY <1>51 DEF ResetState, Returns
<1>52. CASE UNCHANGED vars
  BY <1>52 DEF vars
<1> QED
  BY <1>1, <1>2, <1>3, <1>4, <1>5, <1>6, <1>7, <1>8, <1>9, <1>10, <1>11, <1>12,
     <1>13, <1>14, <1>15, <1>16, <1>17, <1>18, <1>19, <1>20, <1>21, <1>22,
     <1>23, <1>24, <1>25, <1>26, <1>27, <1>28, <1>29, <1>30, <1>31, <1>32,
     <1>33, <1>34, <1>35, <1>36, <1>37, <1>38, <1>39, <1>40, <1>41, <1>42,
     <1>43, <1>44, <1>45, <1>46, <1>47, <1>48, <1>49, <1>50, <1>51, <1>52
     DEF Next, TaskStep, NewCall, CallStep

(* The invariant holds in every reachable state.                           *)
LEMMA Invariance == Spec => []IInv
<1>1. IInv /\ [Next]_vars => IInv'
  BY TypeNext, PlacesNext, OpenNext, StateNext DEF IInv
<1> QED
  BY InitIInv, <1>1, PTL DEF Spec

(* Every field, bit and command keeps its type, and the queue of commands   *)
(* its size, for every application.                                         *)
THEOREM TypeCorrect == Spec => []TypeOK
BY Invariance, PTL DEF IInv

(* A task that sleeps until the next command, or that has ended, has left   *)
(* its element closed and not running, whatever the application did.        *)
THEOREM AsleepCorrect == Spec => []AsleepIsClosed
<1>1. IInv => AsleepIsClosed
  BY DEF IInv, OpenInv, AsleepIsClosed, Created, Dead
<1> QED
  BY <1>1, Invariance, PTL

(* One step of the element and of its application is one step of the        *)
(* protocol of the callbacks, or none.                                      *)
LEMMA StepOfCallbacks ==
    IInv /\ IInv' /\ NeverReopened /\ [Next]_vars => [Callbacks!Next]_Phase
<1> SUFFICES ASSUME TypeOK, PlacesInv, OpenInv, StateInv, PlacesInv', OpenInv', NeverReopened, [Next]_vars
             PROVE  [Callbacks!Next]_Phase
  BY DEF IInv
<1> USE DEF TypeOK, PlacesInv, OpenInv, StateInv, Settled, Phase, Starting,
       TaskPlaces, StopPlaces,
            Created, Dead, Resuming, GivingUp, Returning, Reopened, task, application, NeverReopened
<1>1. CASE TaskStart
  BY <1>1 DEF TaskStart, Go
<1>2. CASE TaskReset
  BY <1>2 DEF TaskReset, Go
<1>3. CASE TaskUnstop
  BY <1>3 DEF TaskUnstop, Go
<1>4. CASE Await
  BY <1>4 DEF Await, Go
<1>5. CASE Take
  BY <1>5 DEF Take, Commands
<1>6. CASE OnPause
  BY <1>6 DEF OnPause, Go
<1>7. CASE OnPauseClose
  BY <1>7 DEF OnPauseClose, Go, Callbacks!Next, Callbacks!Close
<1>8. CASE OnPauseDone
  BY <1>8 DEF OnPauseDone, Go
<1>9. CASE OnStop
  BY <1>9 DEF OnStop
<1>10. CASE OnFinish
  BY <1>10 DEF OnFinish
<1>11. CASE OnError
  BY <1>11 DEF OnError
<1>12. CASE Close
  BY <1>12 DEF Close, Go, Callbacks!Next, Callbacks!Close
<1>13. CASE Settle
  BY <1>13 DEF Settle, Go
<1>14. CASE Quiet
  BY <1>14 DEF Quiet, Go
<1>15. CASE Signal
  BY <1>15 DEF Signal, Go
<1>16. CASE OnResume
  BY <1>16 DEF OnResume
<1>17. CASE Wake
  BY <1>17 DEF Wake, Go
<1>18. CASE Resumed
  BY <1>18 DEF Resumed, Go
<1>19. CASE Open
  BY <1>19 DEF Open, Go, Callbacks!Next, Callbacks!Open
<1>20. CASE OpenSucceeds
  BY <1>20 DEF OpenSucceeds, Go, Callbacks!Next, Callbacks!OpenReturns
<1>21. CASE OpenFails
  BY <1>21 DEF OpenFails, Callbacks!Next, Callbacks!OpenReturns
<1>22. CASE NotOpened
  BY <1>22 DEF NotOpened
<1>23. CASE Failed
  BY <1>23 DEF Failed, Go
<1>24. CASE Opened
  BY <1>24 DEF Opened, Go
<1>25. CASE Unstopped
  BY <1>25 DEF Unstopped, Go
<1>26. CASE Process
  BY <1>26 DEF Process, Go, Callbacks!Next, Callbacks!Process
<1>27. CASE OnDestroy
  BY <1>27 DEF OnDestroy, Go
<1>28. CASE TaskBreaks
  BY <1>28 DEF TaskBreaks, Go
<1>29. CASE TaskCloses
  BY <1>29 DEF TaskCloses, Go, Callbacks!Next, Callbacks!Close
<1>30. CASE TaskEnds
  BY <1>30 DEF TaskEnds, Go
<1>31. CASE TaskReports
  BY <1>31 DEF TaskReports, Go
<1>32. CASE TaskDeleted
  BY <1>32 DEF TaskDeleted, Go
<1>33. CASE ProcessReturns
  BY <1>33 DEF ProcessReturns, Callbacks!Next, Callbacks!ProcessReturns
<1>34. CASE Run
  BY <1>34 DEF Run
<1>35. CASE Resume
  BY <1>35 DEF Resume, Returns, Asks, Enter
<1>36. CASE Pause
  BY <1>36 DEF Pause, Enter, Returns, Asks
<1>37. CASE Stop
  BY <1>37 DEF Stop, Enter, Returns
<1>38. CASE WaitForStop
  BY <1>38 DEF WaitForStop, Enter
<1>39. CASE Terminate
  BY <1>39 DEF Terminate, Returns, Asks, Enter
<1>40. CASE Deinit
  BY <1>40 DEF Deinit, Enter
<1>41. CASE PauseForces
  BY <1>41 DEF PauseForces, Returns
<1>42. CASE StopMarks
  BY <1>42 DEF StopMarks, Returns
<1>43. CASE StopAborts
  BY <1>43 DEF StopAborts, Step
<1>44. CASE StopLooks
  BY <1>44 DEF StopLooks, Step
<1>45. CASE StopClears
  BY <1>45 DEF StopClears, Step
<1>46. CASE StopAsks
  BY <1>46, StopAsksEffect
<1>47. CASE Send
  BY <1>47 DEF Send, Step, Returns
<1>48. CASE SendFails
  BY <1>48 DEF SendFails, Returns
<1>49. CASE Answered
  BY <1>49 DEF Answered, Step, Returns
<1>50. CASE TimedOut
  BY <1>50 DEF TimedOut, Returns
<1>51. CASE ResetState
  BY <1>51 DEF ResetState, Returns
<1>52. CASE UNCHANGED vars
  BY <1>52 DEF vars
<1> QED
  BY <1>1, <1>2, <1>3, <1>4, <1>5, <1>6, <1>7, <1>8, <1>9, <1>10, <1>11, <1>12,
     <1>13, <1>14, <1>15, <1>16, <1>17, <1>18, <1>19, <1>20, <1>21, <1>22,
     <1>23, <1>24, <1>25, <1>26, <1>27, <1>28, <1>29, <1>30, <1>31, <1>32,
     <1>33, <1>34, <1>35, <1>36, <1>37, <1>38, <1>39, <1>40, <1>41, <1>42,
     <1>43, <1>44, <1>45, <1>46, <1>47, <1>48, <1>49, <1>50, <1>51, <1>52
     DEF Next, TaskStep, NewCall, CallStep

(* As long as the application never has an open element opened again, the   *)
(* callbacks are called one at a time and in turn: process only between a   *)
(* successful open and its close, and one close for every open.             *)
THEOREM CallbacksInTurn == Spec /\ []NeverReopened => CallbacksSpec
<1>1. Init => Callbacks!Init
  BY DEF Init, Callbacks!Init, Phase
<1> QED
  BY <1>1, Invariance, StepOfCallbacks, PTL DEF Spec, CallbacksSpec, Callbacks!Spec
=============================================================================
