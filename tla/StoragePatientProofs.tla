------------------------ MODULE StoragePatientProofs ------------------------
(***************************************************************************)
(* What a patient application gets from Storage: the picture that it asked *)
(* for, under the name that it gave.  The invariant follows the name from  *)
(* the call to the answer, through both CPUs.                              *)
(***************************************************************************)
EXTENDS StorageProofs

(* A request that CPU1 has not answered.                                    *)
Pending == reply \in {"asked", "posted"}

(* The application waits for what it has asked, and has the storage open.   *)
CallInv ==
    /\ req = "capture" => call = "capture"
    /\ req = "save" => call \in {"save", "auto"}
    /\ req = "stop" => call = "stop"
    /\ req = "close" => call = "close"
    /\ req \in {"capture", "save", "stop", "close"} => stor # "disabled"
    /\ call \in {"capture", "save", "auto"} => target # None

(* Who waits for the end of a call finds no task in the middle of           *)
(* something, and capture_state says whether a task is busy.                *)
SettledInv ==
    /\ reply = "asked" \/ req = "open" =>
         appTask # "name" /\ task \notin {"captured", "save", "leave"}
    /\ req = "open" /\ reply = "ok" => state
    /\ state => task \notin {"none", "leave"}
    /\ capture => \/ task \in {"capture", "shown", "captured"} \cup Saving
                  \/ queue = <<"save">>

(* CPU0 has the storage open as long as CPU1 may show it a frame, with one  *)
(* message in its queue at most; and appCapture is left set by a video only.*)
AppInv ==
    /\ appQueue \in {<<>>, <<"capture">>, <<"save">>, <<"exit">>}
    /\ appQueue = <<"exit">> =>
         /\ call = "idle" /\ stor = "disabled"
         /\ task \in {"leave", "none"} /\ note = "none"
    /\ ~appState => /\ call = "idle" /\ stor = "disabled"
                    /\ task \in {"leave", "none"}
                    /\ name = None /\ ~appCapture /\ appQueue = <<>>
    /\ appState => appTask \notin {"leave", "none"}
    /\ req = "close" /\ reply = "ok" =>
         task \in {"leave", "none"} /\ appQueue = <<>>
    /\ appCapture => \/ task \in Saving \/ appQueue = <<"exit">>
                     \/ task = "shown" /\ note = "queued"
                     \/ /\ task # "shown" /\ req \in {"stop", "close"}
                        /\ reply \in {"posted", "ok"}

(* Where the frame that CPU1 shows to CPU0 is.                              *)
ShownInv ==
    /\ note = "capture" => task = "shown"
    /\ note = "save" => task = "saved"
    /\ appTask \in {"save", "video"} \/ appQueue = <<"save">> => task = "saved"
    /\ appTask = "capture" => task = "shown" /\ picture = None
    /\ appQueue = <<"capture">> =>
         appFrame # None /\ appCapture /\ task = "shown" /\ picture = None
    /\ appTask \in {"picture", "video"} => appFrame = None
    /\ appTask = "picture" => task = "shown" /\ ~appCapture /\ picture = target
    /\ appTask = "name" => /\ task \in {"shown", "captured", "idle"}
                           /\ note \in {"answered", "none"} /\ queue = <<>>
                           /\ \/ call = "idle"
                              \/ call = "capture" /\ picture = target

(* The name that was given is there until the picture, or the video, is     *)
(* written under it.                                                        *)
NameInv ==
    /\ task \in {"capture"} \cup Saving => name # None
    /\ req = "save" /\ Pending => name # None
    /\ call = "capture" /\ req = "open" => picture = None
    /\ req = "capture" /\ Pending /\ task # "shown" => picture = None
    /\ req = "capture" /\ Pending /\ picture = None /\ task \notin Saving =>
         name = target /\ name # None
    /\ task = "shown" /\ note = "capture" => picture = None
    /\ task = "shown" /\ note = "answered" => picture = target
    /\ appTask \in {"capture", "save"} => name # None
    /\ req = "capture" /\ reply = "ok" => task \in Saving \/ picture = target

PatientInv == CallInv /\ SettledInv /\ AppInv /\ ShownInv /\ NameInv
-----------------------------------------------------------------------------
(* The messages of CPU0, one at a time.                                     *)
LEMMA AppQueued ==
    /\ \A m : Len(<<m>>) = 1 /\ Append(<<>>, m) = <<m>> /\ <<m>> # <<>>
    /\ \A m : Head(<<m>>) = m /\ Tail(<<m>>) = <<>>
    /\ Len(<<>>) = 0
    /\ HasData(<<"capture">>) /\ HasData(<<"save">>)
<1>1. HasData(<<"capture">>) /\ HasData(<<"save">>)
  <2>1. DataAt(<<"capture">>, 1) /\ DataAt(<<"save">>, 1)
    BY DEF DataAt
  <2> QED
    BY <2>1 DEF HasData
<1> QED
  BY <1>1, OneQueued

(* What the application has asked for stays what it waits for.              *)
LEMMA CallNext ==
    ASSUME IInv, PatientInv, ~hasty, [Next]_vars
    PROVE  CallInv'
<1> USE StorageAssumption DEF IInv, PatientInv, CallInv, caller, wire
<1>1. CASE Enable
  BY <1>1 DEF Enable, MayCall, AppOpen, Ask
<1>2. CASE Stop
  BY <1>2 DEF Stop, MayCall, Ask
<1>3. CASE Close
  BY <1>3 DEF Close, MayCall, Ask
<1>4. ASSUME NEW op \in {"capture", "save", "auto"},
            NEW n \in Name \cup {AutoName}, Begin(op, n)
     PROVE  CallInv'
  BY <1>4 DEF Begin, MayCall, AppOpen, AskFor, Ask
<1>5. CASE Opened
  BY <1>5 DEF Opened, AskFor, Ask
<1>6. CASE Begun
  BY <1>6 DEF Begun
<1>7. CASE Stopped
  BY <1>7 DEF Stopped
<1>8. CASE Closed
  BY <1>8 DEF Closed, Accepts
<1>9. CASE CaptureNotified
  BY <1>9 DEF CaptureNotified, Refused, Taken, Accepts
<1>10. CASE SaveNotified
  BY <1>10 DEF SaveNotified, Refused, Taken, Accepts
<1>11. ASSUME NEW m \in {"capture", "save"}, TaskData(m) PROVE CallInv'
  BY <1>11 DEF TaskData, AppTakes
<1>12. CASE PictureWritten
  BY <1>12 DEF PictureWritten
<1>13. CASE PictureAnswered
  BY <1>13 DEF PictureAnswered
<1>14. CASE NameFreed
  BY <1>14 DEF NameFreed
<1>15. CASE VideoWritten
  BY <1>15 DEF VideoWritten
<1>16. CASE VideoAnswered
  BY <1>16 DEF VideoAnswered
<1>17. CASE TaskExit
  BY <1>17 DEF TaskExit, AppTakes
<1>18. CASE TaskLeaves
  BY <1>18 DEF TaskLeaves
<1>19. CASE UiOpen
  BY <1>19 DEF UiOpen
<1>20. CASE UiClose
  BY <1>20 DEF UiClose, Post, Accepts
<1>21. CASE UiCapture
  BY <1>21 DEF UiCapture, Post, Accepts
<1>22. CASE UiSave
  BY <1>22 DEF UiSave, Post, Accepts
<1>23. CASE UiStop
  BY <1>23 DEF UiStop, Post, Accepts
<1>24. CASE CaptureBegins
  BY <1>24 DEF CaptureBegins, Takes
<1>25. CASE CaptureReadNull
  BY <1>25 DEF CaptureReadNull
<1>26. CASE CaptureAnswered
  BY <1>26 DEF CaptureAnswered
<1>27. CASE CaptureEnds
  BY <1>27 DEF CaptureEnds
<1>28. CASE SaveAnswers
  BY <1>28 DEF SaveAnswers, Takes
<1>29. CASE SaveBegins
  BY <1>29 DEF SaveBegins
<1>30. CASE LoopCheck
  BY <1>30 DEF LoopCheck
<1>31. CASE SaveReadNull
  BY <1>31 DEF SaveReadNull
<1>32. CASE SaveAnswered
  BY <1>32 DEF SaveAnswered
<1>33. CASE StopAnswers
  BY <1>33 DEF StopAnswers, Takes
<1>34. CASE ExitAnswers
  BY <1>34 DEF ExitAnswers, Takes
<1>35. CASE Leaves
  BY <1>35 DEF Leaves
<1>36. ASSUME NEW f \in Frame, CaptureRead(f) PROVE CallInv'
  BY <1>36 DEF CaptureRead
<1>37. ASSUME NEW f \in Frame, SaveRead(f) PROVE CallInv'
  BY <1>37 DEF SaveRead
<1>38. CASE UNCHANGED vars
  BY <1>38 DEF vars
<1> QED
  BY <1>1, <1>2, <1>3, <1>4, <1>5, <1>6, <1>7, <1>8, <1>9, <1>10, <1>11,
     <1>12, <1>13, <1>14, <1>15, <1>16, <1>17, <1>18, <1>19, <1>20, <1>21,
     <1>22, <1>23, <1>24, <1>25, <1>26, <1>27, <1>28, <1>29, <1>30, <1>31,
     <1>32, <1>33, <1>34, <1>35, <1>36, <1>37, <1>38
     DEF Next, AppCall, AppStep, NoteStep, WorkerStep, UiStep, TaskStep

(* Calls that have ended leave no task in the middle of something.          *)
LEMMA SettledNext ==
    ASSUME IInv, PatientInv, ~hasty, [Next]_vars
    PROVE  SettledInv'
<1> USE SizeKnown DEF IInv, QueueInv, MajorInv, PatientInv, SettledInv,
       ShownInv, Settled, Saving, wire, worker, major, thread
<1>1. CASE Enable
  BY <1>1 DEF Enable, MayCall, AppOpen, Ask
<1>2. CASE Stop
  BY <1>2 DEF Stop, MayCall, Ask
<1>3. CASE Close
  BY <1>3 DEF Close, MayCall, Ask
<1>4. ASSUME NEW op \in {"capture", "save", "auto"},
            NEW n \in Name \cup {AutoName}, Begin(op, n)
     PROVE  SettledInv'
  BY <1>4 DEF Begin, MayCall, AppOpen, AskFor, Ask
<1>5. CASE Opened
  BY <1>5 DEF Opened, AskFor, Ask
<1>6. CASE Begun
  BY <1>6 DEF Begun
<1>7. CASE Stopped
  BY <1>7 DEF Stopped
<1>8. CASE Closed
  BY <1>8 DEF Closed, Accepts
<1>9. CASE CaptureNotified
  BY <1>9 DEF CaptureNotified, Refused, Taken, Accepts
<1>10. CASE SaveNotified
  BY <1>10 DEF SaveNotified, Refused, Taken, Accepts
<1>11. ASSUME NEW m \in {"capture", "save"}, TaskData(m) PROVE SettledInv'
  BY <1>11 DEF TaskData, AppTakes
<1>12. CASE PictureWritten
  BY <1>12 DEF PictureWritten
<1>13. CASE PictureAnswered
  BY <1>13 DEF PictureAnswered
<1>14. CASE NameFreed
  BY <1>14 DEF NameFreed
<1>15. CASE VideoWritten
  BY <1>15 DEF VideoWritten
<1>16. CASE VideoAnswered
  BY <1>16 DEF VideoAnswered
<1>17. CASE TaskExit
  BY <1>17 DEF TaskExit, AppTakes
<1>18. CASE TaskLeaves
  BY <1>18 DEF TaskLeaves
<1>19. CASE UiOpen
  BY <1>19 DEF UiOpen
<1>20. CASE UiClose
  BY <1>20 DEF UiClose, Post, Accepts
<1>21. CASE UiCapture
  BY <1>21 DEF UiCapture, Post, Accepts
<1>22. CASE UiSave
  BY <1>22 DEF UiSave, Post, Accepts
<1>23. CASE UiStop
  BY <1>23 DEF UiStop, Post, Accepts
<1>24. CASE CaptureBegins
  BY <1>24 DEF CaptureBegins, Takes
<1>25. CASE CaptureReadNull
  BY <1>25 DEF CaptureReadNull
<1>26. CASE CaptureAnswered
  BY <1>26 DEF CaptureAnswered
<1>27. CASE CaptureEnds
  BY <1>27 DEF CaptureEnds
<1>28. CASE SaveAnswers
  BY <1>28 DEF SaveAnswers, Takes
<1>29. CASE SaveBegins
  BY <1>29 DEF SaveBegins
<1>30. CASE LoopCheck
  BY <1>30 DEF LoopCheck
<1>31. CASE SaveReadNull
  BY <1>31 DEF SaveReadNull
<1>32. CASE SaveAnswered
  BY <1>32 DEF SaveAnswered
<1>33. CASE StopAnswers
  BY <1>33 DEF StopAnswers, Takes
<1>34. CASE ExitAnswers
  BY <1>34 DEF ExitAnswers, Takes
<1>35. CASE Leaves
  BY <1>35 DEF Leaves
<1>36. ASSUME NEW f \in Frame, CaptureRead(f) PROVE SettledInv'
  BY <1>36 DEF CaptureRead
<1>37. ASSUME NEW f \in Frame, SaveRead(f) PROVE SettledInv'
  BY <1>37 DEF SaveRead
<1>38. CASE UNCHANGED vars
  BY <1>38 DEF vars
<1> QED
  BY <1>1, <1>2, <1>3, <1>4, <1>5, <1>6, <1>7, <1>8, <1>9, <1>10, <1>11,
     <1>12, <1>13, <1>14, <1>15, <1>16, <1>17, <1>18, <1>19, <1>20, <1>21,
     <1>22, <1>23, <1>24, <1>25, <1>26, <1>27, <1>28, <1>29, <1>30, <1>31,
     <1>32, <1>33, <1>34, <1>35, <1>36, <1>37, <1>38
     DEF Next, AppCall, AppStep, NoteStep, WorkerStep, UiStep, TaskStep

(* CPU0 stays open, with one message queued, as long as CPU1 uses it.       *)
LEMMA AppNext ==
    ASSUME IInv, PatientInv, ~hasty, [Next]_vars
    PROVE  AppInv'
<1> USE StorageAssumption, SizeKnown DEF IInv, QueueInv, MajorInv, NoteInv,
       StopIsQuiet, PatientInv, AppInv, ShownInv, Settled, Saving, Working,
       caller, wire, info, worker, thread
<1>1. CASE Enable
  BY <1>1 DEF Enable, MayCall, AppOpen, Ask
<1>2. CASE Stop
  BY <1>2 DEF Stop, MayCall, Ask
<1>3. CASE Close
  BY <1>3 DEF Close, MayCall, Ask
<1>4. ASSUME NEW op \in {"capture", "save", "auto"},
            NEW n \in Name \cup {AutoName}, Begin(op, n)
     PROVE  AppInv'
  BY <1>4 DEF Begin, MayCall, AppOpen, AskFor, Ask
<1>5. CASE Opened
  BY <1>5 DEF Opened, AskFor, Ask
<1>6. CASE Begun
  BY <1>6 DEF Begun
<1>7. CASE Stopped
  BY <1>7 DEF Stopped
<1>8. CASE Closed
  BY <1>8 DEF Closed, Accepts
<1>9. CASE CaptureNotified
  BY <1>9, AppQueued DEF CaptureNotified, Refused, Taken, Accepts
<1>10. CASE SaveNotified
  BY <1>10, AppQueued DEF SaveNotified, Refused, Taken, Accepts
<1>11. ASSUME NEW m \in {"capture", "save"}, TaskData(m) PROVE AppInv'
  BY <1>11, OneQueued DEF TaskData, AppTakes
<1>12. CASE PictureWritten
  BY <1>12 DEF PictureWritten
<1>13. CASE PictureAnswered
  BY <1>13 DEF PictureAnswered
<1>14. CASE NameFreed
  BY <1>14 DEF NameFreed
<1>15. CASE VideoWritten
  BY <1>15 DEF VideoWritten
<1>16. CASE VideoAnswered
  BY <1>16 DEF VideoAnswered
<1>17. CASE TaskExit
  BY <1>17 DEF TaskExit, AppTakes
<1>18. CASE TaskLeaves
  BY <1>18 DEF TaskLeaves
<1>19. CASE UiOpen
  BY <1>19 DEF UiOpen
<1>20. CASE UiClose
  BY <1>20 DEF UiClose, Post, Accepts
<1>21. CASE UiCapture
  BY <1>21 DEF UiCapture, Post, Accepts
<1>22. CASE UiSave
  BY <1>22 DEF UiSave, Post, Accepts
<1>23. CASE UiStop
  BY <1>23 DEF UiStop, Post, Accepts
<1>24. CASE CaptureBegins
  BY <1>24 DEF CaptureBegins, Takes
<1>25. CASE CaptureReadNull
  BY <1>25 DEF CaptureReadNull
<1>26. CASE CaptureAnswered
  BY <1>26 DEF CaptureAnswered
<1>27. CASE CaptureEnds
  BY <1>27 DEF CaptureEnds
<1>28. CASE SaveAnswers
  BY <1>28 DEF SaveAnswers, Takes
<1>29. CASE SaveBegins
  BY <1>29 DEF SaveBegins
<1>30. CASE LoopCheck
  BY <1>30 DEF LoopCheck
<1>31. CASE SaveReadNull
  BY <1>31 DEF SaveReadNull
<1>32. CASE SaveAnswered
  BY <1>32 DEF SaveAnswered
<1>33. CASE StopAnswers
  BY <1>33 DEF StopAnswers, Takes
<1>34. CASE ExitAnswers
  BY <1>34 DEF ExitAnswers, Takes
<1>35. CASE Leaves
  BY <1>35 DEF Leaves
<1>36. ASSUME NEW f \in Frame, CaptureRead(f) PROVE AppInv'
  BY <1>36 DEF CaptureRead
<1>37. ASSUME NEW f \in Frame, SaveRead(f) PROVE AppInv'
  BY <1>37 DEF SaveRead
<1>38. CASE UNCHANGED vars
  BY <1>38 DEF vars
<1> QED
  BY <1>1, <1>2, <1>3, <1>4, <1>5, <1>6, <1>7, <1>8, <1>9, <1>10, <1>11,
     <1>12, <1>13, <1>14, <1>15, <1>16, <1>17, <1>18, <1>19, <1>20, <1>21,
     <1>22, <1>23, <1>24, <1>25, <1>26, <1>27, <1>28, <1>29, <1>30, <1>31,
     <1>32, <1>33, <1>34, <1>35, <1>36, <1>37, <1>38
     DEF Next, AppCall, AppStep, NoteStep, WorkerStep, UiStep, TaskStep

(* A frame that is shown goes on from one place to the next.                *)
LEMMA ShownNext ==
    ASSUME IInv, PatientInv, ~hasty, [Next]_vars
    PROVE  ShownInv'
<1> USE DEF IInv, QueueInv, MajorInv, NoteInv, PatientInv, CallInv, AppInv,
       ShownInv, NameInv, Pending, Settled, Saving, Working, caller, info,
       worker, major, thread
<1>1. CASE Enable
  BY <1>1 DEF Enable, MayCall, AppOpen, Ask
<1>2. CASE Stop
  BY <1>2 DEF Stop, MayCall, Ask
<1>3. CASE Close
  BY <1>3 DEF Close, MayCall, Ask
<1>4. ASSUME NEW op \in {"capture", "save", "auto"},
            NEW n \in Name \cup {AutoName}, Begin(op, n)
     PROVE  ShownInv'
  BY <1>4 DEF Begin, MayCall, AppOpen, AskFor, Ask
<1>5. CASE Opened
  BY <1>5 DEF Opened, AskFor, Ask
<1>6. CASE Begun
  BY <1>6 DEF Begun
<1>7. CASE Stopped
  BY <1>7 DEF Stopped
<1>8. CASE Closed
  BY <1>8 DEF Closed, Accepts
<1>9. CASE CaptureNotified
  BY <1>9 DEF CaptureNotified, Refused, Taken, Accepts
<1>10. CASE SaveNotified
  BY <1>10 DEF SaveNotified, Refused, Taken, Accepts
<1>11. ASSUME NEW m \in {"capture", "save"}, TaskData(m) PROVE ShownInv'
  BY <1>11 DEF TaskData, AppTakes
<1>12. CASE PictureWritten
  BY <1>12, AppQueued DEF PictureWritten
<1>13. CASE PictureAnswered
  BY <1>13 DEF PictureAnswered
<1>14. CASE NameFreed
  BY <1>14 DEF NameFreed
<1>15. CASE VideoWritten
  BY <1>15 DEF VideoWritten
<1>16. CASE VideoAnswered
  BY <1>16 DEF VideoAnswered
<1>17. CASE TaskExit
  BY <1>17, OneQueued DEF TaskExit, AppTakes
<1>18. CASE TaskLeaves
  BY <1>18 DEF TaskLeaves
<1>19. CASE UiOpen
  BY <1>19 DEF UiOpen
<1>20. CASE UiClose
  BY <1>20 DEF UiClose, Post, Accepts
<1>21. CASE UiCapture
  BY <1>21 DEF UiCapture, Post, Accepts
<1>22. CASE UiSave
  BY <1>22 DEF UiSave, Post, Accepts
<1>23. CASE UiStop
  BY <1>23 DEF UiStop, Post, Accepts
<1>24. CASE CaptureBegins
  BY <1>24 DEF CaptureBegins, Takes
<1>25. CASE CaptureReadNull
  BY <1>25 DEF CaptureReadNull
<1>26. CASE CaptureAnswered
  BY <1>26 DEF CaptureAnswered
<1>27. CASE CaptureEnds
  BY <1>27 DEF CaptureEnds
<1>28. CASE SaveAnswers
  BY <1>28 DEF SaveAnswers, Takes
<1>29. CASE SaveBegins
  BY <1>29 DEF SaveBegins
<1>30. CASE LoopCheck
  BY <1>30 DEF LoopCheck
<1>31. CASE SaveReadNull
  BY <1>31 DEF SaveReadNull
<1>32. CASE SaveAnswered
  BY <1>32, AppQueued DEF SaveAnswered
<1>33. CASE StopAnswers
  BY <1>33 DEF StopAnswers, Takes
<1>34. CASE ExitAnswers
  BY <1>34 DEF ExitAnswers, Takes
<1>35. CASE Leaves
  BY <1>35 DEF Leaves
<1>36. ASSUME NEW f \in Frame, CaptureRead(f) PROVE ShownInv'
  BY <1>36 DEF CaptureRead
<1>37. ASSUME NEW f \in Frame, SaveRead(f) PROVE ShownInv'
  BY <1>37 DEF SaveRead
<1>38. CASE UNCHANGED vars
  BY <1>38 DEF vars
<1> QED
  BY <1>1, <1>2, <1>3, <1>4, <1>5, <1>6, <1>7, <1>8, <1>9, <1>10, <1>11,
     <1>12, <1>13, <1>14, <1>15, <1>16, <1>17, <1>18, <1>19, <1>20, <1>21,
     <1>22, <1>23, <1>24, <1>25, <1>26, <1>27, <1>28, <1>29, <1>30, <1>31,
     <1>32, <1>33, <1>34, <1>35, <1>36, <1>37, <1>38
     DEF Next, AppCall, AppStep, NoteStep, WorkerStep, UiStep, TaskStep

(* The name stays until what it was given for is written.                   *)
LEMMA NameNext ==
    ASSUME IInv, PatientInv, ~hasty, [Next]_vars
    PROVE  NameInv'
<1> USE StorageAssumption DEF IInv, QueueInv, MajorInv, NoteInv, StopIsQuiet,
       PatientInv, CallInv, SettledInv, AppInv, ShownInv, NameInv, Pending,
       Saving, Working, caller, wire, worker, thread
<1>1. CASE Enable
  BY <1>1 DEF Enable, MayCall, AppOpen, Ask
<1>2. CASE Stop
  BY <1>2 DEF Stop, MayCall, Ask
<1>3. CASE Close
  BY <1>3 DEF Close, MayCall, Ask
<1>4. ASSUME NEW op \in {"capture", "save", "auto"},
            NEW n \in Name \cup {AutoName}, Begin(op, n)
     PROVE  NameInv'
  BY <1>4 DEF Begin, MayCall, AppOpen, AskFor, Ask
<1>5. CASE Opened
  BY <1>5 DEF Opened, AskFor, Ask
<1>6. CASE Begun
  BY <1>6 DEF Begun
<1>7. CASE Stopped
  BY <1>7 DEF Stopped
<1>8. CASE Closed
  BY <1>8 DEF Closed, Accepts
<1>9. CASE CaptureNotified
  BY <1>9 DEF CaptureNotified, Refused, Taken, Accepts
<1>10. CASE SaveNotified
  BY <1>10 DEF SaveNotified, Refused, Taken, Accepts
<1>11. ASSUME NEW m \in {"capture", "save"}, TaskData(m) PROVE NameInv'
  BY <1>11 DEF TaskData, AppTakes
<1>12. CASE PictureWritten
  BY <1>12 DEF PictureWritten
<1>13. CASE PictureAnswered
  BY <1>13 DEF PictureAnswered
<1>14. CASE NameFreed
  BY <1>14 DEF NameFreed
<1>15. CASE VideoWritten
  BY <1>15 DEF VideoWritten
<1>16. CASE VideoAnswered
  BY <1>16 DEF VideoAnswered
<1>17. CASE TaskExit
  BY <1>17 DEF TaskExit, AppTakes
<1>18. CASE TaskLeaves
  BY <1>18 DEF TaskLeaves
<1>19. CASE UiOpen
  BY <1>19 DEF UiOpen
<1>20. CASE UiClose
  BY <1>20 DEF UiClose, Post, Accepts
<1>21. CASE UiCapture
  BY <1>21 DEF UiCapture, Post, Accepts
<1>22. CASE UiSave
  BY <1>22 DEF UiSave, Post, Accepts
<1>23. CASE UiStop
  BY <1>23 DEF UiStop, Post, Accepts
<1>24. CASE CaptureBegins
  BY <1>24 DEF CaptureBegins, Takes
<1>25. CASE CaptureReadNull
  BY <1>25 DEF CaptureReadNull
<1>26. CASE CaptureAnswered
  BY <1>26 DEF CaptureAnswered
<1>27. CASE CaptureEnds
  BY <1>27 DEF CaptureEnds
<1>28. CASE SaveAnswers
  BY <1>28 DEF SaveAnswers, Takes
<1>29. CASE SaveBegins
  BY <1>29 DEF SaveBegins
<1>30. CASE LoopCheck
  BY <1>30 DEF LoopCheck
<1>31. CASE SaveReadNull
  BY <1>31 DEF SaveReadNull
<1>32. CASE SaveAnswered
  BY <1>32 DEF SaveAnswered
<1>33. CASE StopAnswers
  BY <1>33 DEF StopAnswers, Takes
<1>34. CASE ExitAnswers
  BY <1>34 DEF ExitAnswers, Takes
<1>35. CASE Leaves
  BY <1>35 DEF Leaves
<1>36. ASSUME NEW f \in Frame, CaptureRead(f) PROVE NameInv'
  BY <1>36 DEF CaptureRead
<1>37. ASSUME NEW f \in Frame, SaveRead(f) PROVE NameInv'
  BY <1>37 DEF SaveRead
<1>38. CASE UNCHANGED vars
  BY <1>38 DEF vars
<1> QED
  BY <1>1, <1>2, <1>3, <1>4, <1>5, <1>6, <1>7, <1>8, <1>9, <1>10, <1>11,
     <1>12, <1>13, <1>14, <1>15, <1>16, <1>17, <1>18, <1>19, <1>20, <1>21,
     <1>22, <1>23, <1>24, <1>25, <1>26, <1>27, <1>28, <1>29, <1>30, <1>31,
     <1>32, <1>33, <1>34, <1>35, <1>36, <1>37, <1>38
     DEF Next, AppCall, AppStep, NoteStep, WorkerStep, UiStep, TaskStep

-----------------------------------------------------------------------------
(* Before the first call, and from then on as long as nobody is hasty.      *)
LEMMA InitPatient == Init => PatientInv
<1> SUFFICES ASSUME Init PROVE PatientInv
    OBVIOUS
<1>1. <<>> # <<"save">> /\ <<>> # <<"capture">> /\ <<>> # <<"exit">>
    BY OneQueued
<1> QED BY <1>1 DEF Init, PatientInv, CallInv, SettledInv, AppInv, ShownInv,
                    NameInv, Pending, Saving

(* What kind of application it is never changes.                           *)
LEMMA HastyConstant == [Next]_vars => hasty' = hasty
<1> SUFFICES ASSUME [Next]_vars PROVE hasty' = hasty
    OBVIOUS
<1> QED BY DEF Next, AppCall, AppStep, NoteStep, WorkerStep, UiStep, TaskStep,
       vars, Enable, Stop, Close, Begin, Opened, Begun, Stopped, Closed,
       CaptureNotified, SaveNotified, TaskData, PictureWritten,
       PictureAnswered, NameFreed, VideoWritten, VideoAnswered, TaskExit,
       TaskLeaves, UiOpen, UiClose, UiCapture, UiSave, UiStop, CaptureBegins,
       CaptureReadNull, CaptureAnswered, CaptureEnds, SaveAnswers, SaveBegins,
       LoopCheck, SaveReadNull, SaveAnswered, StopAnswers, ExitAnswers, Leaves,
       CaptureRead, SaveRead

(* All of it together, with the invariant that holds for every application. *)
LEMMA PatientInvariance == Spec => [](~hasty => PatientInv)
<1>1. IInv /\ (~hasty => PatientInv) /\ [Next]_vars => (~hasty => PatientInv)'
  <2> SUFFICES ASSUME IInv, ~hasty => PatientInv, [Next]_vars, ~hasty'
               PROVE  PatientInv'
    OBVIOUS
  <2>1. ~hasty /\ PatientInv
    BY HastyConstant
  <2> QED BY <2>1, CallNext, SettledNext, AppNext, ShownNext, NameNext
          DEF PatientInv
<1>2. Init => (~hasty => PatientInv)
    BY InitPatient
<1> QED BY <1>1, <1>2, Invariance, PTL DEF Spec

(* For a patient application the storage task never writes under a name     *)
(* that was freed, and a capture that returns BK_OK has written the picture *)
(* under the name it was given, unless a video is being saved.              *)
THEOREM PicturesTaken == Spec => []PictureTaken
<1>1. (~hasty => PatientInv) => PictureTaken
    BY DEF PatientInv, NameInv, PictureTaken
<1> QED BY <1>1, PatientInvariance, PTL
=============================================================================
