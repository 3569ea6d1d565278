--------------------------- MODULE StorageProofs ----------------------------
(***************************************************************************)
(* Proofs about Storage, for any frames, names and size of the queues, and *)
(* for every application, the hasty ones included.                         *)
(***************************************************************************)
EXTENDS Storage, TLAPS

AppMsg == {"capture", "save", "exit"}
Msg == {"capture", "save", "stop", "exit"}
Working == {"capture", "picture", "save", "video"}

(* CPU1 has at most one request queued, whose caller waits for it.          *)
QueueInv ==
    /\ call = "idle" => req = "none" /\ reply = "none"
    /\ req = "open" => call \in {"enable", "capture", "save", "auto"}
    /\ \/ queue = <<>>
       \/ /\ reply = "posted"
          /\ \/ req \in {"capture", "save", "stop"} /\ queue = <<req>>
             \/ req = "close" /\ queue = <<"exit">>

(* A video, or the rest of a capture, goes on with capture_state reset only *)
(* as long as the stop or close that has reset it waits.                    *)
MajorInv ==
    /\ ~state => task \in {"none", "leave"} /\ ~capture
    /\ task \in {"capture", "shown"} =>
           req = "capture" /\ reply = "posted" /\ queue = <<>>
    /\ task \in {"capture", "shown", "captured"} \cup Saving /\ ~capture =>
           req \in {"stop", "close"} /\ reply = "posted"
    /\ queue = <<"save">> => capture /\ task \in {"idle", "leave"}
    /\ req \in {"stop", "close"} /\ reply = "posted" /\ task = "idle" =>
           ~capture

(* A queue of CPU0 that holds a frame to write, and one that holds no two.  *)
DataAt(q, i) == i \in 1 .. Len(q) /\ q[i] \in {"capture", "save"}
HasData(q) == \E i \in Nat : DataAt(q, i)
DataOnce(q) == \A i, j \in Nat : DataAt(q, i) /\ DataAt(q, j) => i = j

(* The frame CPU0 is shown is queued or worked on there only once, and only *)
(* before it is answered for.                                               *)
NoteInv ==
    /\ (frame # None) <=> (task \in {"shown", "saved"})
    /\ (note # "none") <=> (task \in {"shown", "saved"})
    /\ DataOnce(appQueue)
    /\ HasData(appQueue) => note = "queued" /\ appTask \notin Working
    /\ appTask \in Working => note = "queued"
    /\ note = "queued" => appFrame \in {frame, None}
    /\ appTask \in {"capture", "save"} => appFrame # None
    /\ ~appState => appTask \in {"leave", "none"}

IInv == TypeOK /\ QueueInv /\ MajorInv /\ NoteInv /\ StopIsQuiet
-----------------------------------------------------------------------------
(* What a queue holds after it has grown                                    *)
LEMMA AppendTyped ==
    ASSUME NEW S, NEW q \in Seq(S), NEW m \in S
    PROVE  /\ Append(q, m) \in Seq(S) /\ Len(Append(q, m)) = Len(q) + 1
           /\ \A i \in 1 .. Len(q) : Append(q, m)[i] = q[i]
           /\ Append(q, m)[Len(q) + 1] = m
           /\ Len(q) \in Nat
OBVIOUS

(* or shrunk.                                                               *)
LEMMA TailTyped ==
    ASSUME NEW S, NEW q \in Seq(S), q # <<>>
    PROVE  /\ Tail(q) \in Seq(S) /\ Len(Tail(q)) = Len(q) - 1
           /\ \A i \in 1 .. Len(q) - 1 : Tail(q)[i] = q[i + 1]
           /\ Head(q) = q[1]
           /\ Len(q) \in Nat \ {0}
OBVIOUS

(* A frame that is queued is the only one if none was there before.         *)
LEMMA DataQueued ==
    ASSUME NEW q \in Seq(AppMsg), NEW m \in {"capture", "save"}, ~HasData(q)
    PROVE  DataOnce(Append(q, m))
<1> DEFINE r == Append(q, m)
<1>1. /\ Len(r) = Len(q) + 1 /\ Len(q) \in Nat
      /\ \A i \in 1 .. Len(q) : r[i] = q[i]
    BY AppendTyped DEF AppMsg
<1> HIDE DEF r
<1>2. ASSUME NEW i \in Nat, DataAt(r, i) PROVE i = Len(q) + 1
    BY <1>1, <1>2 DEF HasData, DataAt
<1> QED BY <1>2 DEF DataOnce, r

(* The end of the task is no frame.                                         *)
LEMMA ExitQueued ==
    ASSUME NEW q \in Seq(AppMsg), DataOnce(q)
    PROVE  /\ DataOnce(Append(q, "exit"))
           /\ HasData(Append(q, "exit")) => HasData(q)
<1> DEFINE r == Append(q, "exit")
<1>1. /\ Len(r) = Len(q) + 1 /\ Len(q) \in Nat
      /\ \A i \in 1 .. Len(q) : r[i] = q[i]
      /\ r[Len(q) + 1] = "exit"
    BY AppendTyped DEF AppMsg
<1> HIDE DEF r
<1>2. ASSUME NEW i \in Nat, DataAt(r, i) PROVE DataAt(q, i)
    BY <1>1, <1>2 DEF DataAt
<1> QED BY <1>2 DEF DataOnce, HasData, r

(* What is left of a queue holds no frame it did not hold before, and none  *)
(* when a frame was at its head.                                            *)
LEMMA HeadTaken ==
    ASSUME NEW q \in Seq(AppMsg), q # <<>>, DataOnce(q)
    PROVE  /\ DataOnce(Tail(q))
           /\ HasData(Tail(q)) => HasData(q)
           /\ Head(q) \in {"capture", "save"} =>
                  HasData(q) /\ ~HasData(Tail(q))
<1> DEFINE r == Tail(q)
<1>1. /\ Len(r) = Len(q) - 1 /\ Len(q) \in Nat \ {0}
      /\ \A i \in 1 .. Len(q) - 1 : r[i] = q[i + 1]
      /\ Head(q) = q[1]
    BY TailTyped DEF AppMsg
<1> HIDE DEF r
<1>2. ASSUME NEW i \in Nat, DataAt(r, i) PROVE i + 1 # 1 /\ DataAt(q, i + 1)
    BY <1>1, <1>2 DEF DataAt
<1>3. Head(q) \in {"capture", "save"} => DataAt(q, 1)
    BY <1>1 DEF DataAt
<1>4. DataOnce(r)
  <2>1. ASSUME NEW i \in Nat, NEW j \in Nat, DataAt(r, i), DataAt(r, j)
        PROVE  i = j
    <3>1. i + 1 \in Nat /\ j + 1 \in Nat
        OBVIOUS
    <3>2. i + 1 = j + 1
        BY <1>2, <2>1, <3>1 DEF DataOnce
    <3> QED BY <3>2
  <2> QED BY <2>1 DEF DataOnce
<1>5. HasData(r) => HasData(q)
    BY <1>2 DEF HasData
<1>6. Head(q) \in {"capture", "save"} => HasData(q) /\ ~HasData(r)
    BY <1>2, <1>3 DEF HasData, DataOnce
<1> QED BY <1>4, <1>5, <1>6 DEF r

(* There is room for a message in an empty queue.                           *)
LEMMA SizeKnown == QueueSize \in Nat /\ QueueSize >= 1
BY StorageAssumption

(* The empty queue holds nothing.                                           *)
LEMMA NothingQueued ==
    /\ ~HasData(<<>>) /\ DataOnce(<<>>)
    /\ \A S : <<>> \in Seq(S)
    /\ Len(<<>>) = 0
BY DEF HasData, DataOnce, DataAt

(* The queue of CPU1 holds one message at most.                             *)
LEMMA OneQueued ==
    /\ \A m : <<m>> # <<>> /\ Append(<<>>, m) = <<m>>
    /\ \A m : Head(<<m>>) = m /\ Tail(<<m>>) = <<>>
    /\ \A m \in Msg : <<m>> \in Seq(Msg) /\ Len(<<m>>) = 1
    /\ <<>> \in Seq(Msg) /\ Len(<<>>) = 0
    /\ \A m, n : <<m>> = <<n>> => m = n
<1>1. ASSUME NEW m PROVE Append(<<>>, m) = <<m>> /\ <<m>> # <<>>
    OBVIOUS
<1>2. ASSUME NEW m PROVE Head(<<m>>) = m /\ Tail(<<m>>) = <<>>
    OBVIOUS
<1>3. ASSUME NEW m \in Msg PROVE <<m>> \in Seq(Msg) /\ Len(<<m>>) = 1
    OBVIOUS
<1>4. ASSUME NEW m, NEW n, <<m>> = <<n>> PROVE m = n
    BY <1>4
<1>5. <<>> \in Seq(Msg) /\ Len(<<>>) = 0
    OBVIOUS
<1> QED BY <1>1, <1>2, <1>3, <1>4, <1>5

(* All that is ever queued for CPU1 has its type, and fits.                 *)
LEMMA QueueTyped ==
    ASSUME NEW q \in {<<>>, <<"capture">>, <<"save">>, <<"stop">>, <<"exit">>}
    PROVE  q \in Seq(Msg) /\ Len(q) =< QueueSize
<1>0. ASSUME q \in Seq(Msg), Len(q) \in {0, 1}
      PROVE  Len(q) =< QueueSize
    BY <1>0, SizeKnown
<1>1. CASE q = <<>>
    BY <1>0, <1>1
<1>2. CASE q = <<"capture">>
    BY <1>0, <1>2 DEF Msg
<1>3. CASE q = <<"save">>
    BY <1>0, <1>3 DEF Msg
<1>4. CASE q = <<"stop">>
    BY <1>0, <1>4 DEF Msg
<1>5. CASE q = <<"exit">>
    BY <1>0, <1>5 DEF Msg
<1> QED BY <1>1, <1>2, <1>3, <1>4, <1>5
-----------------------------------------------------------------------------
LEMMA InitIInv == Init => IInv
<1> SUFFICES ASSUME Init PROVE IInv
    OBVIOUS
<1> USE StorageAssumption
    DEF IInv, QueueInv, AppMsg, Msg, caller, wire, info, worker, major, thread
<1>2. appState \in BOOLEAN /\ appCapture \in BOOLEAN /\ autoSave \in BOOLEAN
      /\ state \in BOOLEAN /\ capture \in BOOLEAN
    BY DEF Init
<1>1. TypeOK
    BY <1>2, NothingQueued, OneQueued DEF Init, TypeOK
<1> QED BY <1>1, NothingQueued, OneQueued
       DEF Init, MajorInv, NoteInv, StopIsQuiet, Saving, Working

(* Each thread keeps the invariant: the calls of the application,           *)
LEMMA AppCallIInv == IInv /\ AppCall => IInv'
<1> SUFFICES ASSUME IInv, AppCall PROVE IInv'
    OBVIOUS
<1> USE StorageAssumption
    DEF IInv, QueueInv, AppMsg, Msg, caller, wire, info, worker, major, thread
<1>1. ASSUME Enable PROVE IInv'
  <2>1. call = "idle" /\ queue = <<>> /\ queue # <<"save">>
    BY <1>1, OneQueued DEF Enable, MayCall
  <2>2. /\ appState' \in BOOLEAN /\ appCapture' \in BOOLEAN
        /\ autoSave' \in BOOLEAN
    BY <1>1 DEF Enable, AppOpen, Ask, TypeOK
  <2>3. appQueue' = <<>> \/ appQueue' = appQueue
    BY <1>1 DEF Enable, AppOpen
  <2>4. appQueue \in Seq(AppMsg) /\ Len(appQueue) =< QueueSize
    BY DEF TypeOK
  <2>5. appQueue' \in Seq(AppMsg) /\ Len(appQueue') =< QueueSize
    <3>1. CASE appQueue' = <<>>
        BY <3>1, NothingQueued
    <3>2. CASE appQueue' = appQueue
        BY <3>2, <2>4
    <3> QED BY <2>3, <3>1, <3>2
  <2>6. TypeOK'
    BY <1>1, <2>1, NothingQueued, <2>2, <2>5 DEF Enable, AppOpen, Ask,
           TypeOK, Saving
  <2>7. QueueInv'
    BY <1>1, <2>1, NothingQueued DEF Enable, AppOpen, Ask,
           TypeOK, MajorInv, Saving
  <2>8. MajorInv'
    BY <1>1, <2>1, NothingQueued DEF Enable, AppOpen, Ask,
           TypeOK, MajorInv, Saving
  <2>9. NoteInv'
    BY <1>1, <2>1, NothingQueued DEF Enable, AppOpen, Ask,
           TypeOK, NoteInv, MajorInv, Saving, Working
  <2>10. StopIsQuiet'
    BY <1>1, <2>1, NothingQueued DEF Enable, AppOpen, Ask,
           TypeOK, MajorInv, NoteInv, StopIsQuiet, Saving, Working
  <2> QED BY <2>6, <2>7, <2>8, <2>9, <2>10
<1>2. ASSUME Stop PROVE IInv'
  <2>1. call = "idle" /\ queue = <<>> /\ queue # <<"save">>
    BY <1>2, OneQueued DEF Stop, MayCall
  <2>2. TypeOK'
    BY <1>2, <2>1, NothingQueued DEF Stop, Ask,
           TypeOK, Saving
  <2>3. QueueInv'
    BY <1>2, <2>1, NothingQueued DEF Stop, Ask,
           TypeOK, MajorInv, Saving
  <2>4. MajorInv'
    BY <1>2, <2>1, NothingQueued DEF Stop, Ask,
           TypeOK, MajorInv, Saving
  <2>5. NoteInv'
    BY <1>2, <2>1, NothingQueued DEF Stop, Ask,
           TypeOK, NoteInv, MajorInv, Saving, Working
  <2>6. StopIsQuiet'
    BY <1>2, <2>1, NothingQueued DEF Stop, Ask,
           TypeOK, MajorInv, NoteInv, StopIsQuiet, Saving, Working
  <2> QED BY <2>2, <2>3, <2>4, <2>5, <2>6
<1>3. ASSUME Close PROVE IInv'
  <2>1. call = "idle" /\ queue = <<>> /\ queue # <<"save">>
    BY <1>3, OneQueued DEF Close, MayCall
  <2>2. TypeOK'
    BY <1>3, <2>1, NothingQueued DEF Close, Ask,
           TypeOK, Saving
  <2>3. QueueInv'
    BY <1>3, <2>1, NothingQueued DEF Close, Ask,
           TypeOK, MajorInv, Saving
  <2>4. MajorInv'
    BY <1>3, <2>1, NothingQueued DEF Close, Ask,
           TypeOK, MajorInv, Saving
  <2>5. NoteInv'
    BY <1>3, <2>1, NothingQueued DEF Close, Ask,
           TypeOK, NoteInv, MajorInv, Saving, Working
  <2>6. StopIsQuiet'
    BY <1>3, <2>1, NothingQueued DEF Close, Ask,
           TypeOK, MajorInv, NoteInv, StopIsQuiet, Saving, Working
  <2> QED BY <2>2, <2>3, <2>4, <2>5, <2>6
<1>4. ASSUME NEW op \in {"capture", "save", "auto"},
             NEW n \in Name \cup {AutoName}, Begin(op, n)
      PROVE  IInv'
  <2>1. call = "idle" /\ queue = <<>> /\ queue # <<"save">>
    BY <1>4, OneQueued DEF Begin, MayCall
  <2>2. /\ appState' \in BOOLEAN /\ appCapture' \in BOOLEAN
        /\ autoSave' \in BOOLEAN
    BY <1>4 DEF Begin, AppOpen, AskFor, Ask, TypeOK
  <2>3. appQueue' = <<>> \/ appQueue' = appQueue
    BY <1>4 DEF Begin, AppOpen
  <2>4. appQueue \in Seq(AppMsg) /\ Len(appQueue) =< QueueSize
    BY DEF TypeOK
  <2>5. appQueue' \in Seq(AppMsg) /\ Len(appQueue') =< QueueSize
    <3>1. CASE appQueue' = <<>>
        BY <3>1, NothingQueued
    <3>2. CASE appQueue' = appQueue
        BY <3>2, <2>4
    <3> QED BY <2>3, <3>1, <3>2
  <2>6. TypeOK'
    BY <1>4, <2>1, NothingQueued, <2>2, <2>5 DEF Begin, AppOpen, AskFor, Ask,
           TypeOK, Saving
  <2>7. QueueInv'
    BY <1>4, <2>1, NothingQueued DEF Begin, AppOpen, AskFor, Ask,
           TypeOK, MajorInv, Saving
  <2>8. MajorInv'
    BY <1>4, <2>1, NothingQueued DEF Begin, AppOpen, AskFor, Ask,
           TypeOK, MajorInv, Saving
  <2>9. NoteInv'
    BY <1>4, <2>1, NothingQueued DEF Begin, AppOpen, AskFor, Ask,
           TypeOK, NoteInv, MajorInv, Saving, Working
  <2>10. StopIsQuiet'
    BY <1>4, <2>1, NothingQueued DEF Begin, AppOpen, AskFor, Ask,
           TypeOK, MajorInv, NoteInv, StopIsQuiet, Saving, Working
  <2> QED BY <2>6, <2>7, <2>8, <2>9, <2>10
<1>5. ASSUME NEW n \in Name, NEW op \in {"capture", "save"}, Begin(op, n)
      PROVE  IInv'
    BY <1>4, <1>5
<1>6. ASSUME Begin("auto", AutoName) PROVE IInv'
    BY <1>4, <1>6
<1> QED BY <1>1, <1>2, <1>3, <1>5, <1>6 DEF AppCall

(* what they do when they are answered,                                     *)
LEMMA AppStepIInv == IInv /\ AppStep => IInv'
<1> SUFFICES ASSUME IInv, AppStep PROVE IInv'
    OBVIOUS
<1> USE StorageAssumption
    DEF IInv, QueueInv, AppMsg, Msg, caller, wire, info, worker, major, thread
<1>1. ASSUME Opened PROVE IInv'
  <2>1. autoSave' \in BOOLEAN
    BY <1>1 DEF Opened, AskFor, Ask, TypeOK
  <2>2. TypeOK'
    BY <1>1, <2>1 DEF Opened, AskFor, Ask,
           TypeOK, Saving
  <2>3. QueueInv'
    BY <1>1 DEF Opened, AskFor, Ask,
           TypeOK, MajorInv, Saving
  <2>4. MajorInv'
    BY <1>1 DEF Opened, AskFor, Ask,
           TypeOK, MajorInv, Saving
  <2>5. NoteInv'
    BY <1>1 DEF Opened, AskFor, Ask,
           TypeOK, NoteInv, MajorInv, Saving, Working
  <2>6. StopIsQuiet'
    BY <1>1 DEF Opened, AskFor, Ask,
           TypeOK, MajorInv, NoteInv, StopIsQuiet, Saving, Working
  <2> QED BY <2>2, <2>3, <2>4, <2>5, <2>6
<1>2. ASSUME Begun PROVE IInv'
    BY <1>2 DEF Begun,
       TypeOK, MajorInv, NoteInv, StopIsQuiet, Saving, Working
<1>3. ASSUME Stopped PROVE IInv'
  <2>1. appCapture' \in BOOLEAN
    BY <1>3 DEF Stopped, TypeOK
  <2>2. TypeOK'
    BY <1>3, <2>1 DEF Stopped,
           TypeOK, Saving
  <2>3. QueueInv'
    BY <1>3 DEF Stopped,
           TypeOK, MajorInv, Saving
  <2>4. MajorInv'
    BY <1>3 DEF Stopped,
           TypeOK, MajorInv, Saving
  <2>5. NoteInv'
    BY <1>3 DEF Stopped,
           TypeOK, NoteInv, MajorInv, Saving, Working
  <2>6. StopIsQuiet'
    BY <1>3 DEF Stopped,
           TypeOK, MajorInv, NoteInv, StopIsQuiet, Saving, Working
  <2> QED BY <2>2, <2>3, <2>4, <2>5, <2>6
<1>4. ASSUME Closed PROVE IInv'
  <2>1. TypeOK'
    BY <1>4, AppendTyped, ExitQueued DEF Closed, Accepts,
           TypeOK, Saving
  <2>2. QueueInv'
    BY <1>4, AppendTyped, ExitQueued DEF Closed, Accepts,
           TypeOK, MajorInv, Saving
  <2>3. MajorInv'
    BY <1>4, AppendTyped, ExitQueued DEF Closed, Accepts,
           TypeOK, MajorInv, Saving
  <2>4. appQueue' = appQueue \/ appQueue' = Append(appQueue, "exit")
    BY <1>4 DEF Closed
  <2>5. appQueue \in Seq(AppMsg) /\ DataOnce(appQueue)
    BY DEF TypeOK, NoteInv
  <2>6. DataOnce(appQueue') /\ (HasData(appQueue') => HasData(appQueue))
    <3>1. CASE appQueue' = appQueue
        BY <3>1, <2>5
    <3>2. CASE appQueue' = Append(appQueue, "exit")
        BY <3>2, <2>5, ExitQueued
    <3> QED BY <2>4, <3>1, <3>2
  <2>7. NoteInv'
    BY <1>4, AppendTyped, ExitQueued, <2>6 DEF Closed, Accepts,
           TypeOK, NoteInv, MajorInv, Saving, Working
  <2>8. StopIsQuiet'
    BY <1>4, AppendTyped, ExitQueued DEF Closed, Accepts,
           TypeOK, MajorInv, NoteInv, StopIsQuiet, Saving, Working
  <2> QED BY <2>1, <2>2, <2>3, <2>7, <2>8
<1> QED BY <1>1, <1>2, <1>3, <1>4 DEF AppStep

(* the mailbox thread of CPU0,                                              *)
LEMMA NoteStepIInv == IInv /\ NoteStep => IInv'
<1> SUFFICES ASSUME IInv, NoteStep PROVE IInv'
    OBVIOUS
<1> USE StorageAssumption
    DEF IInv, QueueInv, AppMsg, Msg, caller, wire, info, worker, major, thread
<1>1. ASSUME CaptureNotified PROVE IInv'
  <2>1. appCapture' \in BOOLEAN
    BY <1>1 DEF CaptureNotified, Refused, Taken, Accepts, TypeOK
  <2>2. appQueue' \in Seq(AppMsg) /\ Len(appQueue') =< QueueSize
    BY <1>1, AppendTyped DEF CaptureNotified, Refused, Taken, Accepts, TypeOK
  <2>3. TypeOK'
    BY <1>1, AppendTyped, DataQueued, <2>1, <2>2
       DEF CaptureNotified, Refused, Taken, Accepts,
           TypeOK, Saving
  <2>4. QueueInv'
    BY <1>1, AppendTyped, DataQueued
       DEF CaptureNotified, Refused, Taken, Accepts,
           TypeOK, MajorInv, Saving
  <2>5. MajorInv'
    BY <1>1, AppendTyped, DataQueued
       DEF CaptureNotified, Refused, Taken, Accepts,
           TypeOK, MajorInv, Saving
  <2>6. NoteInv'
    BY <1>1, AppendTyped, DataQueued
       DEF CaptureNotified, Refused, Taken, Accepts,
           TypeOK, NoteInv, MajorInv, Saving, Working
  <2>7. StopIsQuiet'
    BY <1>1, AppendTyped, DataQueued
       DEF CaptureNotified, Refused, Taken, Accepts,
           TypeOK, MajorInv, NoteInv, StopIsQuiet, Saving, Working
  <2> QED BY <2>3, <2>4, <2>5, <2>6, <2>7
<1>2. ASSUME SaveNotified PROVE IInv'
  <2>1. appCapture' \in BOOLEAN
    BY <1>2 DEF SaveNotified, Refused, Taken, Accepts, TypeOK
  <2>2. TypeOK'
    BY <1>2, AppendTyped, DataQueued, <2>1
       DEF SaveNotified, Refused, Taken, Accepts,
           TypeOK, Saving
  <2>3. QueueInv'
    BY <1>2, AppendTyped, DataQueued DEF SaveNotified, Refused, Taken, Accepts,
           TypeOK, MajorInv, Saving
  <2>4. MajorInv'
    BY <1>2, AppendTyped, DataQueued DEF SaveNotified, Refused, Taken, Accepts,
           TypeOK, MajorInv, Saving
  <2>5. NoteInv'
    BY <1>2, AppendTyped, DataQueued DEF SaveNotified, Refused, Taken, Accepts,
           TypeOK, NoteInv, MajorInv, Saving, Working
  <2>6. StopIsQuiet'
    BY <1>2, AppendTyped, DataQueued DEF SaveNotified, Refused, Taken, Accepts,
           TypeOK, MajorInv, NoteInv, StopIsQuiet, Saving, Working
  <2> QED BY <2>2, <2>3, <2>4, <2>5, <2>6
<1> QED BY <1>1, <1>2 DEF NoteStep

(* the storage task of CPU0,                                                *)
LEMMA WorkerStepIInv == IInv /\ WorkerStep => IInv'
<1> SUFFICES ASSUME IInv, WorkerStep PROVE IInv'
    OBVIOUS
<1> USE StorageAssumption
    DEF IInv, QueueInv, AppMsg, Msg, caller, wire, info, worker, major, thread
<1>1. ASSUME TaskData("capture") PROVE IInv'
    BY <1>1, TailTyped, HeadTaken DEF TaskData, AppTakes,
       TypeOK, MajorInv, NoteInv, StopIsQuiet, Saving, Working
<1>2. ASSUME TaskData("save") PROVE IInv'
    BY <1>2, TailTyped, HeadTaken DEF TaskData, AppTakes,
       TypeOK, MajorInv, NoteInv, StopIsQuiet, Saving, Working
<1>3. ASSUME PictureWritten PROVE IInv'
  <2>1. appCapture' \in BOOLEAN
    BY <1>3 DEF PictureWritten, TypeOK
  <2>2. TypeOK'
    BY <1>3, <2>1 DEF PictureWritten,
           TypeOK, Saving
  <2>3. QueueInv'
    BY <1>3 DEF PictureWritten,
           TypeOK, MajorInv, Saving
  <2>4. MajorInv'
    BY <1>3 DEF PictureWritten,
           TypeOK, MajorInv, Saving
  <2>5. NoteInv'
    BY <1>3 DEF PictureWritten,
           TypeOK, NoteInv, MajorInv, Saving, Working
  <2>6. StopIsQuiet'
    BY <1>3 DEF PictureWritten,
           TypeOK, MajorInv, NoteInv, StopIsQuiet, Saving, Working
  <2> QED BY <2>2, <2>3, <2>4, <2>5, <2>6
<1>4. ASSUME PictureAnswered PROVE IInv'
    BY <1>4 DEF PictureAnswered,
       TypeOK, MajorInv, NoteInv, StopIsQuiet, Saving, Working
<1>5. ASSUME NameFreed PROVE IInv'
    BY <1>5 DEF NameFreed,
       TypeOK, MajorInv, NoteInv, StopIsQuiet, Saving, Working
<1>6. ASSUME VideoWritten PROVE IInv'
    BY <1>6 DEF VideoWritten,
       TypeOK, MajorInv, NoteInv, StopIsQuiet, Saving, Working
<1>7. ASSUME VideoAnswered PROVE IInv'
    BY <1>7 DEF VideoAnswered,
       TypeOK, MajorInv, NoteInv, StopIsQuiet, Saving, Working
<1>8. ASSUME TaskExit PROVE IInv'
  <2>1. appState' \in BOOLEAN /\ appCapture' \in BOOLEAN
    BY <1>8 DEF TaskExit, AppTakes, TypeOK
  <2>2. TypeOK'
    BY <1>8, TailTyped, HeadTaken, <2>1 DEF TaskExit, AppTakes,
           TypeOK, Saving
  <2>3. QueueInv'
    BY <1>8, TailTyped, HeadTaken DEF TaskExit, AppTakes,
           TypeOK, MajorInv, Saving
  <2>4. MajorInv'
    BY <1>8, TailTyped, HeadTaken DEF TaskExit, AppTakes,
           TypeOK, MajorInv, Saving
  <2>5. NoteInv'
    BY <1>8, TailTyped, HeadTaken DEF TaskExit, AppTakes,
           TypeOK, NoteInv, MajorInv, Saving, Working
  <2>6. StopIsQuiet'
    BY <1>8, TailTyped, HeadTaken DEF TaskExit, AppTakes,
           TypeOK, MajorInv, NoteInv, StopIsQuiet, Saving, Working
  <2> QED BY <2>2, <2>3, <2>4, <2>5, <2>6
<1>9. ASSUME TaskLeaves PROVE IInv'
    BY <1>9, NothingQueued DEF TaskLeaves,
       TypeOK, MajorInv, NoteInv, StopIsQuiet, Saving, Working
<1> QED BY <1>1, <1>2, <1>3, <1>4, <1>5, <1>6, <1>7, <1>8, <1>9 DEF WorkerStep

(* media_ui,                                                                *)
LEMMA UiStepIInv == IInv /\ UiStep => IInv'
<1> SUFFICES ASSUME IInv, UiStep PROVE IInv'
    OBVIOUS
<1> USE StorageAssumption
    DEF IInv, QueueInv, AppMsg, Msg, caller, wire, info, worker, major, thread
<1>1. ASSUME UiOpen PROVE IInv'
  <2>1. queue = <<>> /\ queue # <<"save">>
    BY <1>1, OneQueued DEF UiOpen
  <2>2. state' \in BOOLEAN /\ capture' \in BOOLEAN
    BY <1>1 DEF UiOpen, Post, Accepts, TypeOK
  <2>3. queue' \in {<<>>}
    BY <1>1, <2>1, OneQueued DEF UiOpen, Post
  <2>4. queue' \in Seq(Msg) /\ Len(queue') =< QueueSize
    BY <2>3, QueueTyped
  <2>5. TypeOK'
    BY <1>1, <2>1, OneQueued, <2>2, <2>4 DEF UiOpen, Post, Accepts,
           TypeOK, Saving
  <2>6. QueueInv'
    BY <1>1, <2>1, OneQueued DEF UiOpen, Post, Accepts,
           TypeOK, MajorInv, Saving
  <2>7. MajorInv'
    BY <1>1, <2>1, OneQueued DEF UiOpen, Post, Accepts,
           TypeOK, MajorInv, Saving
  <2>8. NoteInv'
    BY <1>1, <2>1, OneQueued DEF UiOpen, Post, Accepts,
           TypeOK, NoteInv, MajorInv, Saving, Working
  <2>9. StopIsQuiet'
    BY <1>1, <2>1, OneQueued DEF UiOpen, Post, Accepts,
           TypeOK, MajorInv, NoteInv, StopIsQuiet, Saving, Working
  <2> QED BY <2>5, <2>6, <2>7, <2>8, <2>9
<1>2. ASSUME UiClose PROVE IInv'
  <2>1. queue = <<>> /\ queue # <<"save">>
    BY <1>2, OneQueued DEF UiClose
  <2>2. capture' \in BOOLEAN
    BY <1>2 DEF UiClose, Post, Accepts, TypeOK
  <2>3. queue' \in {<<>>, <<"exit">>}
    BY <1>2, <2>1, OneQueued DEF UiClose, Post
  <2>4. queue' \in Seq(Msg) /\ Len(queue') =< QueueSize
    BY <2>3, QueueTyped
  <2>5. TypeOK'
    BY <1>2, <2>1, OneQueued, <2>2, <2>4 DEF UiClose, Post, Accepts,
           TypeOK, Saving
  <2>6. QueueInv'
    BY <1>2, <2>1, OneQueued DEF UiClose, Post, Accepts,
           TypeOK, MajorInv, Saving
  <2>7. queue' # <<"save">>
    BY <2>3, OneQueued
  <2>8. MajorInv'
    BY <1>2, <2>1, OneQueued, <2>7 DEF UiClose, Post, Accepts,
           TypeOK, MajorInv, Saving
  <2>9. NoteInv'
    BY <1>2, <2>1, OneQueued DEF UiClose, Post, Accepts,
           TypeOK, NoteInv, MajorInv, Saving, Working
  <2>10. StopIsQuiet'
    BY <1>2, <2>1, OneQueued DEF UiClose, Post, Accepts,
           TypeOK, MajorInv, NoteInv, StopIsQuiet, Saving, Working
  <2> QED BY <2>5, <2>6, <2>8, <2>9, <2>10
<1>3. ASSUME UiCapture PROVE IInv'
  <2>1. queue = <<>> /\ queue # <<"save">>
    BY <1>3, OneQueued DEF UiCapture
  <2>2. queue' \in {<<>>, <<"capture">>}
    BY <1>3, <2>1, OneQueued DEF UiCapture, Post
  <2>3. queue' \in Seq(Msg) /\ Len(queue') =< QueueSize
    BY <2>2, QueueTyped
  <2>4. TypeOK'
    BY <1>3, <2>1, OneQueued, <2>3 DEF UiCapture, Post, Accepts,
           TypeOK, Saving
  <2>5. QueueInv'
    BY <1>3, <2>1, OneQueued DEF UiCapture, Post, Accepts,
           TypeOK, MajorInv, Saving
  <2>6. queue' # <<"save">>
    BY <2>2, OneQueued
  <2>7. MajorInv'
    BY <1>3, <2>1, OneQueued, <2>6 DEF UiCapture, Post, Accepts,
           TypeOK, MajorInv, Saving
  <2>8. NoteInv'
    BY <1>3, <2>1, OneQueued DEF UiCapture, Post, Accepts,
           TypeOK, NoteInv, MajorInv, Saving, Working
  <2>9. StopIsQuiet'
    BY <1>3, <2>1, OneQueued DEF UiCapture, Post, Accepts,
           TypeOK, MajorInv, NoteInv, StopIsQuiet, Saving, Working
  <2> QED BY <2>4, <2>5, <2>7, <2>8, <2>9
<1>4. ASSUME UiSave PROVE IInv'
  <2>1. queue = <<>> /\ queue # <<"save">>
    BY <1>4, OneQueued DEF UiSave
  <2>2. capture' \in BOOLEAN
    BY <1>4 DEF UiSave, Post, Accepts, TypeOK
  <2>3. queue' \in {<<>>, <<"save">>}
    BY <1>4, <2>1, OneQueued DEF UiSave, Post
  <2>4. queue' \in Seq(Msg) /\ Len(queue') =< QueueSize
    BY <2>3, QueueTyped
  <2>5. TypeOK'
    BY <1>4, <2>1, OneQueued, <2>2, <2>4 DEF UiSave, Post, Accepts,
           TypeOK, Saving
  <2>6. QueueInv'
    BY <1>4, <2>1, OneQueued DEF UiSave, Post, Accepts,
           TypeOK, MajorInv, Saving
  <2>7. MajorInv'
    BY <1>4, <2>1, OneQueued DEF UiSave, Post, Accepts,
           TypeOK, MajorInv, Saving
  <2>8. NoteInv'
    BY <1>4, <2>1, OneQueued DEF UiSave, Post, Accepts,
           TypeOK, NoteInv, MajorInv, Saving, Working
  <2>9. StopIsQuiet'
    BY <1>4, <2>1, OneQueued DEF UiSave, Post, Accepts,
           TypeOK, MajorInv, NoteInv, StopIsQuiet, Saving, Working
  <2> QED BY <2>5, <2>6, <2>7, <2>8, <2>9
<1>5. ASSUME UiStop PROVE IInv'
  <2>1. queue = <<>> /\ queue # <<"save">>
    BY <1>5, OneQueued DEF UiStop
  <2>2. capture' \in BOOLEAN
    BY <1>5 DEF UiStop, Post, Accepts, TypeOK
  <2>3. queue' \in {<<>>, <<"stop">>}
    BY <1>5, <2>1, OneQueued DEF UiStop, Post
  <2>4. queue' \in Seq(Msg) /\ Len(queue') =< QueueSize
    BY <2>3, QueueTyped
  <2>5. TypeOK'
    BY <1>5, <2>1, OneQueued, <2>2, <2>4 DEF UiStop, Post, Accepts,
           TypeOK, Saving
  <2>6. QueueInv'
    BY <1>5, <2>1, OneQueued DEF UiStop, Post, Accepts,
           TypeOK, MajorInv, Saving
  <2>7. queue' # <<"save">>
    BY <2>3, OneQueued
  <2>8. MajorInv'
    BY <1>5, <2>1, OneQueued, <2>7 DEF UiStop, Post, Accepts,
           TypeOK, MajorInv, Saving
  <2>9. NoteInv'
    BY <1>5, <2>1, OneQueued DEF UiStop, Post, Accepts,
           TypeOK, NoteInv, MajorInv, Saving, Working
  <2>10. StopIsQuiet'
    BY <1>5, <2>1, OneQueued DEF UiStop, Post, Accepts,
           TypeOK, MajorInv, NoteInv, StopIsQuiet, Saving, Working
  <2> QED BY <2>5, <2>6, <2>8, <2>9, <2>10
<1> QED BY <1>1, <1>2, <1>3, <1>4, <1>5 DEF UiStep

(* and the storage task of CPU1.                                            *)
LEMMA TaskStepIInv == IInv /\ TaskStep => IInv'
<1> SUFFICES ASSUME IInv, TaskStep PROVE IInv'
    OBVIOUS
<1> USE StorageAssumption
    DEF IInv, QueueInv, AppMsg, Msg, caller, wire, info, worker, major, thread
<1>1. ASSUME CaptureReadNull PROVE IInv'
  <2>1. TypeOK'
    BY <1>1 DEF CaptureReadNull,
           TypeOK, Saving
  <2>2. QueueInv'
    BY <1>1 DEF CaptureReadNull,
           TypeOK, MajorInv, Saving
  <2>3. MajorInv'
    BY <1>1 DEF CaptureReadNull,
           TypeOK, MajorInv, Saving
  <2>4. NoteInv'
    BY <1>1 DEF CaptureReadNull,
           TypeOK, NoteInv, MajorInv, Saving, Working
  <2>5. StopIsQuiet'
    BY <1>1 DEF CaptureReadNull,
           TypeOK, MajorInv, NoteInv, StopIsQuiet, Saving, Working
  <2> QED BY <2>1, <2>2, <2>3, <2>4, <2>5
<1>2. ASSUME CaptureAnswered PROVE IInv'
  <2>1. TypeOK'
    BY <1>2 DEF CaptureAnswered,
           TypeOK, Saving
  <2>2. QueueInv'
    BY <1>2 DEF CaptureAnswered,
           TypeOK, MajorInv, Saving
  <2>3. MajorInv'
    BY <1>2 DEF CaptureAnswered,
           TypeOK, MajorInv, Saving
  <2>4. NoteInv'
    BY <1>2 DEF CaptureAnswered,
           TypeOK, NoteInv, MajorInv, Saving, Working
  <2>5. StopIsQuiet'
    BY <1>2 DEF CaptureAnswered,
           TypeOK, MajorInv, NoteInv, StopIsQuiet, Saving, Working
  <2> QED BY <2>1, <2>2, <2>3, <2>4, <2>5
<1>3. ASSUME CaptureEnds PROVE IInv'
  <2>1. capture' \in BOOLEAN
    BY <1>3 DEF CaptureEnds, TypeOK
  <2>2. TypeOK'
    BY <1>3, <2>1 DEF CaptureEnds,
           TypeOK, Saving
  <2>3. QueueInv'
    BY <1>3 DEF CaptureEnds,
           TypeOK, MajorInv, Saving
  <2>4. MajorInv'
    BY <1>3 DEF CaptureEnds,
           TypeOK, MajorInv, Saving
  <2>5. NoteInv'
    BY <1>3 DEF CaptureEnds,
           TypeOK, NoteInv, MajorInv, Saving, Working
  <2>6. StopIsQuiet'
    BY <1>3 DEF CaptureEnds,
           TypeOK, MajorInv, NoteInv, StopIsQuiet, Saving, Working
  <2> QED BY <2>2, <2>3, <2>4, <2>5, <2>6
<1>4. ASSUME SaveBegins PROVE IInv'
    BY <1>4 DEF SaveBegins,
       TypeOK, MajorInv, NoteInv, StopIsQuiet, Saving, Working
<1>5. ASSUME LoopCheck PROVE IInv'
    BY <1>5 DEF LoopCheck,
       TypeOK, MajorInv, NoteInv, StopIsQuiet, Saving, Working
<1>6. ASSUME SaveReadNull PROVE IInv'
    BY <1>6 DEF SaveReadNull,
       TypeOK, MajorInv, NoteInv, StopIsQuiet, Saving, Working
<1>7. ASSUME SaveAnswered PROVE IInv'
    BY <1>7 DEF SaveAnswered,
       TypeOK, MajorInv, NoteInv, StopIsQuiet, Saving, Working
<1>8. ASSUME CaptureBegins PROVE IInv'
    BY <1>8, OneQueued DEF CaptureBegins, Takes,
       TypeOK, MajorInv, NoteInv, StopIsQuiet, Saving, Working
<1>9. ASSUME SaveAnswers PROVE IInv'
    BY <1>9, OneQueued DEF SaveAnswers, Takes,
       TypeOK, MajorInv, NoteInv, StopIsQuiet, Saving, Working
<1>10. ASSUME StopAnswers PROVE IInv'
    BY <1>10, OneQueued DEF StopAnswers, Takes,
       TypeOK, MajorInv, NoteInv, StopIsQuiet, Saving, Working
<1>11. ASSUME ExitAnswers PROVE IInv'
  <2>1. state' \in BOOLEAN /\ capture' \in BOOLEAN
    BY <1>11 DEF ExitAnswers, Takes, TypeOK
  <2>2. TypeOK'
    BY <1>11, OneQueued, <2>1 DEF ExitAnswers, Takes,
           TypeOK, Saving
  <2>3. QueueInv'
    BY <1>11, OneQueued DEF ExitAnswers, Takes,
           TypeOK, MajorInv, Saving
  <2>4. queue = <<"exit">> /\ queue' = <<>> /\ queue' # <<"save">>
    BY <1>11, OneQueued DEF ExitAnswers, Takes
  <2>5. MajorInv'
    BY <1>11, OneQueued, <2>4 DEF ExitAnswers, Takes,
           TypeOK, MajorInv, Saving
  <2>6. NoteInv'
    BY <1>11, OneQueued DEF ExitAnswers, Takes,
           TypeOK, NoteInv, MajorInv, Saving, Working
  <2>7. StopIsQuiet'
    BY <1>11, OneQueued DEF ExitAnswers, Takes,
           TypeOK, MajorInv, NoteInv, StopIsQuiet, Saving, Working
  <2> QED BY <2>2, <2>3, <2>5, <2>6, <2>7
<1>12. ASSUME Leaves PROVE IInv'
    BY <1>12 DEF Leaves,
       TypeOK, MajorInv, NoteInv, StopIsQuiet, Saving, Working
<1>13. ASSUME NEW f \in Frame, CaptureRead(f) PROVE IInv'
    BY <1>13 DEF CaptureRead,
       TypeOK, MajorInv, NoteInv, StopIsQuiet, Saving, Working
<1>14. ASSUME NEW f \in Frame, SaveRead(f) PROVE IInv'
    BY <1>14 DEF SaveRead,
       TypeOK, MajorInv, NoteInv, StopIsQuiet, Saving, Working
<1> QED BY <1>1, <1>2, <1>3, <1>4, <1>5, <1>6, <1>7, <1>8, <1>9, <1>10,
           <1>11, <1>12, <1>13, <1>14
   DEF TaskStep

LEMMA NextIInv == IInv /\ [Next]_vars => IInv'
<1> SUFFICES ASSUME IInv, [Next]_vars PROVE IInv'
    OBVIOUS
<1>1. CASE Next
    BY <1>1, AppCallIInv, AppStepIInv, NoteStepIInv, WorkerStepIInv,
       UiStepIInv, TaskStepIInv DEF Next
<1>2. CASE UNCHANGED vars
    BY <1>2 DEF vars, caller, wire, info, worker, major, thread, IInv, TypeOK,
                QueueInv, MajorInv, NoteInv, StopIsQuiet
<1> QED BY <1>1, <1>2

THEOREM Invariance == Spec => []IInv
<1> QED BY InitIInv, NextIInv, PTL DEF Spec
-----------------------------------------------------------------------------
(* Every variable has its type, and no queue holds more than it has room.   *)
THEOREM TypeCorrect == Spec => []TypeOK
<1>1. IInv => TypeOK
    BY DEF IInv
<1> QED BY <1>1, Invariance, PTL

(* A save_stop or a close is answered only when the video has ended on both *)
(* CPUs.                                                                    *)
THEOREM StopsQuiet == Spec => []StopIsQuiet
<1>1. IInv => StopIsQuiet
    BY DEF IInv
<1> QED BY <1>1, Invariance, PTL
-----------------------------------------------------------------------------
(* The steps of FrameHandoff.                                               *)
LEMMA NextHandsOff ==
    IInv /\ IInv' /\ [Next]_vars => [Handoff!Next]_(Handoff!vars)
<1> SUFFICES ASSUME IInv, IInv', [Next]_vars
             PROVE  [Handoff!Next]_(Handoff!vars)
    OBVIOUS
<1> USE DEF Handoff!Next, Handoff!vars, caller, wire, info, worker, major,
            thread
<1>1. ASSUME NEW f \in Frame, CaptureRead(f) \/ SaveRead(f)
      PROVE  Handoff!Lend(f)
    BY <1>1 DEF CaptureRead, SaveRead, Handoff!Lend, IInv, NoteInv
<1>2. ASSUME TaskData("capture") \/ TaskData("save")
      PROVE  Handoff!Use \/ UNCHANGED Handoff!vars
  <2>1. appQueue \in Seq(AppMsg) /\ appQueue # <<>> /\ DataOnce(appQueue)
    BY <1>2 DEF TaskData, AppTakes, IInv, TypeOK, NoteInv, AppMsg
  <2>2. Head(appQueue) \in {"capture", "save"}
    BY <1>2 DEF TaskData, AppTakes
  <2>3. HasData(appQueue)
    BY <2>1, <2>2, HeadTaken
  <2>4. note = "queued" /\ appFrame \in {frame, None} /\ appTask \notin Working
    BY <2>3 DEF IInv, NoteInv
  <2> QED BY <1>2, <2>4 DEF TaskData, AppTakes, Handoff!Use, Working
<1>3. ASSUME PictureWritten \/ VideoWritten PROVE Handoff!Done
    BY <1>3 DEF PictureWritten, VideoWritten, Handoff!Done, IInv, NoteInv
<1>4. ASSUME CaptureAnswered \/ SaveAnswered PROVE Handoff!TakeBack
    BY <1>4 DEF CaptureAnswered, SaveAnswered, Handoff!TakeBack, IInv, NoteInv,
                Working
<1>5. ASSUME NoteStep PROVE UNCHANGED Handoff!vars
    BY <1>5 DEF NoteStep, CaptureNotified, SaveNotified, Refused, Taken, IInv,
                NoteInv, Working
<1>6. ASSUME AppStep PROVE UNCHANGED Handoff!vars
    BY <1>6 DEF AppStep, Opened, Begun, Stopped, Closed
<1>7. ASSUME Enable \/ Stop \/ Close PROVE UNCHANGED Handoff!vars
    BY <1>7 DEF Enable, Stop, Close, AppOpen, IInv, NoteInv
<1>8. ASSUME NEW op, NEW n, Begin(op, n) PROVE UNCHANGED Handoff!vars
    BY <1>8 DEF Begin, AppOpen, IInv, NoteInv
<1>9. ASSUME \/ PictureAnswered \/ NameFreed \/ VideoAnswered \/ TaskExit
             \/ TaskLeaves
      PROVE  UNCHANGED Handoff!vars
    BY <1>9 DEF PictureAnswered, NameFreed, VideoAnswered, TaskExit, AppTakes,
                TaskLeaves
<1>10. ASSUME UiStep PROVE UNCHANGED Handoff!vars
    BY <1>10 DEF UiStep, UiOpen, UiClose, UiCapture, UiSave, UiStop
<1>11. ASSUME \/ CaptureBegins \/ CaptureReadNull \/ CaptureEnds
              \/ SaveAnswers \/ SaveBegins \/ LoopCheck \/ SaveReadNull
              \/ StopAnswers \/ ExitAnswers \/ Leaves
       PROVE  UNCHANGED Handoff!vars
    BY <1>11 DEF CaptureBegins, CaptureReadNull, CaptureEnds, SaveAnswers,
                 SaveBegins, LoopCheck, SaveReadNull, StopAnswers, ExitAnswers,
                 Leaves, Takes
<1>12. CASE UNCHANGED vars
    BY <1>12 DEF vars
<1> QED
    BY <1>1, <1>2, <1>3, <1>4, <1>5, <1>6, <1>7, <1>8, <1>9, <1>10, <1>11,
       <1>12
    DEF Next, AppCall, WorkerStep, TaskStep

(* Frames are handed to CPU0 as FrameHandoff says.                          *)
THEOREM FramesHandedOff == Spec => HandoffSpec
<1>1. Init => Handoff!Init
    BY DEF Init, Handoff!Init
<1> QED BY <1>1, Invariance, NextHandsOff, PTL
        DEF Spec, HandoffSpec, Handoff!Spec
=============================================================================
