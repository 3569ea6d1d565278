---------------------------- MODULE FrameBuffer ----------------------------
(***************************************************************************)
(* A shared pool of encoded frames (components/multimedia/comm/            *)
(* frame_buffer.c, FB_MEM_SHARED) on CPU1: a camera or the H.264 encoder   *)
(* fills frames, several modules (transfer to WiFi, decoder, capture) read *)
(* the same ones, each at its own pace.                                    *)
(*                                                                         *)
(* The lists change under the mutex of the pool with interrupts off, so an *)
(* operation on them is one step.  frame_buffer_fb_push keeps the mutex    *)
(* while it wakes the modules one after the other with interrupts on; what *)
(* does not need the mutex happens in between.                             *)
(***************************************************************************)
EXTENDS Naturals, Sequences, FiniteSets

CONSTANTS
    Frame,        \* the nodes frame_buffer_fb_init has allocated
    Module,       \* the modules that read this pool
    NoFrame,      \* NULL
    Settings,     \* the surroundings of the pool that are looked at
    MaxBroken,    \* bound: PSRAM allocations that fail
    MaxMade,      \* bound: frames the producer has at a time
    MaxHeld       \* bound: frames a module has in hand when it reads

ASSUME FrameAssumption ==
    /\ NoFrame \notin Frame
    \* takesBack: malloc resorts to ready frames (JPEG, not H.264).
    \* clears: the producer marks what is ready as faulty when it closes.
    \* closes: whether modules are deregistered, and when.
    /\ Settings \subseteq [takesBack : BOOLEAN, clears : BOOLEAN,
                           closes : {"never", "idle", "reading"}]
    /\ MaxBroken \in Nat /\ MaxMade \in Nat \ {0}
    /\ MaxHeld \in Nat \ {0}

VARIABLES
    setting,              \* never changes
    free, ready,          \* mem_list->free as a set, mem_list->ready
    made,                 \* frames the producer has got and not yet pushed
    backed, broken,       \* nodes with a buffer; nodes with error set
    readMask, freeMask,   \* of each node, as sets of modules
    faulty,               \* nodes with err_state set
    registered,           \* enable and register_mask
    plugin,               \* set while push need not wake the module
    bit,                  \* FRAME_BUFFER_READ_COMPLETE of its event group
    notifying,            \* the modules a push has yet to look at
    pc, got, hands        \* fb_read: its place, its variable frame; the
                          \* frames a module has read and not yet freed

lists == <<free, ready, made, backed, broken, readMask, freeMask, faulty>>
reader == <<pc, got, hands>>
vars == <<setting, lists, registered, plugin, bit, notifying, reader>>

Places == {"idle", "wait", "pop", "got", "empty"}

Elements(s) == {s[i] : i \in 1 .. Len(s)}

(* list_del of the node at a position.                                      *)
Unlink(s, i) == [j \in 1 .. Len(s) - 1 |-> IF j < i THEN s[j] ELSE s[j + 1]]

(* Faulty form: the node is left on its list.                               *)
WithoutNone(s, f) == s

(* frame_buffer_list_remove: a frame that is not on the list is no error.   *)
Without(s, f) ==
    IF f \in Elements(s)
    THEN Unlink(s, CHOOSE i \in 1 .. Len(s) :
                       s[i] = f /\ \A j \in 1 .. i - 1 : s[j] # f)
    ELSE s

(* The mutex of the pool is not held by a push that wakes the modules.      *)
Unlocked == notifying = {}

Init == /\ setting \in Settings
        /\ free = Frame /\ ready = <<>> /\ made = {}
        /\ backed = {} /\ broken = {} /\ faulty = {}
        /\ readMask = [f \in Frame |-> {}]
        /\ freeMask = [f \in Frame |-> {}]
        /\ registered = {} /\ notifying = {}
        /\ plugin = [r \in Module |-> FALSE]
        /\ bit = [r \in Module |-> FALSE]
        /\ pc = [r \in Module |-> "idle"]
        /\ got = [r \in Module |-> NoFrame]
        /\ hands = [r \in Module |-> {}]
-----------------------------------------------------------------------------
(* The producer.                                                            *)

Usable == free \ broken

(* Nobody is busy with a frame everybody who read it has freed.             *)
Idle(i) == readMask[ready[i]] = freeMask[ready[i]]

(* The frame goes to the producer, as if it had never been read.            *)
HandOut(f) == /\ made' = made \cup {f}
              /\ readMask' = [readMask EXCEPT ![f] = {}]
              /\ freeMask' = [freeMask EXCEPT ![f] = {}]
              /\ faulty' = faulty \ {f}

TakeFree(f) == /\ f \in Usable
               /\ free' = free \ {f}
               /\ backed' = backed \cup {f}
               /\ HandOut(f)
               /\ UNCHANGED <<ready, broken>>

(* Faulty form: a frame is taken that was freed by one of its readers.      *)
TakeBackFreedByOne(i) ==
    /\ setting.takesBack
    /\ readMask[ready[i]] = {} \/ freeMask[ready[i]] # {}
    /\ ready' = Unlink(ready, i)
    /\ HandOut(ready[i])
    /\ UNCHANGED <<free, backed>>

(* The first ready frame that nobody is busy with.                          *)
TakeBack(i) == /\ setting.takesBack
               /\ Idle(i) /\ \A j \in 1 .. i - 1 : ~Idle(j)
               /\ ready' = Unlink(ready, i)
               /\ HandOut(ready[i])
               /\ UNCHANGED <<free, backed>>

(* No PSRAM for the node: it stays on the list and is never tried again.    *)
AllocFails(f) == /\ f \in Usable \ backed
                 /\ Cardinality(broken) < MaxBroken
                 /\ broken' = broken \cup {f}

CannotTakeBack == \/ ~setting.takesBack
                  \/ \A i \in 1 .. Len(ready) : ~Idle(i)

Malloc ==
    /\ Unlocked /\ Cardinality(made) < MaxMade
    /\ \/ \E f \in Frame : TakeFree(f)
       \/ /\ Usable = {} /\ UNCHANGED broken
          /\ \E i \in 1 .. Len(ready) : TakeBack(i)
       \/ /\ \E f \in Frame : AllocFails(f)
          /\ \/ \E i \in 1 .. Len(ready) : TakeBack(i)
             \/ /\ CannotTakeBack
                /\ UNCHANGED <<free, ready, made, backed, readMask, freeMask,
                               faulty>>
    /\ UNCHANGED <<setting, registered, plugin, bit, notifying, reader>>

(* Faulty form: the new frame becomes the first of the list.                *)
PushAtHead(f) ==
    /\ Unlocked /\ f \in made
    /\ made' = made \ {f}
    /\ ready' = <<f>> \o ready
    /\ readMask' = [readMask EXCEPT ![f] = {}]
    /\ freeMask' = [freeMask EXCEPT ![f] = {}]
    /\ notifying' = Module
    /\ UNCHANGED <<setting, free, backed, broken, faulty, registered,
                   plugin, bit, reader>>

Push(f) == /\ Unlocked /\ f \in made
           /\ made' = made \ {f}
           /\ ready' = Append(ready, f)
           /\ readMask' = [readMask EXCEPT ![f] = {}]
           /\ freeMask' = [freeMask EXCEPT ![f] = {}]
           /\ notifying' = Module
           /\ UNCHANGED <<setting, free, backed, broken, faulty, registered,
                          plugin, bit, reader>>

(* One turn of the loop of push over the modules.                           *)
Notify(r) == /\ r \in notifying
             /\ notifying' = notifying \ {r}
             /\ IF r \in registered /\ ~plugin[r]
                THEN /\ bit' = [bit EXCEPT ![r] = TRUE]
                     /\ plugin' = [plugin EXCEPT ![r] = TRUE]
                ELSE UNCHANGED <<bit, plugin>>
             /\ UNCHANGED <<setting, lists, registered, reader>>

DirectFree(f) == /\ Unlocked /\ f \in made
                 /\ made' = made \ {f}
                 /\ free' = free \cup {f}
                 /\ readMask' = [readMask EXCEPT ![f] = {}]
                 /\ freeMask' = [freeMask EXCEPT ![f] = {}]
                 /\ UNCHANGED <<setting, ready, backed, broken, faulty,
                                registered, plugin, bit, notifying, reader>>

Clear == /\ Unlocked /\ setting.clears
         /\ faulty' = faulty \cup Elements(ready)
         /\ UNCHANGED <<setting, free, ready, made, backed, broken, readMask,
                        freeMask, registered, plugin, bit, notifying, reader>>
-----------------------------------------------------------------------------
(* Modules come and go, on demand of other tasks.                           *)

Register(r) == /\ r \notin registered
               /\ registered' = registered \cup {r}
               /\ plugin' = [plugin EXCEPT ![r] = FALSE]
               /\ bit' = [bit EXCEPT ![r] = TRUE]
               /\ UNCHANGED <<setting, lists, notifying, reader>>

Deregister(r) == /\ r \in registered
                 /\ \/ setting.closes = "reading"
                    \/ setting.closes = "idle" /\ pc[r] = "idle"
                 /\ registered' = registered \ {r}
                 /\ UNCHANGED <<setting, lists, plugin, bit, notifying,
                                reader>>
-----------------------------------------------------------------------------
(* Faulty form: the frame is retired as soon as those who read it freed it. *)
FbFreeEarly(r, f) ==
    /\ ready' = Without(ready, f)
    /\ free' = free \cup {f}
    /\ readMask' = [readMask EXCEPT ![f] = {}]
    /\ freeMask' = [freeMask EXCEPT ![f] = {}]
    /\ bit' = [bit EXCEPT ![r] = @ \/ r \in registered]

(* Faulty form: the module that frees is not woken for the next frame.      *)
FbFreeAsleep(r, f) ==
    /\ UNCHANGED bit
    /\ IF readMask[f] = freeMask[f] \cup {r}
          /\ registered \subseteq freeMask[f] \cup {r}
       THEN /\ ready' = Without(ready, f)
            /\ free' = free \cup {f}
            /\ readMask' = [readMask EXCEPT ![f] = {}]
            /\ freeMask' = [freeMask EXCEPT ![f] = {}]
       ELSE /\ freeMask' = [freeMask EXCEPT ![f] = @ \cup {r}]
            /\ UNCHANGED <<ready, free, readMask>>

(* A module frees a frame.  Its mark is set; when all who read the frame    *)
(* and all who are registered have set theirs, the frame is free again.     *)
(* A frame nobody has read goes to the free list on the spot.               *)
FbFree(r, f) ==
    LET freed == freeMask[f] \cup {r}
        retire == /\ ready' = Without(ready, f)
                  /\ free' = free \cup {f}
                  /\ readMask' = [readMask EXCEPT ![f] = {}]
                  /\ freeMask' = [freeMask EXCEPT ![f] = {}]
        mark == /\ freeMask' = [freeMask EXCEPT ![f] = freed]
                /\ UNCHANGED <<ready, free, readMask>>
    IN  \/ /\ r \in freeMask[f]
           /\ UNCHANGED <<free, ready, readMask, freeMask, bit>>
        \/ /\ r \notin freeMask[f] /\ readMask[f] # {}
           /\ IF readMask[f] = freed /\ registered \subseteq freed
              THEN retire ELSE mark
           /\ bit' = [bit EXCEPT ![r] = @ \/ r \in registered]
        \/ /\ r \notin freeMask[f] /\ readMask[f] = {}
           /\ retire /\ UNCHANGED bit

Free(r, f) == /\ Unlocked /\ f \in hands[r]
              /\ FbFree(r, f)
              /\ hands' = [hands EXCEPT ![r] = @ \ {f}]
              /\ UNCHANGED <<setting, made, backed, broken, faulty, registered,
                             plugin, notifying, pc, got>>
-----------------------------------------------------------------------------
(* frame_buffer_fb_read of a module.                                        *)

Goto(r, there) == pc' = [pc EXCEPT ![r] = there]

(* frame_buffer_fb_read returns its variable frame.                         *)
Return(r) == /\ Goto(r, "idle")
             /\ hands' = [hands EXCEPT ![r] = @ \cup ({got[r]} \ {NoFrame})]
             /\ got' = [got EXCEPT ![r] = NoFrame]

BeginRead(r) == /\ pc[r] = "idle" /\ r \in registered
                /\ Cardinality(hands[r]) < MaxHeld
                /\ Goto(r, "wait")
                /\ UNCHANGED <<setting, lists, registered, plugin, bit,
                               notifying, got, hands>>

(* The bit is taken, and the module is still registered.                    *)
WaitBits(r) == /\ pc[r] = "wait" /\ bit[r] /\ r \in registered
               /\ bit' = [bit EXCEPT ![r] = FALSE]
               /\ Goto(r, "pop")
               /\ UNCHANGED <<setting, lists, registered, plugin, notifying,
                              got, hands>>

(* 200 ms without the bit, or the module is not registered any more.        *)
GiveUp(r) == /\ pc[r] = "wait" /\ (r \in registered => ~bit[r])
             /\ Return(r)
             /\ UNCHANGED <<setting, lists, registered, plugin, bit, notifying>>

Unread(r) == {i \in 1 .. Len(ready) : r \notin readMask[ready[i]]}

(* frame_buffer_fb_pop: the first ready frame the module has not read.      *)
Pop(r) == /\ pc[r] = "pop" /\ Unlocked
          /\ \E i \in Unread(r) :
                /\ \A j \in Unread(r) : i <= j
                /\ readMask' = [readMask EXCEPT ![ready[i]] = @ \cup {r}]
                /\ got' = [got EXCEPT ![r] = ready[i]]
          /\ Goto(r, "got")
          /\ UNCHANGED <<setting, free, ready, made, backed, broken, freeMask,
                         faulty, registered, plugin, bit, notifying, hands>>

(* Faulty form: the variable frame keeps what it had.                       *)
PopNullKeeps(r) == /\ pc[r] = "pop" /\ Unlocked /\ Unread(r) = {}
                   /\ Goto(r, "empty")
                   /\ UNCHANGED <<setting, lists, registered, plugin, bit,
                                  notifying, got, hands>>

PopNull(r) == /\ pc[r] = "pop" /\ Unlocked /\ Unread(r) = {}
              /\ got' = [got EXCEPT ![r] = NoFrame]
              /\ Goto(r, "empty")
              /\ UNCHANGED <<setting, lists, registered, plugin, bit, notifying,
                             hands>>

(* Faulty form: push still takes the module for one that reads.             *)
UnplugNot(r) == /\ pc[r] = "empty"
                /\ Goto(r, "wait")
                /\ UNCHANGED <<setting, lists, registered, plugin, bit,
                               notifying, got, hands>>

(* Under the lock of fb_info, not the mutex of the pool.                    *)
Unplug(r) == /\ pc[r] = "empty"
             /\ plugin' = [plugin EXCEPT ![r] = FALSE]
             /\ Goto(r, "wait")
             /\ UNCHANGED <<setting, lists, registered, bit, notifying, got,
                            hands>>

GoodFrame(r) == /\ pc[r] = "got" /\ got[r] \notin faulty
                /\ Return(r)
                /\ UNCHANGED <<setting, lists, registered, plugin, bit,
                               notifying>>

(* A faulty frame is freed, and `continue' leads to the loop condition with *)
(* the frame still in the variable.  That condition looks at enable as the  *)
(* top of the loop does again: both are in WaitBits and GiveUp.             *)
FaultyFrame(r) == /\ pc[r] = "got" /\ got[r] \in faulty /\ Unlocked
                  /\ FbFree(r, got[r])
                  /\ Goto(r, "wait")
                  /\ UNCHANGED <<setting, made, backed, broken, faulty,
                                 registered, plugin, notifying, got, hands>>

FbRead(r) == \/ BeginRead(r) \/ WaitBits(r) \/ GiveUp(r) \/ Pop(r)
             \/ PopNull(r) \/ Unplug(r) \/ GoodFrame(r) \/ FaultyFrame(r)

Next == \/ Malloc \/ Clear
        \/ \E f \in Frame : Push(f) \/ DirectFree(f)
        \/ \E r \in Module : \/ Notify(r) \/ Register(r) \/ Deregister(r)
                             \/ FbRead(r)
                             \/ \E f \in Frame : Free(r, f)

(* What a reader needs the mutex of the pool for.                           *)
Locking(r) == Pop(r) \/ FaultyFrame(r) \/ \E f \in Frame : Free(r, f)

(* The camera goes on, modules read in a loop and free what they read.  A   *)
(* reader gets the mutex in time: a frame comes every 30 ms or so, and the  *)
(* mutex is held for microseconds.                                          *)
Fairness ==
    /\ WF_vars(Malloc)
    /\ SF_vars(\E f \in Frame : Push(f))
    /\ WF_vars(\E r \in Module : Notify(r))
    /\ \A r \in Module : WF_vars(FbRead(r)) /\ SF_vars(Locking(r))

Spec == Init /\ [][Next]_vars
FairSpec == Spec /\ Fairness
-----------------------------------------------------------------------------
(* Properties.                                                              *)

(* The frames a module has in its hands, or just out of fb_pop.             *)
Held(r) == hands[r] \cup (IF pc[r] = "got" THEN {got[r]} ELSE {})

Holders(f) == {r \in Module : f \in Held(r)}

(* Every variable has its type; a module that looks at a popped frame has   *)
(* one, and one whose pop found nothing has none.                           *)
TypeOK ==
    /\ setting \in Settings
    /\ free \subseteq Frame /\ ready \in Seq(Frame) /\ made \subseteq Frame
    /\ backed \subseteq Frame /\ broken \subseteq Frame
    /\ faulty \subseteq Frame
    /\ readMask \in [Frame -> SUBSET Module]
    /\ freeMask \in [Frame -> SUBSET Module]
    /\ registered \subseteq Module /\ notifying \subseteq Module
    /\ plugin \in [Module -> BOOLEAN] /\ bit \in [Module -> BOOLEAN]
    /\ pc \in [Module -> Places]
    /\ got \in [Module -> Frame \cup {NoFrame}]
    /\ hands \in [Module -> SUBSET Frame]
    /\ \A r \in Module : /\ pc[r] = "got" => got[r] \in Frame
                         /\ pc[r] = "empty" => got[r] = NoFrame

(* Every node is on the free list, on the ready list once, or with the      *)
(* producer, and nowhere twice: no operation loses one or lists one twice.  *)
OnePlace ==
    /\ free \cup made \cup Elements(ready) = Frame
    /\ free \cap made = {}
    /\ Elements(ready) \cap (free \cup made) = {}
    /\ \A i, j \in 1 .. Len(ready) : ready[i] = ready[j] => i = j

(* The two masks say of each ready frame exactly which modules hold it, and *)
(* no module holds a frame that is free or with the producer.  The modules  *)
(* act on frames they were handed; the masks are all the pool knows.        *)
MasksTellHolders ==
    \A f \in Frame :
        Holders(f) = IF f \in Elements(ready)
                     THEN readMask[f] \ freeMask[f] ELSE {}

(* Whatever frame_buffer_fb_read has returned is a frame that is lent to    *)
(* the module and that it has still to free.                                *)
ValidFrames ==
    \A r \in Module : \A f \in hands[r] :
        f \in Elements(ready) /\ r \in readMask[f] \ freeMask[f]

(* Every module reads the frames in the order they were pushed, none twice  *)
(* and none out of turn: what it has read comes before what it has not.     *)
ReadInOrder ==
    \A i, j \in 1 .. Len(ready) : \A r \in Module :
        i < j /\ r \in readMask[ready[j]] => r \in readMask[ready[i]]

(* A module that the next push will not wake is awake already or holds a    *)
(* frame, and freeing that wakes it.                                        *)
NotDeaf ==
    \A r \in registered :
        pc[r] \in {"idle", "wait"} /\ plugin[r] /\ ~bit[r]
            => hands[r] # {}

(* The pool implements FrameLease: a frame is written to only while nobody  *)
(* holds it, and nobody is handed the same frame twice.                     *)
Place(f) == IF f \in made THEN "made"
            ELSE IF f \in Elements(ready) THEN "ready" ELSE "free"

Lease == INSTANCE FrameLease WITH
             place <- [f \in Frame |-> Place(f)],
             holders <- [f \in Frame |-> Holders(f)],
             seen <- readMask

LeaseSpec == Lease!Spec

(* A module that waits for JPEG frames while the camera runs gets one, or   *)
(* is not registered any more, as long as the pool has more nodes that can  *)
(* be used than the camera has at a time.  The wake-up that Unplug can miss *)
(* is made up for by the next push; H.264 is left out, as its pool can fill *)
(* up while a module is about to unplug, and then there is no next push.    *)
Served == \A r \in Module :
              setting.takesBack /\ pc[r] = "wait" /\ r \in registered
                  ~> \/ pc[r] = "got" \/ r \notin registered
                     \/ Cardinality(Frame \ broken) =< MaxMade
=============================================================================
