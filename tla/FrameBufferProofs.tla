------------------------- MODULE FrameBufferProofs -------------------------
(***************************************************************************)
(* Proofs about FrameBuffer, for pools of any size and any set of modules. *)
(* They need that no module is deregistered while it reads a pool whose    *)
(* camera marks frames as faulty (see ValidFrames and its run).            *)
(***************************************************************************)
EXTENDS FrameBuffer, TLAPS

Apart == \A s \in Settings : ~(s.clears /\ s.closes = "reading")

(* Every two members of t stand in the same order in s.                     *)
KeepsOrder(t, s) ==
    \A i, j \in 1 .. Len(t) :
        i < j => \E k, l \in 1 .. Len(s) :
                     k < l /\ t[i] = s[k] /\ t[j] = s[l]

NoRepeats(s) == \A i, j \in 1 .. Len(s) : s[i] = s[j] => i = j

(* What taking f off the list s has to leave.                               *)
Shorter(t, s, f) == /\ t \in Seq(Frame)
                    /\ Elements(t) = Elements(s) \ {f}
                    /\ NoRepeats(t)
                    /\ KeepsOrder(t, s)

(* list_del on a list without repetitions takes away that node only.        *)
LEMMA UnlinkShorter ==
    ASSUME NEW s \in Seq(Frame), NoRepeats(s), NEW i \in 1 .. Len(s)
    PROVE  Shorter(Unlink(s, i), s, s[i])
<1> DEFINE t == Unlink(s, i)
           at(j) == IF j < i THEN j ELSE j + 1
<1>1. /\ Len(s) \in Nat /\ Len(s) > 0 /\ i \in Nat
      /\ \A j \in 1 .. Len(s) : s[j] \in Frame
    OBVIOUS
<1>2. \A j \in 1 .. Len(s) - 1 : at(j) \in 1 .. Len(s) /\ at(j) # i
    BY <1>1
<1>3. t = [j \in 1 .. Len(s) - 1 |-> s[at(j)]]
    BY <1>1 DEF Unlink
<1> HIDE DEF t
<1>4. t \in Seq(Frame) /\ Len(t) = Len(s) - 1
    BY <1>1, <1>2, <1>3
<1>5. \A j \in 1 .. Len(t) : t[j] = s[at(j)]
    BY <1>3, <1>4
<1>6. NoRepeats(t)
  <2> SUFFICES ASSUME NEW j \in 1 .. Len(t), NEW k \in 1 .. Len(t),
                      t[j] = t[k]
               PROVE  j = k
    BY DEF NoRepeats
  <2>1. s[at(j)] = s[at(k)] /\ at(j) \in 1 .. Len(s) /\ at(k) \in 1 .. Len(s)
    BY <1>2, <1>4, <1>5
  <2>2. at(j) = at(k)
    BY <2>1 DEF NoRepeats
  <2> QED BY <1>1, <1>4, <2>2
<1>7. KeepsOrder(t, s)
  <2> SUFFICES ASSUME NEW j \in 1 .. Len(t), NEW k \in 1 .. Len(t), j < k
               PROVE  \E a, b \in 1 .. Len(s) :
                          a < b /\ t[j] = s[a] /\ t[k] = s[b]
    BY DEF KeepsOrder
  <2>1. at(j) \in 1 .. Len(s) /\ at(k) \in 1 .. Len(s) /\ at(j) < at(k)
    BY <1>1, <1>2, <1>4
  <2> QED BY <2>1, <1>5
<1>8. Elements(t) = Elements(s) \ {s[i]}
  <2>1. ASSUME NEW x \in Elements(t) PROVE x \in Elements(s) \ {s[i]}
    BY <1>1, <1>2, <1>4, <1>5 DEF Elements, NoRepeats
  <2>2. ASSUME NEW x \in Elements(s) \ {s[i]} PROVE x \in Elements(t)
    <3>1. PICK j \in 1 .. Len(s) : x = s[j] /\ j # i
      BY DEF Elements
    <3> DEFINE k == IF j < i THEN j ELSE j - 1
    <3>2. k \in 1 .. Len(t) /\ at(k) = j
      BY <1>1, <1>4, <3>1
    <3> QED BY <3>1, <3>2, <1>5 DEF Elements
  <2> QED BY <2>1, <2>2
<1> QED BY <1>4, <1>6, <1>7, <1>8 DEF Shorter, t

(* frame_buffer_list_remove of a frame that is on the list.                 *)
LEMMA WithoutShorter ==
    ASSUME NEW s \in Seq(Frame), NoRepeats(s), NEW f \in Elements(s)
    PROVE  Shorter(Without(s, f), s, f)
<1> DEFINE first(i) == s[i] = f /\ \A j \in 1 .. i - 1 : s[j] # f
<1>1. PICK i \in 1 .. Len(s) : s[i] = f
    BY DEF Elements
<1>2. first(i)
    BY <1>1 DEF NoRepeats
<1> DEFINE c == CHOOSE k \in 1 .. Len(s) : first(k)
<1>3. c \in 1 .. Len(s) /\ s[c] = f
    BY <1>2
<1>4. Without(s, f) = Unlink(s, c)
    BY DEF Without
<1> HIDE DEF c
<1> QED BY <1>3, <1>4, UnlinkShorter
-----------------------------------------------------------------------------
(* A frame that is not ready has no masks, and only who read a frame has    *)
(* freed it.                                                                *)
Clean == \A f \in Frame : /\ f \notin Elements(ready) => readMask[f] = {}
                          /\ freeMask[f] \subseteq readMask[f]

Lists == OnePlace /\ ReadInOrder /\ Clean

(* When the variable of fb_read can hold a frame, and who is registered.    *)
Obedient ==
    /\ ~setting.clears => faulty = {}
    /\ \A r \in Module :
          /\ setting.closes # "reading" /\ pc[r] # "idle" => r \in registered
          /\ pc[r] = "idle" => got[r] = NoFrame
          /\ pc[r] = "got" => got[r] \notin hands[r]
          /\ pc[r] = "wait" /\ got[r] # NoFrame
                => bit[r] /\ setting.closes # "reading"

IInv == TypeOK /\ Lists /\ MasksTellHolders /\ NotDeaf /\ Obedient

LEMMA InitIInv == Init => IInv
<1> SUFFICES ASSUME Init PROVE IInv
    OBVIOUS
<1> USE FrameAssumption DEF Init
<1>1. Elements(ready) = {} /\ Len(ready) = 0
    BY DEF Elements
<1>2. TypeOK
    BY DEF TypeOK, Places
<1>3. Lists
    BY <1>1 DEF Lists, OnePlace, ReadInOrder, Clean
<1>4. MasksTellHolders
    BY <1>1 DEF MasksTellHolders, Holders, Held
<1>5. NotDeaf /\ Obedient
    BY DEF NotDeaf, Obedient
<1> QED BY <1>2, <1>3, <1>4, <1>5 DEF IInv

(* Steps that leave alone the lists and who holds what.                     *)
LEMMA ListsKept ==
    ASSUME IInv, UNCHANGED <<free, ready, made, readMask, freeMask>>
    PROVE  Lists'
BY DEF IInv, Lists, OnePlace, ReadInOrder, Clean, Elements

LEMMA MasksKept ==
    ASSUME IInv, UNCHANGED <<ready, readMask, freeMask>>,
           \A r \in Module : Held(r)' = Held(r)
    PROVE  MasksTellHolders'
<1> \A f \in Frame : Holders(f)' = Holders(f)
    BY DEF Holders
<1> QED BY DEF IInv, MasksTellHolders, Elements

(* A frame leaves the ready list and nobody holds it: the rest of the list  *)
(* is as before.                                                            *)
LEMMA ListsShorter ==
    ASSUME IInv, NEW f \in Elements(ready), Shorter(ready', ready, f),
           readMask' = [readMask EXCEPT ![f] = {}],
           freeMask' = [freeMask EXCEPT ![f] = {}],
           \/ made' = made \cup {f} /\ free' = free
           \/ made' = made /\ free' = free \cup {f}
    PROVE  Lists'
<1> USE DEF IInv, TypeOK
<1>1. Elements(ready') = Elements(ready) \ {f} /\ f \in Frame
  <2>1. \A i \in 1 .. Len(ready) : ready[i] \in Frame
    OBVIOUS
  <2> QED BY <2>1 DEF Shorter, Elements
<1>2. OnePlace'
    BY <1>1 DEF Lists, OnePlace, Shorter, NoRepeats
<1>3. ReadInOrder'
  <2> SUFFICES ASSUME NEW i \in 1 .. Len(ready'), NEW j \in 1 .. Len(ready'),
                      NEW r \in Module, i < j, r \in readMask'[ready'[j]]
               PROVE  r \in readMask'[ready'[i]]
    BY DEF ReadInOrder
  <2>1. PICK k, l \in 1 .. Len(ready) :
            k < l /\ ready'[i] = ready[k] /\ ready'[j] = ready[l]
    BY DEF Shorter, KeepsOrder
  <2>2. ready'[i] \in Frame \ {f} /\ ready'[j] \in Frame \ {f}
    <3>1. ready'[i] \in Elements(ready') /\ ready'[j] \in Elements(ready')
      BY DEF Elements
    <3>2. \A m \in 1 .. Len(ready) : ready[m] \in Frame
      OBVIOUS
    <3> QED BY <1>1, <2>1, <3>1, <3>2
  <2>3. r \in readMask[ready[l]]
    BY <2>1, <2>2
  <2>4. r \in readMask[ready[k]]
    BY <2>1, <2>3 DEF Lists, ReadInOrder
  <2> QED BY <2>1, <2>2, <2>4
<1>4. Clean'
    BY <1>1 DEF Lists, Clean
<1> QED BY <1>2, <1>3, <1>4 DEF Lists

(* What frame_buffer_fb_free does with a frame the module holds: the module *)
(* is woken if it is registered, and the masks forget that it is a holder.  *)
LEMMA FbFreeEffect ==
    ASSUME IInv, NEW r \in Module, NEW f \in Frame, f \in Held(r),
           FbFree(r, f), made' = made
    PROVE  /\ Lists'
           /\ free' \subseteq Frame /\ ready' \in Seq(Frame)
           /\ readMask' \in [Frame -> SUBSET Module]
           /\ freeMask' \in [Frame -> SUBSET Module]
           /\ bit' = [bit EXCEPT ![r] = @ \/ r \in registered]
           /\ \A g \in Frame :
                  (IF g \in Elements(ready') THEN readMask'[g] \ freeMask'[g]
                                             ELSE {})
                  = Holders(g) \ (IF g = f THEN {r} ELSE {})
<1> USE DEF IInv, TypeOK
<1>1. f \in Elements(ready) /\ r \in readMask[f] \ freeMask[f]
    BY DEF MasksTellHolders, Holders
<1> DEFINE freed == freeMask[f] \cup {r}
<1>2. bit' = [bit EXCEPT ![r] = @ \/ r \in registered]
    BY <1>1 DEF FbFree
<1>3. CASE readMask[f] = freed /\ registered \subseteq freed
  <2>1. /\ ready' = Without(ready, f) /\ free' = free \cup {f}
        /\ readMask' = [readMask EXCEPT ![f] = {}]
        /\ freeMask' = [freeMask EXCEPT ![f] = {}]
    BY <1>1, <1>3 DEF FbFree
  <2>2. Shorter(ready', ready, f)
    BY <1>1, <2>1, WithoutShorter DEF Lists, OnePlace, NoRepeats
  <2>3. Lists'
    BY <1>1, <2>1, <2>2, ListsShorter
  <2>4. Elements(ready') = Elements(ready) \ {f} /\ ready' \in Seq(Frame)
    BY <2>2 DEF Shorter
  <2>5. ASSUME NEW g \in Frame
        PROVE  (IF g \in Elements(ready') THEN readMask'[g] \ freeMask'[g]
                                          ELSE {})
               = Holders(g) \ (IF g = f THEN {r} ELSE {})
    <3>1. CASE g = f
      <4>1. Holders(f) = {r}
        BY <1>1, <1>3 DEF MasksTellHolders
      <4> QED BY <2>4, <3>1, <4>1
    <3>2. CASE g # f
      BY <2>1, <2>4, <3>2 DEF MasksTellHolders
    <3> QED BY <3>1, <3>2
  <2> QED BY <1>2, <2>1, <2>3, <2>4, <2>5
<1>4. CASE ~(readMask[f] = freed /\ registered \subseteq freed)
  <2>1. /\ freeMask' = [freeMask EXCEPT ![f] = freed]
        /\ UNCHANGED <<ready, free, readMask>>
    BY <1>1, <1>4 DEF FbFree
  <2>2. Lists'
    BY <1>1, <2>1 DEF Lists, OnePlace, ReadInOrder, Clean
  <2>3. ASSUME NEW g \in Frame
        PROVE  (IF g \in Elements(ready') THEN readMask'[g] \ freeMask'[g]
                                          ELSE {})
               = Holders(g) \ (IF g = f THEN {r} ELSE {})
    <3>1. Elements(ready') = Elements(ready)
      BY <2>1
    <3>2. Holders(g) = IF g \in Elements(ready)
                       THEN readMask[g] \ freeMask[g] ELSE {}
      BY DEF MasksTellHolders
    <3>3. CASE g = f
      BY <1>1, <2>1, <3>1, <3>2, <3>3
    <3>4. CASE g # f
      BY <2>1, <3>1, <3>2, <3>4
    <3> QED BY <3>3, <3>4
  <2> QED BY <1>2, <2>1, <2>2, <2>3
<1> QED BY <1>3, <1>4
-----------------------------------------------------------------------------
(* The producer's steps.                                                    *)

LEMMA HandOutMasks ==
    ASSUME IInv, NEW f \in Frame, HandOut(f), Holders(f) = {},
           Elements(ready') = Elements(ready) \ {f},
           UNCHANGED <<pc, got, hands>>
    PROVE  MasksTellHolders'
<1> USE DEF IInv, TypeOK, HandOut
<1> SUFFICES ASSUME NEW g \in Frame
             PROVE  Holders(g)' = IF g \in Elements(ready')
                                  THEN readMask'[g] \ freeMask'[g] ELSE {}
    BY DEF MasksTellHolders, Elements
<1>1. Holders(g)' = Holders(g)
    BY DEF Holders, Held
<1>2. Holders(g) = IF g \in Elements(ready)
                   THEN readMask[g] \ freeMask[g] ELSE {}
    BY DEF MasksTellHolders
<1> QED BY <1>1, <1>2

LEMMA TakeBackIInv ==
    ASSUME IInv, NEW i \in 1 .. Len(ready), TakeBack(i),
           broken' \subseteq Frame,
           UNCHANGED <<setting, registered, plugin, bit, notifying, reader>>
    PROVE  IInv'
<1> USE DEF reader
<1> DEFINE f == ready[i]
<1>1. f \in Elements(ready) /\ f \in Frame
    BY DEF Elements, IInv, TypeOK
<1>2. Shorter(ready', ready, f)
    BY UnlinkShorter DEF IInv, TypeOK, TakeBack, Lists, OnePlace, NoRepeats
<1>3. ready' \in Seq(Frame) /\ Elements(ready') = Elements(ready) \ {f}
    BY <1>2 DEF Shorter
<1>4. TypeOK'
    BY <1>1, <1>3 DEF IInv, TypeOK, TakeBack, HandOut
<1>5. Lists'
    BY <1>1, <1>2, ListsShorter DEF TakeBack, HandOut
<1>6. Holders(f) = {}
    BY <1>1 DEF TakeBack, Idle, IInv, MasksTellHolders
<1>7. MasksTellHolders'
    BY <1>1, <1>3, <1>6, HandOutMasks DEF TakeBack
<1>8. NotDeaf' /\ Obedient'
    BY DEF IInv, NotDeaf, Obedient, TakeBack, HandOut
<1> QED BY <1>4, <1>5, <1>7, <1>8 DEF IInv

LEMMA MallocIInv == IInv /\ Malloc => IInv'
<1> SUFFICES ASSUME IInv, Malloc PROVE IInv'
    OBVIOUS
<1> USE DEF reader
<1>1. ASSUME NEW f \in Frame, TakeFree(f) PROVE IInv'
  <2>1. TypeOK'
    BY <1>1 DEF IInv, TypeOK, Malloc, TakeFree, HandOut
  <2>2. f \notin Elements(ready) /\ f \in free
    BY <1>1 DEF TakeFree, Usable, IInv, Lists, OnePlace
  <2>3. Lists'
    <3>1. readMask' = readMask
      BY <1>1, <2>2 DEF IInv, TypeOK, Lists, Clean, TakeFree, HandOut
    <3> QED BY <1>1, <2>2, <3>1
            DEF IInv, Lists, OnePlace, ReadInOrder, Clean, Elements,
                TakeFree, HandOut
  <2>4. Holders(f) = {}
    BY <2>2 DEF IInv, MasksTellHolders
  <2>5. MasksTellHolders'
    BY <1>1, <2>2, <2>4, HandOutMasks DEF Malloc, TakeFree
  <2>6. NotDeaf' /\ Obedient'
    BY <1>1 DEF IInv, NotDeaf, Obedient, Malloc, TakeFree, HandOut
  <2> QED BY <2>1, <2>3, <2>5, <2>6 DEF IInv
<1>2. ASSUME NEW i \in 1 .. Len(ready), TakeBack(i), UNCHANGED broken
      PROVE  IInv'
    BY <1>2, TakeBackIInv DEF IInv, TypeOK, Malloc
<1>3. ASSUME NEW f \in Frame, AllocFails(f), NEW i \in 1 .. Len(ready),
             TakeBack(i)
      PROVE  IInv'
    BY <1>3, TakeBackIInv DEF IInv, TypeOK, Malloc, AllocFails
<1>4. ASSUME NEW f \in Frame, AllocFails(f),
             UNCHANGED <<free, ready, made, backed, readMask, freeMask,
                         faulty>>
      PROVE  IInv'
  <2>1. TypeOK'
    BY <1>4 DEF IInv, TypeOK, Malloc, AllocFails
  <2>2. Lists'
    BY <1>4, ListsKept
  <2>3. MasksTellHolders'
    BY <1>4, MasksKept DEF Held, Malloc
  <2>4. NotDeaf' /\ Obedient'
    BY <1>4 DEF IInv, NotDeaf, Obedient, Malloc
  <2> QED BY <2>1, <2>2, <2>3, <2>4 DEF IInv
<1> QED BY <1>1, <1>2, <1>3, <1>4 DEF Malloc

LEMMA PushIInv ==
    ASSUME IInv, NEW f \in Frame, Push(f)
    PROVE  IInv'
<1> USE DEF Push, reader
<1>1. /\ ready' \in Seq(Frame) /\ Len(ready') = Len(ready) + 1
      /\ \A i \in 1 .. Len(ready') :
            ready'[i] = IF i =< Len(ready) THEN ready[i] ELSE f
    BY DEF IInv, TypeOK
<1>2. Elements(ready') = Elements(ready) \cup {f}
    BY <1>1 DEF Elements, IInv, TypeOK
<1>3. f \notin Elements(ready) /\ readMask[f] = {} /\ readMask' = readMask
    BY DEF IInv, TypeOK, Lists, OnePlace, Clean
<1>4. TypeOK'
    BY <1>1 DEF IInv, TypeOK
<1>5. Lists'
  <2>1. \A i \in 1 .. Len(ready) : ready[i] # f
    BY <1>3 DEF Elements
  <2>2. OnePlace'
    BY <1>1, <1>2, <1>3, <2>1 DEF IInv, TypeOK, Lists, OnePlace
  <2>3. ReadInOrder'
    <3> SUFFICES ASSUME NEW i \in 1 .. Len(ready'),
                        NEW j \in 1 .. Len(ready'), NEW r \in Module,
                        i < j, r \in readMask'[ready'[j]]
                 PROVE  r \in readMask'[ready'[i]]
      BY DEF ReadInOrder
    <3>1. Len(ready) \in Nat
      BY DEF IInv, TypeOK
    <3>2. j =< Len(ready)
      BY <1>1, <1>3
    <3>3. i \in 1 .. Len(ready) /\ j \in 1 .. Len(ready)
      BY <3>1, <3>2
    <3> QED BY <1>1, <1>3, <3>3 DEF IInv, Lists, ReadInOrder
  <2>4. Clean'
    BY <1>2, <1>3 DEF IInv, Lists, Clean
  <2> QED BY <2>2, <2>3, <2>4 DEF Lists
<1>6. MasksTellHolders'
  <2> SUFFICES ASSUME NEW g \in Frame
               PROVE  Holders(g)' = IF g \in Elements(ready')
                                    THEN readMask'[g] \ freeMask'[g] ELSE {}
    BY DEF MasksTellHolders, Elements
  <2>1. Holders(g)' = Holders(g)
    BY DEF Holders, Held
  <2>2. Holders(g) = IF g \in Elements(ready)
                     THEN readMask[g] \ freeMask[g] ELSE {}
    BY DEF IInv, MasksTellHolders
  <2>3. CASE g = f
    <3>1. readMask'[f] \ freeMask'[f] = {}
      BY DEF IInv, TypeOK
    <3> QED BY <1>2, <1>3, <2>1, <2>2, <2>3, <3>1
  <2>4. CASE g # f
    <3>1. readMask'[g] = readMask[g] /\ freeMask'[g] = freeMask[g]
      BY <2>4 DEF IInv, TypeOK
    <3> QED BY <1>2, <2>1, <2>2, <2>4, <3>1
  <2> QED BY <2>3, <2>4
<1>7. NotDeaf' /\ Obedient'
    BY DEF IInv, NotDeaf, Obedient
<1> QED BY <1>4, <1>5, <1>6, <1>7 DEF IInv

LEMMA DirectFreeIInv ==
    ASSUME IInv, NEW f \in Frame, DirectFree(f)
    PROVE  IInv'
<1> USE DEF DirectFree, reader
<1>1. f \notin Elements(ready) /\ readMask' = readMask
    BY DEF IInv, TypeOK, Lists, OnePlace, Clean
<1>2. TypeOK'
    BY DEF IInv, TypeOK
<1>3. Lists'
    BY <1>1 DEF IInv, Lists, OnePlace, ReadInOrder, Clean, Elements
<1>4. MasksTellHolders'
  <2> SUFFICES ASSUME NEW g \in Frame
               PROVE  Holders(g)' = IF g \in Elements(ready)
                                    THEN readMask'[g] \ freeMask'[g] ELSE {}
    BY DEF MasksTellHolders, Elements
  <2>1. Holders(g)' = Holders(g)
    BY DEF Holders, Held
  <2>2. Holders(g) = IF g \in Elements(ready)
                     THEN readMask[g] \ freeMask[g] ELSE {}
    BY DEF IInv, MasksTellHolders
  <2>3. CASE g = f
    BY <1>1, <2>1, <2>2, <2>3
  <2>4. CASE g # f
    <3>1. readMask'[g] = readMask[g] /\ freeMask'[g] = freeMask[g]
      BY <2>4 DEF IInv, TypeOK
    <3> QED BY <2>1, <2>2, <2>4, <3>1
  <2> QED BY <2>3, <2>4
<1>5. NotDeaf' /\ Obedient'
    BY DEF IInv, NotDeaf, Obedient
<1> QED BY <1>2, <1>3, <1>4, <1>5 DEF IInv

LEMMA ClearIInv == IInv /\ Clear => IInv'
<1> SUFFICES ASSUME IInv, Clear PROVE IInv'
    OBVIOUS
<1> USE DEF Clear, reader
<1>1. \A i \in 1 .. Len(ready) : ready[i] \in Frame
    BY DEF IInv, TypeOK
<1>2. TypeOK'
    BY <1>1 DEF IInv, TypeOK, Elements
<1>3. Lists' /\ MasksTellHolders'
    BY ListsKept, MasksKept DEF Held
<1>4. NotDeaf' /\ Obedient'
    BY DEF IInv, NotDeaf, Obedient
<1> QED BY <1>2, <1>3, <1>4 DEF IInv
-----------------------------------------------------------------------------
(* The steps of the modules and of those who register them.                 *)

LEMMA BystanderIInv ==
    ASSUME Apart, IInv, NEW r \in Module,
           Notify(r) \/ Register(r) \/ Deregister(r)
    PROVE  IInv'
<1> USE DEF lists, reader, Notify, Register, Deregister
<1>1. setting \in [takesBack : BOOLEAN, clears : BOOLEAN,
                   closes : {"never", "idle", "reading"}]
    BY FrameAssumption DEF IInv, TypeOK
<1>2. TypeOK'
    BY DEF IInv, TypeOK
<1>3. Lists' /\ MasksTellHolders'
    BY ListsKept, MasksKept DEF Held
<1>4. NotDeaf'
    BY DEF IInv, TypeOK, NotDeaf
<1>5. Obedient'
    BY <1>1 DEF IInv, TypeOK, Obedient
<1> QED BY <1>2, <1>3, <1>4, <1>5 DEF IInv

(* The steps of fb_read that leave the lists alone, and pop.                *)
LEMMA FbReadIInv ==
    ASSUME Apart, IInv, NEW r \in Module, FbRead(r), ~FaultyFrame(r)
    PROVE  IInv'
<1> USE DEF lists, Goto, Return
<1>1. CASE BeginRead(r)
  <2> USE <1>1 DEF BeginRead
  <2>1. TypeOK'
    BY DEF IInv, TypeOK, Places
  <2>2. \A q \in Module : Held(q)' = Held(q)
    BY DEF IInv, TypeOK, Held
  <2>3. Lists' /\ MasksTellHolders'
    BY <2>2, ListsKept, MasksKept
  <2>4. NotDeaf' /\ Obedient'
    BY DEF IInv, TypeOK, NotDeaf, Obedient
  <2> QED BY <2>1, <2>3, <2>4 DEF IInv
<1>2. CASE WaitBits(r)
  <2> USE <1>2 DEF WaitBits
  <2>1. TypeOK'
    BY DEF IInv, TypeOK, Places
  <2>2. \A q \in Module : Held(q)' = Held(q)
    BY DEF IInv, TypeOK, Held
  <2>3. Lists' /\ MasksTellHolders'
    BY <2>2, ListsKept, MasksKept
  <2>4. NotDeaf' /\ Obedient'
    BY DEF IInv, TypeOK, NotDeaf, Obedient
  <2> QED BY <2>1, <2>3, <2>4 DEF IInv
<1>3. CASE GiveUp(r)
  <2> USE <1>3 DEF GiveUp
  <2>1. got[r] = NoFrame
    BY DEF IInv, Obedient
  <2>2. TypeOK'
    BY <2>1 DEF IInv, TypeOK, Places
  <2>3. \A q \in Module : Held(q)' = Held(q)
    BY <2>1 DEF IInv, TypeOK, Held
  <2>4. Lists' /\ MasksTellHolders'
    BY <2>3, ListsKept, MasksKept
  <2>5. NotDeaf' /\ Obedient'
    BY <2>1 DEF IInv, TypeOK, NotDeaf, Obedient
  <2> QED BY <2>2, <2>4, <2>5 DEF IInv
<1>4. CASE Pop(r)
  <2> USE <1>4 DEF Pop
  <2>1. PICK i \in Unread(r) :
            /\ \A j \in Unread(r) : i <= j
            /\ readMask' = [readMask EXCEPT ![ready[i]] = @ \cup {r}]
            /\ got' = [got EXCEPT ![r] = ready[i]]
    OBVIOUS
  <2> DEFINE f == ready[i]
  <2>2. /\ i \in 1 .. Len(ready) /\ f \in Frame /\ f \in Elements(ready)
        /\ r \notin readMask[f]
    BY DEF Unread, Elements, IInv, TypeOK
  <2>3. TypeOK'
    BY <2>1, <2>2 DEF IInv, TypeOK, Places
  <2>4. Lists'
    <3>1. OnePlace'
      BY DEF IInv, Lists, OnePlace, Elements
    <3>2. ReadInOrder'
      <4> SUFFICES ASSUME NEW j \in 1 .. Len(ready), NEW k \in 1 .. Len(ready),
                          NEW q \in Module, j < k, q \in readMask'[ready[k]]
                   PROVE  q \in readMask'[ready[j]]
        BY DEF ReadInOrder
      <4>1. /\ ready[j] \in Frame /\ ready[k] \in Frame
            /\ readMask[ready[j]] \subseteq readMask'[ready[j]]
        BY <2>1, <2>2 DEF IInv, TypeOK
      <4>2. CASE q \in readMask[ready[k]]
        BY <4>1, <4>2 DEF IInv, Lists, ReadInOrder
      <4>3. CASE q \notin readMask[ready[k]]
        <5>1. q = r /\ ready[k] = f
          BY <2>1, <2>2, <4>1, <4>3 DEF IInv, TypeOK
        <5>2. k = i
          BY <2>2, <5>1 DEF IInv, Lists, OnePlace
        <5>3. j \notin Unread(r)
          BY <2>1, <2>2, <5>2
        <5> QED BY <4>1, <5>1, <5>3 DEF Unread
      <4> QED BY <4>2, <4>3
    <3>3. Clean'
      BY <2>1, <2>2 DEF IInv, TypeOK, Lists, Clean, Elements
    <3> QED BY <3>1, <3>2, <3>3 DEF Lists
  <2>5. MasksTellHolders'
    <3> SUFFICES ASSUME NEW g \in Frame
                 PROVE  Holders(g)' = IF g \in Elements(ready)
                                      THEN readMask'[g] \ freeMask'[g] ELSE {}
      BY DEF MasksTellHolders, Elements
    <3>1. Holders(g) = IF g \in Elements(ready)
                       THEN readMask[g] \ freeMask[g] ELSE {}
      BY DEF IInv, MasksTellHolders
    <3>2. \A q \in Module : Held(q)' = IF q = r THEN Held(q) \cup {f}
                                       ELSE Held(q)
      BY <2>1 DEF IInv, TypeOK, Held
    <3>3. CASE g = f
      <4>1. r \notin freeMask[f]
        BY <2>2 DEF IInv, Lists, Clean
      <4> QED BY <2>1, <2>2, <3>1, <3>2, <3>3, <4>1 DEF Holders, IInv, TypeOK
    <3>4. CASE g # f
      BY <2>1, <2>2, <3>1, <3>2, <3>4 DEF Holders, IInv, TypeOK
    <3> QED BY <3>3, <3>4
  <2>6. f \notin hands[r]
    BY <2>2 DEF IInv, MasksTellHolders, Holders, Held
  <2>7. NotDeaf' /\ Obedient'
    BY <2>1, <2>6 DEF IInv, TypeOK, NotDeaf, Obedient
  <2> QED BY <2>3, <2>4, <2>5, <2>7 DEF IInv
<1>5. CASE PopNull(r)
  <2> USE <1>5 DEF PopNull
  <2>1. TypeOK'
    BY DEF IInv, TypeOK, Places
  <2>2. \A q \in Module : Held(q)' = Held(q)
    BY DEF IInv, TypeOK, Held
  <2>3. Lists' /\ MasksTellHolders'
    BY <2>2, ListsKept, MasksKept
  <2>4. NotDeaf' /\ Obedient'
    BY DEF IInv, TypeOK, NotDeaf, Obedient
  <2> QED BY <2>1, <2>3, <2>4 DEF IInv
<1>6. CASE Unplug(r)
  <2> USE <1>6 DEF Unplug
  <2>1. TypeOK'
    BY DEF IInv, TypeOK, Places
  <2>2. \A q \in Module : Held(q)' = Held(q)
    BY DEF IInv, TypeOK, Held
  <2>3. Lists' /\ MasksTellHolders'
    BY <2>2, ListsKept, MasksKept
  <2>4. NotDeaf' /\ Obedient'
    BY DEF IInv, TypeOK, NotDeaf, Obedient
  <2> QED BY <2>1, <2>3, <2>4 DEF IInv
<1>7. CASE GoodFrame(r)
  <2> USE <1>7 DEF GoodFrame
  <2>1. got[r] \in Frame /\ got[r] # NoFrame
    BY FrameAssumption DEF IInv, TypeOK
  <2>2. TypeOK'
    BY <2>1 DEF IInv, TypeOK, Places
  <2>3. \A q \in Module : Held(q)' = Held(q)
    BY <2>1 DEF IInv, TypeOK, Held
  <2>4. Lists' /\ MasksTellHolders'
    BY <2>3, ListsKept, MasksKept
  <2>5. NotDeaf' /\ Obedient'
    BY <2>1 DEF IInv, TypeOK, NotDeaf, Obedient
  <2> QED BY <2>2, <2>4, <2>5 DEF IInv
<1> QED BY <1>1, <1>2, <1>3, <1>4, <1>5, <1>6, <1>7 DEF FbRead

(* A module lets go of a frame that it holds, by either way to fb_free.     *)
LEMMA LetGoIInv ==
    ASSUME IInv, NEW r \in Module, NEW f \in Frame, f \in Held(r), FbFree(r, f),
           \A q \in Module : Held(q)' = IF q = r THEN Held(q) \ {f} ELSE Held(q),
           made' = made
    PROVE  Lists' /\ MasksTellHolders'
<1>1. Lists'
    BY FbFreeEffect
<1>2. \A g \in Frame : Holders(g)' = Holders(g) \ (IF g = f THEN {r} ELSE {})
    BY DEF Holders
<1>3. MasksTellHolders'
  <2> SUFFICES ASSUME NEW g \in Frame
               PROVE  Holders(g)' = IF g \in Elements(ready')
                                    THEN readMask'[g] \ freeMask'[g] ELSE {}
    BY DEF MasksTellHolders, Elements
  <2> QED BY <1>2, FbFreeEffect
<1> QED BY <1>1, <1>3

LEMMA FreeIInv ==
    ASSUME IInv, NEW r \in Module, NEW f \in Frame, Free(r, f)
    PROVE  IInv'
<1> USE DEF Free
<1>1. f \in Held(r)
    BY DEF Held
<1>2. \A q \in Module : Held(q)' = IF q = r THEN Held(q) \ {f} ELSE Held(q)
    BY DEF Held, IInv, TypeOK, Obedient
<1>3. Lists' /\ MasksTellHolders'
    BY <1>1, <1>2, LetGoIInv
<1>4. bit' = [bit EXCEPT ![r] = @ \/ r \in registered]
    BY <1>1, FbFreeEffect
<1>5. TypeOK'
    BY <1>1, <1>4, FbFreeEffect DEF IInv, TypeOK
<1>6. NotDeaf'
  <2> SUFFICES ASSUME NEW q \in registered, pc[q] \in {"idle", "wait"},
                      plugin[q], ~bit'[q]
               PROVE  hands'[q] # {}
    BY DEF NotDeaf
  <2>1. q # r /\ ~bit[q]
    BY <1>4 DEF IInv, TypeOK
  <2> QED BY <2>1 DEF IInv, TypeOK, NotDeaf
<1>7. Obedient'
  <2>1. \A q \in Module : bit[q] => bit'[q]
    BY <1>4 DEF IInv, TypeOK
  <2> QED BY <2>1 DEF IInv, TypeOK, Obedient
<1> QED BY <1>3, <1>5, <1>6, <1>7 DEF IInv

LEMMA FaultyFrameIInv ==
    ASSUME Apart, IInv, NEW r \in Module, FaultyFrame(r)
    PROVE  IInv'
<1> USE DEF FaultyFrame, Goto
<1> DEFINE f == got[r]
<1>1. f \in Frame /\ f \in Held(r)
    BY DEF IInv, TypeOK, Held
<1>2. \A q \in Module : Held(q)' = IF q = r THEN Held(q) \ {f} ELSE Held(q)
    BY DEF Held, IInv, TypeOK, Obedient
<1>3. Lists' /\ MasksTellHolders'
    BY <1>1, <1>2, LetGoIInv
<1>4. bit' = [bit EXCEPT ![r] = @ \/ r \in registered]
    BY <1>1, FbFreeEffect
<1>5. TypeOK'
    BY <1>1, <1>4, FbFreeEffect DEF IInv, TypeOK, Places
<1>6. setting.closes # "reading" /\ r \in registered
    BY DEF IInv, TypeOK, Obedient, Apart
<1>7. bit'[r] /\ \A q \in Module : bit[q] => bit'[q]
    BY <1>4, <1>6 DEF IInv, TypeOK
<1>8. NotDeaf'
  <2> SUFFICES ASSUME NEW q \in registered, pc'[q] \in {"idle", "wait"},
                      plugin[q], ~bit'[q]
               PROVE  hands[q] # {}
    BY DEF NotDeaf
  <2>1. q # r /\ ~bit[q]
    BY <1>7 DEF IInv, TypeOK
  <2> QED BY <2>1 DEF IInv, TypeOK, NotDeaf
<1>9. Obedient'
    BY <1>6, <1>7 DEF IInv, TypeOK, Obedient
<1> QED BY <1>3, <1>5, <1>8, <1>9 DEF IInv

LEMMA NextIInv == Apart /\ IInv /\ [Next]_vars => IInv'
<1> SUFFICES ASSUME Apart, IInv, [Next]_vars PROVE IInv'
    OBVIOUS
<1>1. CASE UNCHANGED vars
  <2> USE <1>1 DEF vars, lists, reader
  <2>1. Lists' /\ MasksTellHolders'
    BY ListsKept, MasksKept DEF Held
  <2>2. TypeOK' /\ NotDeaf' /\ Obedient'
    BY DEF IInv, TypeOK, NotDeaf, Obedient
  <2> QED BY <2>1, <2>2 DEF IInv
<1>2. CASE Malloc \/ Clear
    BY <1>2, MallocIInv, ClearIInv
<1>3. CASE \E f \in Frame : Push(f) \/ DirectFree(f)
    BY <1>3, PushIInv, DirectFreeIInv
<1>4. ASSUME NEW r \in Module, Notify(r) \/ Register(r) \/ Deregister(r)
      PROVE  IInv'
    BY <1>4, BystanderIInv
<1>5. ASSUME NEW r \in Module, FbRead(r) PROVE IInv'
    BY <1>5, FbReadIInv, FaultyFrameIInv
<1>6. ASSUME NEW r \in Module, NEW f \in Frame, Free(r, f) PROVE IInv'
    BY <1>6, FreeIInv
<1> QED BY <1>1, <1>2, <1>3, <1>4, <1>5, <1>6 DEF Next

LEMMA Invariance == Apart => (Spec => []IInv)
<1> SUFFICES ASSUME Apart PROVE Spec => []IInv
    OBVIOUS
<1>1. IInv /\ [Next]_vars => IInv'
    BY NextIInv
<1> QED BY InitIInv, <1>1, PTL DEF Spec

(* Every variable keeps its type, and fb_read goes on with a frame when its *)
(* pop found one.                                                           *)
THEOREM TypeCorrect == Apart => (Spec => []TypeOK)
BY Invariance, PTL DEF IInv

(* No node is lost, and none is on two lists or twice on one.               *)
THEOREM NodesKeptOnce == Apart => (Spec => []OnePlace)
<1>1. IInv => OnePlace
    BY DEF IInv, Lists
<1> QED BY <1>1, Invariance, PTL

(* The masks of a node tell exactly which modules hold its frame.           *)
THEOREM MasksCorrect == Apart => (Spec => []MasksTellHolders)
BY Invariance, PTL DEF IInv

(* Every module reads the frames in the order they were pushed.             *)
THEOREM OrderCorrect == Apart => (Spec => []ReadInOrder)
<1>1. IInv => ReadInOrder
    BY DEF IInv, Lists
<1> QED BY <1>1, Invariance, PTL

(* A module the next push will not wake is awake or will wake itself.       *)
THEOREM WakeupsCorrect == Apart => (Spec => []NotDeaf)
BY Invariance, PTL DEF IInv

(* fb_read returns only frames the module holds and has still to free.      *)
THEOREM ReturnsValidFrames == Apart => (Spec => []ValidFrames)
<1>1. IInv => ValidFrames
  <2> SUFFICES ASSUME IInv, NEW r \in Module, NEW f \in hands[r]
               PROVE  f \in Elements(ready) /\ r \in readMask[f] \ freeMask[f]
    BY DEF ValidFrames
  <2>1. f \in Frame /\ r \in Holders(f)
    BY DEF IInv, TypeOK, Holders, Held
  <2> QED BY <2>1 DEF IInv, MasksTellHolders
<1> QED BY <1>1, Invariance, PTL
-----------------------------------------------------------------------------
(* The refinement of FrameLease.                                            *)

LEMMA LeaseInit == Init => Lease!Init
<1> SUFFICES ASSUME Init PROVE Lease!Init
    OBVIOUS
<1>1. Elements(ready) = {}
    BY DEF Init, Elements
<1> QED BY <1>1 DEF Init, Lease!Init, Place, Holders, Held

(* Of two consecutive states, what FrameLease sees of them is the same.     *)
LEMMA LeaseStutters ==
    ASSUME IInv, UNCHANGED <<ready, made, readMask>>,
           \A r \in Module : Held(r)' = Held(r)
    PROVE  UNCHANGED Lease!vars
<1>1. \A f \in Frame : Place(f)' = Place(f) /\ Holders(f)' = Holders(f)
    BY DEF Place, Holders, Elements
<1> QED BY <1>1 DEF Lease!vars

(* Of two consecutive states, FrameLease sees f move to another place.      *)
LEMMA LeaseMoves ==
    ASSUME IInv, NEW f \in Frame, NEW p,
           UNCHANGED <<pc, got, hands>>,
           \A g \in Frame : Place(g)' = IF g = f THEN p ELSE Place(g)
    PROVE  /\ [g \in Frame |-> Place(g)]'
              = [[g \in Frame |-> Place(g)] EXCEPT ![f] = p]
           /\ UNCHANGED [g \in Frame |-> Holders(g)]
<1>1. \A g \in Frame : Holders(g)' = Holders(g)
    BY DEF Holders, Held
<1> QED BY <1>1

LEMMA MakeStep ==
    ASSUME IInv, NEW f \in Frame, HandOut(f), Holders(f) = {},
           f \notin made,
           Elements(ready') = Elements(ready) \ {f},
           UNCHANGED <<pc, got, hands>>
    PROVE  Lease!Make(f)
<1>1. \A g \in Frame : Place(g)' = IF g = f THEN "made" ELSE Place(g)
    BY DEF Place, HandOut, Elements
<1>2. Place(f) \in {"free", "ready"}
    BY DEF Place
<1>3. readMask' = [readMask EXCEPT ![f] = {}]
    BY DEF HandOut
<1> QED BY <1>1, <1>2, <1>3, LeaseMoves DEF Lease!Make

LEMMA LetGoStep ==
    ASSUME IInv, NEW r \in Module, NEW f \in Frame, f \in Held(r), FbFree(r, f),
           \A q \in Module : Held(q)' = IF q = r THEN Held(q) \ {f} ELSE Held(q),
           made' = made
    PROVE  Lease!GiveBack(f, r)
<1> USE DEF IInv, TypeOK
<1>1. r \in Holders(f) /\ f \in Elements(ready) /\ r \in readMask[f] \ freeMask[f]
    BY DEF MasksTellHolders, Holders
<1>2. \A g \in Frame : Holders(g)' = IF g = f THEN Holders(g) \ {r} ELSE Holders(g)
    BY DEF Holders
<1>3. [g \in Frame |-> Holders(g)]'
      = [[g \in Frame |-> Holders(g)] EXCEPT ![f] = @ \ {r}]
    BY <1>2
<1> DEFINE freed == freeMask[f] \cup {r}
<1>4. CASE readMask[f] = freed /\ registered \subseteq freed
  <2>1. /\ ready' = Without(ready, f)
        /\ readMask' = [readMask EXCEPT ![f] = {}]
    BY <1>1, <1>4 DEF FbFree
  <2>2. Elements(ready') = Elements(ready) \ {f}
    BY <1>1, <2>1, WithoutShorter DEF Lists, OnePlace, NoRepeats, Shorter
  <2>3. \A g \in Frame : Place(g)' = IF g = f THEN "free" ELSE Place(g)
    BY <1>1, <2>2 DEF Place, Elements, Lists, OnePlace
  <2>4. [g \in Frame |-> Place(g)]'
        = [[g \in Frame |-> Place(g)] EXCEPT ![f] = "free"]
    BY <2>3
  <2>5. Holders(f) = {r}
    BY <1>1, <1>4 DEF MasksTellHolders
  <2> QED BY <1>1, <1>3, <2>1, <2>4, <2>5 DEF Lease!GiveBack
<1>5. CASE ~(readMask[f] = freed /\ registered \subseteq freed)
  <2>1. UNCHANGED <<ready, readMask>>
    BY <1>1, <1>5 DEF FbFree
  <2>2. \A g \in Frame : Place(g)' = Place(g)
    BY <2>1 DEF Place, Elements
  <2>3. UNCHANGED <<[g \in Frame |-> Place(g)], readMask>>
    BY <2>1, <2>2
  <2> QED BY <1>1, <1>3, <2>3 DEF Lease!GiveBack
<1> QED BY <1>4, <1>5

LEMMA ProducerLease ==
    ASSUME IInv, Malloc \/ Clear \/ \E f \in Frame : Push(f) \/ DirectFree(f)
    PROVE  Lease!Next \/ UNCHANGED Lease!vars
<1> USE DEF reader
<1>1. ASSUME NEW f \in Frame, TakeFree(f), Malloc PROVE Lease!Make(f)
  <2>1. f \notin Elements(ready) /\ f \notin made
    BY <1>1 DEF TakeFree, Usable, IInv, Lists, OnePlace
  <2>2. Holders(f) = {}
    BY <2>1 DEF IInv, MasksTellHolders
  <2> QED BY <1>1, <2>1, <2>2, MakeStep DEF Malloc, TakeFree
<1>2. ASSUME NEW i \in 1 .. Len(ready), TakeBack(i), Malloc
      PROVE  Lease!Make(ready[i])
  <2>1. ready[i] \in Elements(ready) /\ ready[i] \in Frame
    BY DEF Elements, IInv, TypeOK
  <2>2. Elements(ready') = Elements(ready) \ {ready[i]}
    BY <1>2, UnlinkShorter
       DEF IInv, TypeOK, TakeBack, Lists, OnePlace, NoRepeats, Shorter
  <2>3. Holders(ready[i]) = {} /\ ready[i] \notin made
    BY <1>2, <2>1 DEF TakeBack, Idle, IInv, MasksTellHolders, Lists, OnePlace
  <2> QED BY <1>2, <2>1, <2>2, <2>3, MakeStep DEF Malloc, TakeBack
<1>3. CASE Malloc
  <2>1. CASE UNCHANGED <<free, ready, made, backed, readMask, freeMask, faulty>>
    BY <1>3, <2>1, LeaseStutters DEF Malloc, Held
  <2>2. CASE \E i \in 1 .. Len(ready) : TakeBack(i)
    <3>1. PICK i \in 1 .. Len(ready) : TakeBack(i)
      BY <2>2
    <3>2. ready[i] \in Frame
      BY DEF IInv, TypeOK
    <3> QED BY <1>2, <1>3, <3>1, <3>2 DEF Lease!Next
  <2>3. CASE \E f \in Frame : TakeFree(f)
    BY <1>1, <1>3, <2>3 DEF Lease!Next
  <2> QED BY <1>3, <2>1, <2>2, <2>3 DEF Malloc
<1>4. CASE Clear
    BY <1>4, LeaseStutters DEF Clear, Held
<1>5. ASSUME NEW f \in Frame, Push(f) PROVE Lease!Publish(f)
  <2>1. \A i \in 1 .. Len(ready') :
            ready'[i] = IF i =< Len(ready) THEN ready[i] ELSE f
    BY <1>5 DEF Push, IInv, TypeOK
  <2>2. Elements(ready') = Elements(ready) \cup {f}
    BY <1>5, <2>1 DEF Push, Elements, IInv, TypeOK
  <2>3. f \in made /\ readMask' = readMask
    BY <1>5 DEF Push, IInv, TypeOK, Lists, OnePlace, Clean
  <2>4. \A g \in Frame : Place(g)' = IF g = f THEN "ready" ELSE Place(g)
    BY <1>5, <2>2, <2>3 DEF Push, Place, Elements
  <2>5. Place(f) = "made"
    BY <2>3 DEF Place
  <2> QED BY <1>5, <2>3, <2>4, <2>5, LeaseMoves DEF Push, Lease!Publish
<1>6. ASSUME NEW f \in Frame, DirectFree(f) PROVE Lease!Discard(f)
  <2>1. f \in made /\ readMask' = readMask /\ f \notin Elements(ready)
    BY <1>6 DEF DirectFree, IInv, TypeOK, Lists, OnePlace, Clean
  <2>2. \A g \in Frame : Place(g)' = IF g = f THEN "free" ELSE Place(g)
    BY <1>6, <2>1 DEF DirectFree, Place, Elements
  <2>3. Place(f) = "made"
    BY <2>1 DEF Place
  <2> QED BY <1>6, <2>1, <2>2, <2>3, LeaseMoves DEF DirectFree, Lease!Discard
<1> QED BY <1>3, <1>4, <1>5, <1>6 DEF Lease!Next

LEMMA FbReadLease ==
    ASSUME IInv, NEW r \in Module, FbRead(r)
    PROVE  Lease!Next \/ UNCHANGED Lease!vars
<1> USE DEF lists, Goto, Return
<1>1. CASE BeginRead(r) \/ WaitBits(r) \/ PopNull(r) \/ Unplug(r)
  <2>1. \A q \in Module : Held(q)' = Held(q)
    BY <1>1 DEF IInv, TypeOK, Held, BeginRead, WaitBits, PopNull, Unplug
  <2> QED BY <1>1, <2>1, LeaseStutters DEF BeginRead, WaitBits, PopNull, Unplug
<1>2. CASE GiveUp(r) \/ GoodFrame(r)
  <2>1. CASE GiveUp(r)
    <3>1. got[r] = NoFrame
      BY <2>1 DEF GiveUp, IInv, Obedient
    <3>2. \A q \in Module : Held(q)' = Held(q)
      BY <2>1, <3>1 DEF IInv, TypeOK, Held, GiveUp
    <3> QED BY <2>1, <3>2, LeaseStutters DEF GiveUp
  <2>2. CASE GoodFrame(r)
    <3>1. got[r] \in Frame /\ got[r] # NoFrame
      BY <2>2, FrameAssumption DEF GoodFrame, IInv, TypeOK
    <3>2. \A q \in Module : Held(q)' = Held(q)
      BY <2>2, <3>1 DEF IInv, TypeOK, Held, GoodFrame
    <3> QED BY <2>2, <3>2, LeaseStutters DEF GoodFrame
  <2> QED BY <1>2, <2>1, <2>2
<1>3. CASE Pop(r)
  <2>1. PICK i \in Unread(r) :
            /\ readMask' = [readMask EXCEPT ![ready[i]] = @ \cup {r}]
            /\ got' = [got EXCEPT ![r] = ready[i]]
    BY <1>3 DEF Pop
  <2> DEFINE f == ready[i]
  <2>2. f \in Frame /\ f \in Elements(ready) /\ r \notin readMask[f]
    BY DEF Unread, Elements, IInv, TypeOK
  <2>3. \A q \in Module : Held(q)' = IF q = r THEN Held(q) \cup {f} ELSE Held(q)
    BY <1>3, <2>1 DEF Pop, IInv, TypeOK, Held
  <2>4. \A g \in Frame : Holders(g)' = IF g = f THEN Holders(g) \cup {r}
                                       ELSE Holders(g)
    BY <2>2, <2>3 DEF Holders
  <2>5. [g \in Frame |-> Holders(g)]'
        = [[g \in Frame |-> Holders(g)] EXCEPT ![f] = @ \cup {r}]
    BY <2>4
  <2>6. \A g \in Frame : Place(g)' = Place(g)
    BY <1>3 DEF Pop, Place, Elements
  <2>7. Place(f) = "ready"
    BY <2>2 DEF Place, IInv, Lists, OnePlace
  <2>8. Lease!Lend(f, r)
    BY <2>1, <2>2, <2>5, <2>6, <2>7 DEF Lease!Lend
  <2> QED BY <2>2, <2>8 DEF Lease!Next
<1>4. CASE FaultyFrame(r)
  <2> USE <1>4 DEF FaultyFrame
  <2>1. got[r] \in Frame /\ got[r] \in Held(r)
    BY DEF IInv, TypeOK, Held
  <2>2. \A q \in Module : Held(q)' = IF q = r THEN Held(q) \ {got[r]} ELSE Held(q)
    BY DEF Held, IInv, TypeOK, Obedient
  <2>3. Lease!GiveBack(got[r], r)
    BY <2>1, <2>2, LetGoStep
  <2> QED BY <2>1, <2>3 DEF Lease!Next
<1> QED BY <1>1, <1>2, <1>3, <1>4 DEF FbRead

LEMMA LeaseNext == IInv /\ [Next]_vars => [Lease!Next]_(Lease!vars)
<1> SUFFICES ASSUME IInv, [Next]_vars
             PROVE  Lease!Next \/ UNCHANGED Lease!vars
    OBVIOUS
<1>1. CASE UNCHANGED vars
    BY <1>1, LeaseStutters DEF vars, lists, reader, Held
<1>2. ASSUME NEW r \in Module, Notify(r) \/ Register(r) \/ Deregister(r)
      PROVE  UNCHANGED Lease!vars
    BY <1>2, LeaseStutters DEF Notify, Register, Deregister, lists, reader, Held
<1>3. ASSUME NEW r \in Module, NEW f \in Frame, Free(r, f)
      PROVE  Lease!GiveBack(f, r)
  <2>1. f \in Held(r)
    BY <1>3 DEF Free, Held
  <2>2. \A q \in Module : Held(q)' = IF q = r THEN Held(q) \ {f} ELSE Held(q)
    BY <1>3 DEF Free, Held, IInv, TypeOK, Obedient
  <2> QED BY <1>3, <2>1, <2>2, LetGoStep DEF Free
<1> QED BY <1>1, <1>2, <1>3, ProducerLease, FbReadLease DEF Next, Lease!Next

(* The pool implements FrameLease: the producer writes to a frame only      *)
(* while no module holds it, and no module is handed one twice.             *)
THEOREM PoolLeases == Apart => (Spec => LeaseSpec)
BY Invariance, LeaseInit, LeaseNext, PTL DEF Spec, LeaseSpec, Lease!Spec
=============================================================================
