--------------------------- MODULE RingBufProofs ---------------------------
(***************************************************************************)
(* The safety of RingBuf for every buffer size, every set of lengths and   *)
(* every number of bytes.                                                  *)
(***************************************************************************)
EXTENDS RingBuf, SequenceTheorems, TLAPS

(* A pointer that advances by no more than the buffer stays in the buffer.  *)
LEMMA AdvanceInRange ==
    ASSUME NEW p \in 0..Size, NEW n \in 0..Size
    PROVE  /\ Advance(p, n) \in 0..Size
           /\ \/ Advance(p, n) = p + n
              \/ p + n > Size /\ Advance(p, n) = p + n - Size
BY RingBufAssumption DEF Advance

(* Moving the read pointer by n bytes, or the write pointer, keeps their    *)
(* distance equal to the bytes between them.                                *)
LEMMA ReadKeepsDistance ==
    ASSUME NEW p \in 0..Size, NEW q \in 0..Size, NEW f \in 0..Size, NEW n \in 0..f,
           q = p + f \/ q = p + f - Size
    PROVE  q = Advance(p, n) + (f - n) \/ q = Advance(p, n) + (f - n) - Size
BY RingBufAssumption DEF Advance

LEMMA WriteKeepsDistance ==
    ASSUME NEW p \in 0..Size, NEW q \in 0..Size, NEW f \in 0..Size,
           NEW n \in 0..(Size - f),
           q = p + f \/ q = p + f - Size
    PROVE  Advance(q, n) = p + (f + n) \/ Advance(q, n) = p + (f + n) - Size
BY RingBufAssumption DEF Advance

(* The slots of a transfer that fits are slots of the buffer.               *)
LEMMA SlotInRange ==
    ASSUME NEW p \in 0..Size, NEW i \in 0..(Size - 1)
    PROVE  Slot(p, i) \in Offsets
BY RingBufAssumption DEF Slot, Offsets

(* What the steps of rb_read compute fits in the buffer.                    *)
LEMMA ReadSizeInRange ==
    ASSUME TypeOK, rlen > 0
    PROVE  /\ ReadSize \in Nat /\ ReadSize <= fill_cnt /\ ReadSize <= rlen
           /\ ReadSize = 0 => NothingToRead
BY RingBufAssumption DEF TypeOK, ReadSize, NothingToRead

LEMMA InitIInv == Init => IInv
<1> SUFFICES ASSUME Init PROVE IInv
  OBVIOUS
<1> USE RingBufAssumption DEF Init, ReaderPlaces, WriterPlaces, ControlPlaces, Holding
<1>1. TypeOK
  <2>1. mem \in [Offsets -> Nat] /\ got \in Seq(Nat)
    OBVIOUS
  <2>2. /\ is_done_write \in BOOLEAN /\ unblock_reader_flag \in BOOLEAN
        /\ abort_read \in BOOLEAN /\ abort_write \in BOOLEAN
    OBVIOUS
  <2> QED
    BY <2>1, <2>2 DEF TypeOK, RB_OK
<1>2. LockInv /\ SizesInv /\ SignalInv
  BY DEF LockInv, SizesInv, SignalInv
<1>3. PointersTrackFill
  BY DEF PointersTrackFill, Stored
<1> QED
  BY <1>1, <1>2, <1>3 DEF IInv

LEMMA NextIInv == IInv /\ [Next]_vars => IInv'
<1> SUFFICES ASSUME IInv, [Next]_vars PROVE IInv'
  OBVIOUS
<1> USE RingBufAssumption DEF IInv, store, flags, tokens, reader, writer, vars,
       Holding, ReaderPlaces, WriterPlaces, ControlPlaces, NothingToRead,
       ReaderSignalDue, WriterSignalDue
<1>1. ASSUME NEW len \in ReadLens, RdCall(len) PROVE IInv'
  BY <1>1
     DEF RdCall, RB_OK, TypeOK, LockInv, SizesInv, PointersTrackFill, Stored, SignalInv
<1>2. CASE RdLock
  <2> USE <1>2 DEF RdLock
  <2>1. TypeOK'
    BY ReadSizeInRange DEF TypeOK, SizesInv
  <2>2. LockInv'
    BY ReadSizeInRange DEF LockInv
  <2>3. SizesInv'
    BY ReadSizeInRange DEF TypeOK, LockInv, SizesInv
  <2>4. PointersTrackFill'
    BY ReadSizeInRange DEF TypeOK, LockInv, SizesInv, PointersTrackFill, Stored
  <2>5. SignalInv'
    BY ReadSizeInRange DEF TypeOK, LockInv, SizesInv, SignalInv
  <2> QED
    BY <2>1, <2>2, <2>3, <2>4, <2>5
<1>3. CASE RdEmpty
  BY <1>3
     DEF RdEmpty, RB_DONE, RB_ABORT, RB_TIMEOUT, TypeOK, LockInv, SizesInv,
            PointersTrackFill, Stored, SignalInv
<1>4. CASE RdGive
  BY <1>4
     DEF RdGive, TypeOK, LockInv, SizesInv, PointersTrackFill, Stored, SignalInv
<1>5. CASE RdWake
  BY <1>5
     DEF RdWake, TypeOK, LockInv, SizesInv, PointersTrackFill, Stored, SignalInv
<1>6. CASE RdTimeout
  BY <1>6
     DEF RdTimeout, RB_TIMEOUT, TypeOK, LockInv, SizesInv, PointersTrackFill,
            Stored, SignalInv
<1>7. CASE RdCopy
  <2> USE <1>7 DEF RdCopy
  <2>1. rn \in 0..Size /\ rn > 0 /\ rn <= fill_cnt /\ wpc # "count"
    BY DEF TypeOK, LockInv, SizesInv
  <2>2. /\ p_r' \in 0..Size
        /\ \/ p_r' = p_r + rn
           \/ p_r + rn > Size /\ p_r' = p_r + rn - Size
    BY <2>1, AdvanceInRange DEF TypeOK
  <2>3. TypeOK'
    <3>1. got' \in Seq(Nat)
      <4>1. \A i \in 1..rn : Slot(p_r, i - 1) \in Offsets
        BY <2>1, SlotInRange DEF TypeOK
      <4>2. \A i \in 1..rn : mem[Slot(p_r, i - 1)] \in Nat
        BY <4>1 DEF TypeOK
      <4>3. rn \in Nat
        BY DEF TypeOK
      <4> QED
        BY <4>2, <4>3
    <3> QED
      BY <2>2, <3>1 DEF TypeOK
  <2>4. LockInv'
    BY DEF LockInv
  <2>5. SizesInv'
    BY DEF TypeOK, SizesInv
  <2>6. PointersTrackFill'
    <3>1. Stored = fill_cnt /\ Stored' = fill_cnt - rn
      BY <2>1 DEF Stored, TypeOK
    <3>2. p_w' = p_w /\ p_w \in 0..Size /\ p_r \in 0..Size /\ fill_cnt \in 0..Size
      BY DEF TypeOK
    <3>3. p_w = p_r + fill_cnt \/ p_w = p_r + fill_cnt - Size
      BY <3>1 DEF PointersTrackFill
    <3>4. fill_cnt - rn \in 0..Size
      BY <2>1, <3>2
    <3>5. rn \in 0..fill_cnt
      BY <2>1
    <3>6. \/ p_w = Advance(p_r, rn) + (fill_cnt - rn)
          \/ p_w = Advance(p_r, rn) + (fill_cnt - rn) - Size
      <4> HIDE <1>7 DEF RdCopy
      <4> QED
        BY <3>2, <3>3, <3>5, ReadKeepsDistance
    <3> QED
      BY <3>1, <3>2, <3>4, <3>6 DEF PointersTrackFill
  <2>7. SignalInv'
    BY DEF TypeOK, SignalInv
  <2> QED
    BY <2>3, <2>4, <2>5, <2>6, <2>7
<1>8. CASE RdCount
  BY <1>8
     DEF RdCount, MinusU, TypeOK, LockInv, SizesInv, PointersTrackFill, Stored, SignalInv
<1>9. CASE RdExit
  <2> USE <1>9 DEF RdExit, Result
  <2>1. TypeOK'
    <3>1. rret' \in Int /\ can_write' \in {0, 1}
      BY DEF TypeOK
    <3>2. unblock_reader_flag' \in BOOLEAN
      OBVIOUS
    <3> QED
      BY <3>1, <3>2 DEF TypeOK
  <2>2. LockInv'
    BY DEF LockInv
  <2>3. SizesInv'
    BY DEF TypeOK, SizesInv
  <2>4. PointersTrackFill'
    BY DEF PointersTrackFill, Stored
  <2>5. SignalInv'
    BY DEF TypeOK, SignalInv
  <2> QED
    BY <2>1, <2>2, <2>3, <2>4, <2>5
<1>10. ASSUME NEW len \in WriteLens, WrCall(len) PROVE IInv'
  BY <1>10
     DEF WrCall, RB_OK, TypeOK, LockInv, SizesInv, PointersTrackFill, Stored, SignalInv
<1>11. CASE WrLock
  <2> USE <1>11 DEF WrLock, Room, Lesser, MinusU
  <2>1. /\ wn' \in Nat /\ wn' <= Size - fill_cnt /\ wn' <= wlen
        /\ wn' = 0 => fill_cnt = Size
    BY DEF TypeOK, SizesInv, Lesser, MinusU
  <2>2. TypeOK'
    BY <2>1 DEF TypeOK
  <2>3. LockInv'
    BY DEF LockInv
  <2>4. SizesInv'
    BY <2>1 DEF TypeOK, LockInv, SizesInv
  <2>5. PointersTrackFill'
    BY DEF PointersTrackFill, Stored
  <2>6. SignalInv'
    BY <2>1 DEF TypeOK, SignalInv
  <2> QED
    BY <2>2, <2>3, <2>4, <2>5, <2>6
<1>12. CASE WrFull
  BY <1>12
     DEF WrFull, RB_DONE, RB_ABORT, TypeOK, LockInv, SizesInv,
            PointersTrackFill, Stored, SignalInv
<1>13. CASE WrGive
  BY <1>13
     DEF WrGive, TypeOK, LockInv, SizesInv, PointersTrackFill, Stored, SignalInv
<1>14. CASE WrWake
  BY <1>14
     DEF WrWake, TypeOK, LockInv, SizesInv, PointersTrackFill, Stored, SignalInv
<1>15. CASE WrTimeout
  BY <1>15
     DEF WrTimeout, RB_TIMEOUT, TypeOK, LockInv, SizesInv, PointersTrackFill,
            Stored, SignalInv
<1>16. CASE WrCopy
  <2> USE <1>16 DEF WrCopy, Offsets
  <2>1. wn \in 0..Size /\ wn > 0 /\ wn <= Size - fill_cnt /\ rpc # "count"
    BY DEF TypeOK, LockInv, SizesInv
  <2>2. /\ p_w' \in 0..Size
        /\ \/ p_w' = p_w + wn
           \/ p_w + wn > Size /\ p_w' = p_w + wn - Size
    BY <2>1, AdvanceInRange DEF TypeOK
  <2>3. TypeOK'
    <3>1. mem' \in [Offsets -> Nat]
      <4>1. \A j \in Offsets : sent + (IF j >= p_w THEN j - p_w ELSE j - p_w + Size) \in Nat
        BY DEF TypeOK, Offsets
      <4>2. \A j \in Offsets : mem[j] \in Nat
        BY DEF TypeOK
      <4> QED
        BY <4>1, <4>2
    <3>2. sent' \in Nat
      BY DEF TypeOK
    <3> QED
      BY <2>2, <3>1, <3>2 DEF TypeOK
  <2>4. LockInv'
    BY DEF LockInv
  <2>5. SizesInv'
    BY DEF TypeOK, SizesInv
  <2>6. PointersTrackFill'
    <3>1. Stored = fill_cnt /\ Stored' = fill_cnt + wn
      BY <2>1 DEF Stored, TypeOK
    <3>2. p_r' = p_r /\ p_r \in 0..Size /\ p_w \in 0..Size /\ fill_cnt \in 0..Size
      BY DEF TypeOK
    <3>3. p_w = p_r + fill_cnt \/ p_w = p_r + fill_cnt - Size
      BY <3>1 DEF PointersTrackFill
    <3>4. fill_cnt + wn \in 0..Size
      BY <2>1, <3>2
    <3>5. wn \in 0..(Size - fill_cnt)
      BY <2>1
    <3>6. \/ Advance(p_w, wn) = p_r + (fill_cnt + wn)
          \/ Advance(p_w, wn) = p_r + (fill_cnt + wn) - Size
      <4> HIDE <1>16 DEF WrCopy
      <4> QED
        BY <3>2, <3>3, <3>5, WriteKeepsDistance
    <3> QED
      BY <3>1, <3>2, <3>4, <3>6 DEF PointersTrackFill
  <2>7. SignalInv'
    BY DEF TypeOK, SignalInv
  <2> QED
    BY <2>3, <2>4, <2>5, <2>6, <2>7
<1>17. CASE WrCount
  BY <1>17
     DEF WrCount, TypeOK, LockInv, SizesInv, PointersTrackFill, Stored, SignalInv
<1>18. CASE WrExit
  BY <1>18
     DEF WrExit, Result, TypeOK, LockInv, SizesInv, PointersTrackFill, Stored, SignalInv
<1>19. CASE AbortSetRead
  BY <1>19
     DEF AbortSetRead, TypeOK, LockInv, SizesInv, PointersTrackFill, Stored, SignalInv
<1>20. CASE AbortGiveRead
  BY <1>20
     DEF AbortGiveRead, TypeOK, LockInv, SizesInv, PointersTrackFill, Stored, SignalInv
<1>21. CASE AbortSetWrite
  BY <1>21
     DEF AbortSetWrite, TypeOK, LockInv, SizesInv, PointersTrackFill, Stored, SignalInv
<1>22. CASE AbortGiveWrite
  BY <1>22
     DEF AbortGiveWrite, TypeOK, LockInv, SizesInv, PointersTrackFill, Stored, SignalInv
<1>23. CASE DoneSet
  BY <1>23
     DEF DoneSet, TypeOK, LockInv, SizesInv, PointersTrackFill, Stored, SignalInv
<1>24. CASE UnblockSet
  BY <1>24
     DEF UnblockSet, TypeOK, LockInv, SizesInv, PointersTrackFill, Stored, SignalInv
<1>25. CASE GiveRead
  BY <1>25
     DEF GiveRead, TypeOK, LockInv, SizesInv, PointersTrackFill, Stored, SignalInv
<1>26. CASE QuietReset
  <2> USE <1>26 DEF QuietReset, Reset
  <2>1. TypeOK'
    <3>1. /\ is_done_write' \in BOOLEAN /\ unblock_reader_flag' \in BOOLEAN
          /\ abort_read' \in BOOLEAN /\ abort_write' \in BOOLEAN
      OBVIOUS
    <3>2. p_r' \in 0..Size /\ p_w' \in 0..Size /\ fill_cnt' \in 0..Size
      OBVIOUS
    <3> QED
      BY <3>1, <3>2 DEF TypeOK
  <2>2. LockInv'
    BY DEF LockInv
  <2>3. SizesInv'
    BY DEF TypeOK, LockInv, SizesInv
  <2>4. PointersTrackFill'
    <3>1. rpc' # "count" /\ wpc' # "count"
      BY DEF LockInv
    <3>2. p_r' = 0 /\ p_w' = 0 /\ fill_cnt' = 0
      OBVIOUS
    <3>3. Stored' = 0
      BY <3>1, <3>2 DEF Stored
    <3> QED
      BY <3>2, <3>3 DEF PointersTrackFill
  <2>5. SignalInv'
    BY DEF TypeOK, LockInv, SizesInv, SignalInv
  <2> QED
    BY <2>1, <2>2, <2>3, <2>4, <2>5
<1>27. CASE UNCHANGED vars
  BY <1>27
     DEF TypeOK, LockInv, SizesInv, PointersTrackFill, Stored, SignalInv
<1> QED
  BY <1>1, <1>2, <1>3, <1>4, <1>5, <1>6, <1>7, <1>8, <1>9, <1>10, <1>11,
     <1>12, <1>13, <1>14, <1>15, <1>16, <1>17, <1>18, <1>19, <1>20, <1>21,
     <1>22, <1>23, <1>24, <1>25, <1>26, <1>27
     DEF Next, Read, Write, Control

LEMMA Invariance == Spec => []IInv
BY InitIInv, NextIInv, PTL DEF Spec

(* Every variable keeps its type: neither the pointers nor fill_cnt leave   *)
(* the buffer, and fill_cnt never wraps around its 32 bits.                 *)
THEOREM TypeCorrect == Spec => []TypeOK
BY Invariance, PTL DEF IInv

(* The write pointer stays the stored bytes ahead of the read pointer,      *)
(* although rb_read and rb_write move pointers and count in separate steps. *)
THEOREM PointersCorrect == Spec => []PointersTrackFill
BY Invariance, PTL DEF IInv

(* No wakeup is lost: a call waits without a token only while it has        *)
(* nothing to return for, or while its signal is on its way.                *)
THEOREM WakeupsCorrect == Spec => []NoLostWakeup
<1>1. IInv => NoLostWakeup
  BY DEF IInv, SignalInv, NoLostWakeup, ReaderBlocked, WriterBlocked
<1> QED
  BY <1>1, Invariance, PTL

(* In a buffer of at least one word, rb_read and rb_write never wait for    *)
(* each other, whatever lengths they are called with.                       *)
THEOREM CallsNeverBlockEachOther ==
    ASSUME Size >= 4
    PROVE  Spec => []NeverBothBlocked
<1>1. IInv => NeverBothBlocked
  BY RingBufAssumption
     DEF IInv, TypeOK, SignalInv, NeverBothBlocked, ReaderBlocked, WriterBlocked,
         NothingToRead, ReaderSignalDue, WriterSignalDue
<1> QED
  BY <1>1, Invariance, PTL

(* rb_read answers RB_DONE with less than a word left unread.               *)
THEOREM DoneCorrect == Spec => DoneLeavesLessThanAWord
<1>1. IInv /\ [Next]_vars => [rpc = "empty" /\ rret' = RB_DONE => fill_cnt < 4]_vars
  BY DEF IInv, SizesInv, NothingToRead
<1> QED
  BY <1>1, Invariance, PTL DEF Spec, DoneLeavesLessThanAWord
-----------------------------------------------------------------------------
(* The refinement of ByteFifo.                                              *)

(* The stored bytes are the last ones sent, in order, from p_r on.          *)
BytesInv == \A i \in 0..(Stored - 1) : mem[Slot(p_r, i)] = sent - Stored + i

(* Reading on from a pointer that has advanced.                             *)
LEMMA SlotAdvanced ==
    ASSUME NEW p \in 0..Size, NEW n \in 0..Size, NEW i \in Nat, n + i < Size
    PROVE  Slot(Advance(p, n), i) = Slot(p, n + i)
BY RingBufAssumption DEF Slot, Advance

(* The write pointer q is f bytes ahead of p: slots beyond f are counted    *)
(* from q as well, and slots before f are none of the next n of q.          *)
LEMMA SlotFromWriter ==
    ASSUME NEW p \in 0..Size, NEW q \in 0..Size, NEW f \in 0..Size,
           q = p + f \/ q = p + f - Size, NEW i \in Nat, f <= i, i < Size
    PROVE  Slot(p, i) = Slot(q, i - f)
BY RingBufAssumption DEF Slot

LEMMA SlotsApart ==
    ASSUME NEW p \in 0..Size, NEW i \in 0..(Size - 1), NEW j \in 0..(Size - 1),
           Slot(p, i) = Slot(p, j)
    PROVE  i = j
BY RingBufAssumption DEF Slot

(* What rb_write leaves in the slots it has written and in the others.      *)
LEMMA Written ==
    ASSUME TypeOK, wn \in 0..Size, WrCopy
    PROVE  /\ \A i \in 0..(wn - 1) : mem'[Slot(p_w, i)] = sent + i
           /\ \A j \in Offsets : (\A i \in 0..(wn - 1) : j # Slot(p_w, i)) => mem'[j] = mem[j]
<1>1. ASSUME NEW i \in 0..(wn - 1) PROVE mem'[Slot(p_w, i)] = sent + i
  <2> DEFINE j == Slot(p_w, i)
  <2>1. j \in Offsets
    BY SlotInRange, RingBufAssumption DEF TypeOK
  <2>2. mem'[j] = sent + (IF j >= p_w THEN j - p_w ELSE j - p_w + Size)
    <3> HIDE DEF j
    <3> QED
      BY <2>1 DEF WrCopy, j
  <2>3. (IF j >= p_w THEN j - p_w ELSE j - p_w + Size) = i
    BY RingBufAssumption DEF Slot, TypeOK
  <2> QED
    BY <2>2, <2>3
<1>2. \A j \in Offsets : (\A i \in 0..(wn - 1) : j # Slot(p_w, i)) => mem'[j] = mem[j]
  BY DEF WrCopy
<1> QED
  BY <1>1, <1>2

(* Steps that move no byte.                                                 *)
LEMMA NothingStored ==
    ASSUME UNCHANGED store, Stored' = Stored
    PROVE  /\ BytesInv => BytesInv'
           /\ UNCHANGED Fifo!vars
BY DEF store, BytesInv, Fifo!vars

LEMMA StepOfFifo ==
    ASSUME IInv, BytesInv, [Next]_vars
    PROVE  BytesInv' /\ [Fifo!Next]_(Fifo!vars)
<1> DEFINE f == Stored
           Q == [i \in 1..Stored |-> mem[Slot(p_r, i - 1)]]
<1>1. f \in 0..Size /\ (p_w = p_r + f \/ p_w = p_r + f - Size)
      /\ p_r \in 0..Size /\ p_w \in 0..Size /\ sent \in Nat /\ Size \in Nat
  BY RingBufAssumption DEF IInv, PointersTrackFill, TypeOK
<1>2. Q = [i \in 1..f |-> sent - f + i - 1]
  <2>1. \A i \in 1..f : mem[Slot(p_r, i - 1)] = sent - f + (i - 1)
    BY <1>1 DEF BytesInv
  <2>2. \A i \in 1..f : sent - f + (i - 1) = sent - f + i - 1
    BY <1>1
  <2> QED
    BY <2>1, <2>2
<1>3. Q \in Seq(Int) /\ Len(Q) = f
  BY <1>1, <1>2
<1>4. CASE RdCopy
  <2>1. rn \in 1..f /\ f = fill_cnt /\ Stored' = f - rn /\ p_r' = Advance(p_r, rn)
        /\ mem' = mem /\ sent' = sent
        /\ got' = [i \in 1..rn |-> mem[Slot(p_r, i - 1)]]
    <3>1. rn \in Nat /\ fill_cnt \in 0..Size /\ rn > 0 /\ rn <= fill_cnt
      BY <1>4 DEF RdCopy, IInv, TypeOK, SizesInv
    <3>2. wpc # "count"
      BY <1>4 DEF RdCopy, IInv, LockInv, Holding
    <3>3. /\ rpc = "copy" /\ rpc' = "count" /\ wpc' = wpc
          /\ rn' = rn /\ fill_cnt' = fill_cnt
          /\ p_r' = Advance(p_r, rn) /\ mem' = mem /\ sent' = sent
          /\ got' = [i \in 1..rn |-> mem[Slot(p_r, i - 1)]]
      BY <1>4 DEF RdCopy, writer
    <3>4. f = fill_cnt /\ Stored' = fill_cnt - rn
      BY <1>1, <3>1, <3>2, <3>3 DEF Stored
    <3> QED
      BY <1>1, <3>1, <3>3, <3>4
  <2>2. \A i \in 0..(f - rn - 1) : Slot(p_r', i) = Slot(p_r, rn + i)
    BY <1>1, <2>1, SlotAdvanced
  <2>3. BytesInv'
    <3>1. ASSUME NEW i \in 0..(f - rn - 1) PROVE mem[Slot(p_r', i)] = sent - (f - rn) + i
      <4>1. rn + i \in 0..(f - 1)
        BY <1>1, <2>1
      <4>2. mem[Slot(p_r, rn + i)] = sent - f + (rn + i)
        BY <4>1 DEF BytesInv
      <4> QED
        BY <1>1, <2>1, <2>2, <4>2
    <3> QED
      BY <2>1, <3>1 DEF BytesInv
  <2>4. got' = SubSeq(Q, 1, rn)
    BY <1>1, <1>3, <2>1
  <2>5. [i \in 1..Stored' |-> mem'[Slot(p_r', i - 1)]] = SubSeq(Q, rn + 1, f)
    <3>1. \A i \in 1..(f - rn) : mem[Slot(p_r', i - 1)] = Q[i + rn]
      <4> SUFFICES ASSUME NEW i \in 1..(f - rn) PROVE mem[Slot(p_r', i - 1)] = Q[i + rn]
        OBVIOUS
      <4>1. i - 1 \in 0..(f - rn - 1) /\ i + rn \in 1..f /\ rn + (i - 1) = (i + rn) - 1
        BY <1>1, <2>1
      <4> QED
        BY <2>2, <4>1
    <3> DEFINE rest == [i \in 1..(f - rn) |-> mem[Slot(p_r', i - 1)]]
               tail == SubSeq(Q, rn + 1, f)
    <3>2. \A i \in 1..(f - rn) : rest[i] = Q[i + rn]
      BY <3>1
    <3>3. \A i \in 1..(f - rn) : Q[i + rn] \in Int
      <4>1. \A i \in 1..(f - rn) : i + rn \in 1..Len(Q)
        BY <1>1, <1>3, <2>1
      <4> HIDE DEF Q
      <4> QED
        BY <1>3, <4>1
    <3>4. f - rn \in Nat
      BY <1>1, <2>1
    <3>5. rest \in Seq(Int) /\ Len(rest) = f - rn
      <4>1. \A i \in 1..(f - rn) : mem[Slot(p_r', i - 1)] \in Int
        BY <3>1, <3>3
      <4> HIDE DEF Q, f
      <4> QED
        BY <3>4, <4>1
    <3> HIDE DEF Q, f
    <3>6. tail \in Seq(Int) /\ Len(tail) = f - rn /\ \A i \in 1..(f - rn) : tail[i] = Q[rn + i]
      <4>1. \A i \in (rn + 1) .. f : Q[i] \in Int
        <5>1. \A i \in (rn + 1) .. f : i \in 1 .. Len(Q)
          BY <1>1, <1>3, <2>1
        <5> QED
          BY <1>3, <5>1
      <4>2. rn + 1 \in Int /\ f \in Int /\ rn + 1 <= f + 1
        BY <1>1, <2>1
      <4>3. /\ tail \in Seq(Int)
            /\ Len(tail) = IF rn + 1 <= f THEN f - (rn + 1) + 1 ELSE 0
            /\ \A i \in 1 .. f - (rn + 1) + 1 : tail[i] = Q[(rn + 1) + i - 1]
        BY <4>1, <4>2, SubSeqProperties
      <4>4. f - (rn + 1) + 1 = f - rn /\ \A i \in 1..(f - rn) : (rn + 1) + i - 1 = rn + i
        BY <1>1, <2>1
      <4>5. (IF rn + 1 <= f THEN f - (rn + 1) + 1 ELSE 0) = f - rn
        BY <1>1, <2>1
      <4> QED
        BY <4>3, <4>4, <4>5
    <3>7. \A i \in 1..(f - rn) : Q[rn + i] = Q[i + rn]
      BY <1>1, <2>1
    <3> HIDE DEF rest, tail
    <3>8. rest = tail
      BY <3>2, <3>5, <3>6, <3>7, SeqEqual
    <3> QED
      BY <2>1, <3>8 DEF rest, tail, f
  <2>6. Fifo!Take(rn)
    BY <1>3, <2>1, <2>4, <2>5 DEF Fifo!Take
  <2> QED
    BY <1>3, <2>1, <2>3, <2>6 DEF Fifo!Next
<1>5. CASE WrCopy
  <2>1. wn \in 1..(Size - f) /\ f = fill_cnt /\ Stored' = f + wn /\ p_r' = p_r
        /\ sent' = sent + wn /\ got' = got
    <3>1. wn \in Nat /\ fill_cnt \in 0..Size /\ wn > 0 /\ wn <= Size - fill_cnt
      BY <1>5 DEF WrCopy, IInv, TypeOK, SizesInv
    <3>2. rpc # "count"
      BY <1>5 DEF WrCopy, IInv, LockInv, Holding
    <3>3. /\ wpc = "copy" /\ wpc' = "count" /\ rpc' = rpc
          /\ wn' = wn /\ fill_cnt' = fill_cnt
          /\ p_r' = p_r /\ sent' = sent + wn /\ got' = got
      BY <1>5 DEF WrCopy, reader
    <3>4. f = fill_cnt /\ Stored' = fill_cnt + wn
      BY <1>1, <3>1, <3>2, <3>3 DEF Stored
    <3> QED
      BY <1>1, <3>1, <3>3, <3>4
  <2>2. ASSUME NEW i \in 0..(f + wn - 1) PROVE mem'[Slot(p_r, i)] = sent - f + i
    <3>1. i \in 0..(Size - 1) /\ Slot(p_r, i) \in Offsets
      BY <1>1, <2>1, SlotInRange
    <3>2. CASE f <= i
      <4>1. Slot(p_r, i) = Slot(p_w, i - f) /\ i - f \in 0..(wn - 1)
        BY <1>1, <2>1, <3>1, <3>2, SlotFromWriter
      <4> QED
        BY <1>1, <1>5, <2>1, <4>1, Written DEF IInv
    <3>3. CASE i < f
      <4>1. ASSUME NEW k \in 0..(wn - 1) PROVE Slot(p_r, i) # Slot(p_w, k)
        <5>1. f + k \in 0..(Size - 1) /\ f + k # i /\ (f + k) - f = k
          BY <1>1, <2>1, <3>3
        <5>2. Slot(p_w, k) = Slot(p_r, f + k)
          BY <1>1, <2>1, <5>1, SlotFromWriter
        <5> QED
          BY <1>1, <3>1, <5>1, <5>2, SlotsApart
      <4>2. mem'[Slot(p_r, i)] = mem[Slot(p_r, i)]
        BY <1>1, <1>5, <2>1, <3>1, <4>1, Written DEF IInv
      <4> QED
        BY <1>1, <3>1, <3>3, <4>2 DEF BytesInv
    <3> QED
      BY <1>1, <3>1, <3>2, <3>3
  <2>3. BytesInv'
    BY <1>1, <2>1, <2>2 DEF BytesInv
  <2>4. [i \in 1..Stored' |-> mem'[Slot(p_r', i - 1)]]
            = Q \o [i \in 1..wn |-> sent + i - 1]
    <3> DEFINE new == [i \in 1..wn |-> sent + i - 1]
               all == [i \in 1..(f + wn) |-> sent - f + i - 1]
    <3>1. [i \in 1..Stored' |-> mem'[Slot(p_r', i - 1)]] = all
      <4>1. \A i \in 1..(f + wn) : mem'[Slot(p_r, i - 1)] = sent - f + i - 1
        <5> SUFFICES ASSUME NEW i \in 1..(f + wn)
                     PROVE  mem'[Slot(p_r, i - 1)] = sent - f + i - 1
          OBVIOUS
        <5>1. i - 1 \in 0..(f + wn - 1) /\ sent - f + (i - 1) = sent - f + i - 1
          BY <1>1, <2>1
        <5> QED
          BY <2>2, <5>1
      <4> QED
        BY <2>1, <4>1
    <3>2. new \in Seq(Int) /\ Len(new) = wn /\ \A i \in 1..wn : new[i] = sent + i - 1
      BY <1>1, <2>1
    <3>3. \A i \in 1..f : Q[i] = sent - f + i - 1
      BY <1>2
    <3>4. all \in Seq(Int) /\ Len(all) = f + wn
          /\ \A i \in 1..(f + wn) : all[i] = sent - f + i - 1
      BY <1>1, <2>1
    <3> HIDE DEF new, all, Q, f
    <3>5. /\ Q \o new \in Seq(Int) /\ Len(Q \o new) = f + wn
          /\ \A i \in 1..(f + wn) : (Q \o new)[i] = IF i <= f THEN Q[i] ELSE new[i - f]
      BY <1>3, <3>2, ConcatProperties
    <3>6. \A i \in 1..(f + wn) : (Q \o new)[i] = sent - f + i - 1
      <4> SUFFICES ASSUME NEW i \in 1..(f + wn) PROVE (Q \o new)[i] = sent - f + i - 1
        OBVIOUS
      <4>1. CASE i <= f
        BY <1>1, <2>1, <3>3, <3>5, <4>1
      <4>2. CASE ~(i <= f)
        <5>1. i - f \in 1..wn /\ sent + (i - f) - 1 = sent - f + i - 1
          BY <1>1, <2>1, <4>2
        <5> QED
          BY <3>2, <3>5, <4>2, <5>1
      <4> QED
        BY <4>1, <4>2
    <3>7. Q \o new = all
      BY <3>4, <3>5, <3>6, SeqEqual
    <3> QED
      BY <3>1, <3>7 DEF new
  <2>5. Fifo!Put(wn)
    <3>1. Len(Q) + wn <= Size
      BY <1>1, <1>3, <2>1
    <3> HIDE DEF f
    <3> QED
      BY <2>1, <2>4, <3>1 DEF Fifo!Put
  <2> QED
    BY <1>1, <2>1, <2>3, <2>5 DEF Fifo!Next
<1>6. CASE QuietReset
  <2>1. Stored' = 0 /\ sent' = sent /\ got' = got
    BY <1>6 DEF QuietReset, Reset, IInv, LockInv, Holding, Stored, reader, writer
  <2>2. BytesInv'
    BY <2>1 DEF BytesInv
  <2>3. [i \in 1..Stored' |-> mem'[Slot(p_r', i - 1)]] = <<>>
    BY <2>1
  <2> QED
    BY <2>1, <2>2, <2>3 DEF Fifo!Next, Fifo!Clear
<1>7. ASSUME RdCount \/ WrCount PROVE UNCHANGED store /\ Stored' = Stored
  <2>1. fill_cnt \in 0..Size /\ rn \in Nat /\ wn \in Nat /\ Size \in Nat
    BY RingBufAssumption DEF IInv, TypeOK
  <2>2. CASE RdCount
    <3>1. rn <= fill_cnt /\ wpc # "count"
      BY <2>2 DEF RdCount, IInv, SizesInv, LockInv, Holding
    <3>2. /\ rpc = "count" /\ rpc' # "count" /\ wpc' = wpc /\ UNCHANGED store
          /\ fill_cnt' = MinusU(fill_cnt, rn)
      BY <2>2 DEF RdCount, writer
    <3> QED
      BY <2>1, <3>1, <3>2 DEF Stored, MinusU
  <2>3. CASE WrCount
    <3>1. rpc # "count"
      BY <2>3 DEF WrCount, IInv, LockInv, Holding
    <3>2. /\ wpc = "count" /\ wpc' # "count" /\ rpc' = rpc /\ UNCHANGED store
          /\ fill_cnt' = fill_cnt + wn
      BY <2>3 DEF WrCount, reader
    <3> QED
      BY <2>1, <3>1, <3>2 DEF Stored
  <2> QED
    BY <1>7, <2>2, <2>3
<1>8. ASSUME \/ RdLock \/ RdEmpty \/ RdGive \/ RdWake \/ RdTimeout \/ RdExit
             \/ WrLock \/ WrFull \/ WrGive \/ WrWake \/ WrTimeout \/ WrExit
             \/ Control \/ UNCHANGED vars
             \/ \E len \in ReadLens : RdCall(len)
             \/ \E len \in WriteLens : WrCall(len)
      PROVE  UNCHANGED store /\ Stored' = Stored
  BY <1>8
  DEF RdLock, RdEmpty, RdGive, RdWake, RdTimeout, RdExit, WrLock, WrFull, WrGive,
      WrWake, WrTimeout, WrExit, Control, AbortSetRead, AbortGiveRead, AbortSetWrite,
      AbortGiveWrite, DoneSet, UnblockSet, GiveRead, RdCall, WrCall, vars, Stored,
      reader, writer
<1> HIDE DEF f, Q
<1>9. CASE RdCopy \/ WrCopy \/ QuietReset
  BY <1>4, <1>5, <1>6, <1>9
<1>10. CASE ~(RdCopy \/ WrCopy \/ QuietReset)
  <2>1. CASE RdCount \/ WrCount
    BY <1>7, <2>1, NothingStored
  <2>2. CASE ~(RdCount \/ WrCount)
    <3>1. \/ RdLock \/ RdEmpty \/ RdGive \/ RdWake \/ RdTimeout \/ RdExit
          \/ WrLock \/ WrFull \/ WrGive \/ WrWake \/ WrTimeout \/ WrExit
          \/ Control \/ UNCHANGED vars
          \/ \E len \in ReadLens : RdCall(len)
          \/ \E len \in WriteLens : WrCall(len)
      BY <1>10, <2>2, Zenon DEF Next, Read, Write
    <3> QED
      BY <1>8, <3>1, NothingStored
  <2> QED
    BY <2>1, <2>2
<1> QED
  BY <1>9, <1>10

(* The two calls implement a bounded first-in first-out queue of bytes:     *)
(* none is lost, repeated or reordered, however calls, aborts and resets    *)
(* interleave.                                                              *)
THEOREM BufferIsFifo == Spec => FifoSpec
<1>1. Init => BytesInv /\ Fifo!Init
  <2> SUFFICES ASSUME Init PROVE BytesInv /\ Fifo!Init
    OBVIOUS
  <2>1. Stored = 0 /\ sent = 0 /\ got = <<>>
    BY DEF Init, Stored
  <2>2. [i \in 1..Stored |-> mem[Slot(p_r, i - 1)]] = <<>>
    BY <2>1
  <2> QED
    BY <2>1, <2>2 DEF BytesInv, Fifo!Init
<1>2. IInv /\ BytesInv /\ [Next]_vars => BytesInv' /\ [Fifo!Next]_(Fifo!vars)
  BY StepOfFifo
<1> QED
  BY <1>1, <1>2, Invariance, PTL DEF Spec, FifoSpec, Fifo!Spec
=============================================================================
