------------------------------- MODULE RingBuf ------------------------------
(***************************************************************************)
(* The ring buffer that joins two audio elements                           *)
(* (components/bk_audio/audio_pipeline/ringbuf.c).  One element's task     *)
(* reads, one element's task writes, and any task may call rb_abort,       *)
(* rb_done_write and rb_unblock_reader, none of which takes the lock.      *)
(*                                                                         *)
(* Each action is the code between two points at which another task can    *)
(* change what it reads: rb_read and rb_write hold the mutex over three    *)
(* steps (size the transfer, copy and move the pointer, update fill_cnt),  *)
(* because the unlocked calls can run in between.                          *)
(***************************************************************************)
EXTENDS Integers, Sequences

CONSTANTS
    Size,            \* block_size * n_blocks, in bytes
    ReadLens,        \* the lengths rb_read is called with
    WriteLens,       \* the lengths rb_write is called with
    UintSpan,        \* 2^32 in the code: how many values a uint32_t has
    MaxBytes,        \* bound: no rb_write starts that could pass this total
    ReaderTimesOut,  \* whether rb_read is called with a finite ticks_to_wait
    WriterTimesOut   \* whether rb_write is called with a finite ticks_to_wait

ASSUME RingBufAssumption ==
    /\ Size \in Nat /\ Size >= 2          \* rb_create refuses block_size < 2
    /\ ReadLens \subseteq Nat \ {0}
    /\ WriteLens \subseteq Nat \ {0}
    /\ UintSpan \in Nat /\ UintSpan > 2 * Size
    /\ MaxBytes \in Nat
    /\ ReaderTimesOut \in BOOLEAN
    /\ WriterTimesOut \in BOOLEAN

RB_OK == 0
RB_DONE == -2
RB_ABORT == -3
RB_TIMEOUT == -4

VARIABLES
    mem,                        \* the bytes at p_o[0 .. Size-1]
    p_r, p_w,                   \* read and write pointer, as offsets from p_o
    fill_cnt,
    lock,                       \* who holds the mutex
    can_read, can_write,        \* the tokens of the two binary semaphores
    is_done_write, abort_read, abort_write, unblock_reader_flag,
    rpc, rlen, rtot, rn, rret,  \* rb_read: place, buf_len left, total_read_size,
                                \*   read_size, ret_val (its result once idle)
    wpc, wlen, wtot, wn, wret,  \* the same for rb_write
    cpc,                        \* the place of the unlocked call under way
    sent, got                   \* history: bytes accepted, last chunk copied out

store == <<mem, p_r, p_w, sent, got>>
flags == <<is_done_write, abort_read, abort_write, unblock_reader_flag>>
tokens == <<can_read, can_write>>
reader == <<rpc, rlen, rtot, rn, rret>>
writer == <<wpc, wlen, wtot, wn, wret>>
vars == <<store, fill_cnt, lock, tokens, flags, reader, writer, cpc>>

Offsets == 0..(Size - 1)
Lesser(a, b) == IF a < b THEN a ELSE b

(* The offset i bytes after pointer p; a pointer may itself stand at Size.  *)
Slot(p, i) == IF p + i < Size THEN p + i ELSE p + i - Size

(* Where a pointer stands after n bytes: it wraps only when it passes the   *)
(* end, so that it can rest on p_o + size.                                  *)
Advance(p, n) == IF p + n > Size THEN p + n - Size ELSE p + n

(* fill_cnt is a uint32_t: a difference below zero wraps around.            *)
MinusU(a, b) == IF b <= a THEN a - b ELSE a - b + UintSpan

Init ==
    /\ mem = [i \in Offsets |-> 0]
    /\ p_r = 0 /\ p_w = 0 /\ fill_cnt = 0
    /\ lock = "free"
    /\ can_read = 0 /\ can_write = 0
    /\ is_done_write = FALSE /\ unblock_reader_flag = FALSE
    /\ abort_read = FALSE /\ abort_write = FALSE
    /\ rpc = "idle" /\ rlen = 0 /\ rtot = 0 /\ rn = 0 /\ rret = RB_OK
    /\ wpc = "idle" /\ wlen = 0 /\ wtot = 0 /\ wn = 0 /\ wret = RB_OK
    /\ cpc = "idle"
    /\ sent = 0 /\ got = <<>>
-----------------------------------------------------------------------------
(* rb_read *)

RdCall(len) ==
    /\ rpc = "idle"
    /\ rpc' = "lock" /\ rlen' = len /\ rtot' = 0 /\ rn' = 0 /\ rret' = RB_OK
    /\ UNCHANGED <<store, fill_cnt, lock, tokens, flags, writer, cpc>>

(* Faulty forms of ReadSize: whole double words only; the whole request.    *)
ReadSizeByEight == IF fill_cnt >= rlen THEN rlen ELSE fill_cnt - (fill_cnt % 8)
ReadSizeUnclamped == rlen

(* Short of buf_len, only whole words are read, until the writer is done.   *)
ReadSize ==
    IF fill_cnt >= rlen THEN rlen
    ELSE IF fill_cnt < 4 /\ is_done_write THEN fill_cnt
    ELSE fill_cnt - (fill_cnt % 4)

RdLock ==
    /\ rpc = "lock" /\ lock = "free"
    /\ lock' = "reader"
    /\ rn' = ReadSize
    /\ rpc' = IF rn' = 0 THEN "empty" ELSE "copy"
    /\ UNCHANGED <<store, fill_cnt, tokens, flags, rlen, rtot, rret, writer, cpc>>

(* Nothing to read: the flags, is_done_write for the second time.           *)
RdEmpty ==
    /\ rpc = "empty"
    /\ lock' = "free"
    /\ \/ /\ is_done_write
          /\ rret' = RB_DONE /\ rpc' = "exit"
       \/ /\ ~is_done_write /\ abort_read
          /\ rret' = RB_ABORT /\ rpc' = "exit"
       \/ /\ ~is_done_write /\ ~abort_read /\ unblock_reader_flag
          /\ rret' = RB_TIMEOUT /\ rpc' = "exit"
       \/ /\ ~is_done_write /\ ~abort_read /\ ~unblock_reader_flag
          /\ rpc' = "give" /\ UNCHANGED rret
    /\ UNCHANGED <<store, fill_cnt, tokens, flags, rlen, rtot, rn, writer, cpc>>

(* Faulty form: rb_read waits without telling the writer.                   *)
RdGiveSilent ==
    /\ rpc = "give"
    /\ rpc' = "wait"
    /\ UNCHANGED <<store, fill_cnt, lock, tokens, flags, rlen, rtot, rn, rret,
                   writer, cpc>>

RdGive ==
    /\ rpc = "give"
    /\ can_write' = 1
    /\ rpc' = "wait"
    /\ UNCHANGED <<store, fill_cnt, lock, can_read, flags, rlen, rtot, rn, rret,
                   writer, cpc>>

RdWake ==
    /\ rpc = "wait" /\ can_read = 1
    /\ can_read' = 0
    /\ rpc' = "lock"
    /\ UNCHANGED <<store, fill_cnt, lock, can_write, flags, rlen, rtot, rn, rret,
                   writer, cpc>>

RdTimeout ==
    /\ ReaderTimesOut
    /\ rpc = "wait" /\ can_read = 0
    /\ rret' = RB_TIMEOUT /\ rpc' = "exit"
    /\ UNCHANGED <<store, fill_cnt, lock, tokens, flags, rlen, rtot, rn, writer, cpc>>

(* Faulty form: the second of the two copies around the end is missing.     *)
RdCopyStopsAtEnd ==
    /\ rpc = "copy"
    /\ got' = [i \in 1..rn |-> IF p_r + i > Size THEN 0 ELSE mem[Slot(p_r, i - 1)]]
    /\ p_r' = Advance(p_r, rn)
    /\ rpc' = "count"
    /\ UNCHANGED <<mem, p_w, sent, fill_cnt, lock, tokens, flags, rlen, rtot, rn,
                   rret, writer, cpc>>

RdCopy ==
    /\ rpc = "copy"
    /\ got' = [i \in 1..rn |-> mem[Slot(p_r, i - 1)]]
    /\ p_r' = Advance(p_r, rn)
    /\ rpc' = "count"
    /\ UNCHANGED <<mem, p_w, sent, fill_cnt, lock, tokens, flags, rlen, rtot, rn,
                   rret, writer, cpc>>

RdCount ==
    /\ rpc = "count"
    /\ rlen' = rlen - rn
    /\ fill_cnt' = MinusU(fill_cnt, rn)
    /\ rtot' = rtot + rn
    /\ lock' = "free"
    /\ rn' = 0
    /\ rpc' = IF rlen' = 0 THEN "exit" ELSE "lock"
    /\ UNCHANGED <<store, tokens, flags, rret, writer, cpc>>

(* A positive total is the result, unless the call was aborted.             *)
Result(ret, tot) == IF tot > 0 /\ ret # RB_ABORT THEN tot ELSE ret

RdExit ==
    /\ rpc = "exit"
    /\ can_write' = IF rtot > 0 THEN 1 ELSE can_write
    /\ unblock_reader_flag' = FALSE
    /\ rret' = Result(rret, rtot)
    /\ rpc' = "idle" /\ rlen' = 0 /\ rtot' = 0
    /\ UNCHANGED <<store, fill_cnt, lock, can_read, is_done_write, abort_read,
                   abort_write, rn, writer, cpc>>
-----------------------------------------------------------------------------
(* rb_write *)

WrCall(len) ==
    /\ wpc = "idle"
    /\ sent + len <= MaxBytes
    /\ wpc' = "lock" /\ wlen' = len /\ wtot' = 0 /\ wn' = 0 /\ wret' = RB_OK
    /\ UNCHANGED <<store, fill_cnt, lock, tokens, flags, reader, cpc>>

(* rb_bytes_available                                                       *)
Room == MinusU(Size, fill_cnt)

WrLock ==
    /\ wpc = "lock" /\ lock = "free"
    /\ lock' = "writer"
    /\ wn' = Lesser(Room, wlen)
    /\ wpc' = IF wn' = 0 THEN "full" ELSE "copy"
    /\ UNCHANGED <<store, fill_cnt, tokens, flags, wlen, wtot, wret, reader, cpc>>

WrFull ==
    /\ wpc = "full"
    /\ lock' = "free"
    /\ \/ /\ is_done_write
          /\ wret' = RB_DONE /\ wpc' = "exit"
       \/ /\ ~is_done_write /\ abort_write
          /\ wret' = RB_ABORT /\ wpc' = "exit"
       \/ /\ ~is_done_write /\ ~abort_write
          /\ wpc' = "give" /\ UNCHANGED wret
    /\ UNCHANGED <<store, fill_cnt, tokens, flags, wlen, wtot, wn, reader, cpc>>

WrGive ==
    /\ wpc = "give"
    /\ can_read' = 1
    /\ wpc' = "wait"
    /\ UNCHANGED <<store, fill_cnt, lock, can_write, flags, wlen, wtot, wn, wret,
                   reader, cpc>>

WrWake ==
    /\ wpc = "wait" /\ can_write = 1
    /\ can_write' = 0
    /\ wpc' = "lock"
    /\ UNCHANGED <<store, fill_cnt, lock, can_read, flags, wlen, wtot, wn, wret,
                   reader, cpc>>

WrTimeout ==
    /\ WriterTimesOut
    /\ wpc = "wait" /\ can_write = 0
    /\ wret' = RB_TIMEOUT /\ wpc' = "exit"
    /\ UNCHANGED <<store, fill_cnt, lock, tokens, flags, wlen, wtot, wn, reader, cpc>>

(* The bytes copied in are numbered sent, sent + 1, ...                     *)
WrCopy ==
    /\ wpc = "copy"
    /\ mem' = [j \in Offsets |->
                 IF \E i \in 0..(wn - 1) : j = Slot(p_w, i)
                 THEN sent + (IF j >= p_w THEN j - p_w ELSE j - p_w + Size)
                 ELSE mem[j]]
    /\ p_w' = Advance(p_w, wn)
    /\ sent' = sent + wn
    /\ wpc' = "count"
    /\ UNCHANGED <<p_r, got, fill_cnt, lock, tokens, flags, wlen, wtot, wn, wret,
                   reader, cpc>>

WrCount ==
    /\ wpc = "count"
    /\ wlen' = wlen - wn
    /\ fill_cnt' = fill_cnt + wn
    /\ wtot' = wtot + wn
    /\ lock' = "free"
    /\ wn' = 0
    /\ wpc' = IF wlen' = 0 THEN "exit" ELSE "lock"
    /\ UNCHANGED <<store, tokens, flags, wret, reader, cpc>>

(* Faulty form: rb_write tells the reader only when nothing went wrong.     *)
WrExitSilentOnTimeout ==
    /\ wpc = "exit"
    /\ can_read' = IF wtot > 0 /\ wret = RB_OK THEN 1 ELSE can_read
    /\ wret' = Result(wret, wtot)
    /\ wpc' = "idle" /\ wlen' = 0 /\ wtot' = 0
    /\ UNCHANGED <<store, fill_cnt, lock, can_write, flags, wn, reader, cpc>>

WrExit ==
    /\ wpc = "exit"
    /\ can_read' = IF wtot > 0 THEN 1 ELSE can_read
    /\ wret' = Result(wret, wtot)
    /\ wpc' = "idle" /\ wlen' = 0 /\ wtot' = 0
    /\ UNCHANGED <<store, fill_cnt, lock, can_write, flags, wn, reader, cpc>>
-----------------------------------------------------------------------------
(* The calls that take no lock: a flag is set, then a token is given.       *)

AbortSetRead ==
    /\ cpc = "idle"
    /\ abort_read' = TRUE /\ cpc' = "abort_give_read"
    /\ UNCHANGED <<store, fill_cnt, lock, tokens, is_done_write, abort_write,
                   unblock_reader_flag, reader, writer>>

(* Faulty form: rb_done_write wakes the writer instead of the reader.       *)
GiveReadToWriter ==
    /\ cpc \in {"done_give", "unblock_give"}
    /\ can_write' = 1 /\ cpc' = "idle"
    /\ UNCHANGED <<store, fill_cnt, lock, can_read, flags, reader, writer>>

AbortGiveRead ==
    /\ cpc = "abort_give_read"
    /\ can_read' = 1 /\ cpc' = "abort_set_write"
    /\ UNCHANGED <<store, fill_cnt, lock, can_write, flags, reader, writer>>

AbortSetWrite ==
    /\ cpc = "abort_set_write"
    /\ abort_write' = TRUE /\ cpc' = "abort_give_write"
    /\ UNCHANGED <<store, fill_cnt, lock, tokens, is_done_write, abort_read,
                   unblock_reader_flag, reader, writer>>

AbortGiveWrite ==
    /\ cpc = "abort_give_write"
    /\ can_write' = 1 /\ cpc' = "idle"
    /\ UNCHANGED <<store, fill_cnt, lock, can_read, flags, reader, writer>>

DoneSet ==
    /\ cpc = "idle"
    /\ is_done_write' = TRUE /\ cpc' = "done_give"
    /\ UNCHANGED <<store, fill_cnt, lock, tokens, abort_read, abort_write,
                   unblock_reader_flag, reader, writer>>

UnblockSet ==
    /\ cpc = "idle"
    /\ unblock_reader_flag' = TRUE /\ cpc' = "unblock_give"
    /\ UNCHANGED <<store, fill_cnt, lock, tokens, is_done_write, abort_read,
                   abort_write, reader, writer>>

GiveRead ==
    /\ cpc \in {"done_give", "unblock_give"}
    /\ can_read' = 1 /\ cpc' = "idle"
    /\ UNCHANGED <<store, fill_cnt, lock, can_write, flags, reader, writer>>

(* Faulty form: only the fill count and the flags are cleared.              *)
ResetKeepsPointers ==
    /\ wpc = "idle"
    /\ fill_cnt' = 0
    /\ is_done_write' = FALSE /\ unblock_reader_flag' = FALSE
    /\ abort_read' = FALSE /\ abort_write' = FALSE
    /\ p_r' = 0
    /\ UNCHANGED <<mem, p_w, sent, got, lock, tokens, reader, writer, cpc>>

(* rb_reset takes no lock either.  The writing element's task calls it      *)
(* (audio_element_on_cmd_resume), so it never meets a call of rb_write.     *)
Reset ==
    /\ wpc = "idle"
    /\ p_r' = 0 /\ p_w' = 0 /\ fill_cnt' = 0
    /\ is_done_write' = FALSE /\ unblock_reader_flag' = FALSE
    /\ abort_read' = FALSE /\ abort_write' = FALSE
    /\ UNCHANGED <<mem, sent, got, lock, tokens, reader, writer, cpc>>

(* audio_pipeline_resume restarts the elements of a stopped pipeline in     *)
(* order and waits for each: the reader is then outside its lock.           *)
QuietReset == lock # "reader" /\ Reset
-----------------------------------------------------------------------------
Read == \/ \E len \in ReadLens : RdCall(len)
        \/ RdLock \/ RdEmpty \/ RdGive \/ RdWake \/ RdTimeout
        \/ RdCopy \/ RdCount \/ RdExit

Write == \/ \E len \in WriteLens : WrCall(len)
         \/ WrLock \/ WrFull \/ WrGive \/ WrWake \/ WrTimeout
         \/ WrCopy \/ WrCount \/ WrExit

Control == \/ AbortSetRead \/ AbortGiveRead \/ AbortSetWrite \/ AbortGiveWrite
           \/ DoneSet \/ UnblockSet \/ GiveRead

Next == Read \/ Write \/ Control \/ QuietReset

Spec == Init /\ [][Next]_vars

(* The scheduler runs every ready task, so that a call which can go on does *)
(* go on, and the mutex is handed to whoever asks for it again and again.   *)
(* Nothing obliges an element to call, or a wait to time out.               *)
Fairness ==
    /\ WF_vars(RdEmpty \/ RdGive \/ RdWake \/ RdCopy \/ RdCount \/ RdExit)
    /\ WF_vars(WrFull \/ WrGive \/ WrWake \/ WrCopy \/ WrCount \/ WrExit)
    /\ SF_vars(RdLock) /\ SF_vars(WrLock)
    /\ WF_vars(AbortGiveRead \/ AbortSetWrite \/ AbortGiveWrite \/ GiveRead)

FairSpec == Spec /\ Fairness

(* An element that keeps reading: audio_element_process_running calls       *)
(* audio_element_input again whenever it has returned.                      *)
KeepsReading == WF_vars(\E len \in ReadLens : RdCall(len))
-----------------------------------------------------------------------------
(* Where a call can stand, and what it holds there.                         *)
Holding == {"empty", "copy", "count"}
ReaderPlaces == {"idle", "lock", "give", "wait", "exit"} \cup Holding
WriterPlaces == {"idle", "lock", "give", "wait", "exit", "full", "copy", "count"}
ControlPlaces == {"idle", "abort_give_read", "abort_set_write",
                  "abort_give_write", "done_give", "unblock_give"}

(* Every variable of the buffer, of the two calls and of the unlocked calls *)
(* has its type; fill_cnt and the pointers never leave the buffer.          *)
TypeOK ==
    /\ mem \in [Offsets -> Nat]
    /\ p_r \in 0..Size /\ p_w \in 0..Size /\ fill_cnt \in 0..Size
    /\ lock \in {"free", "reader", "writer"}
    /\ can_read \in {0, 1} /\ can_write \in {0, 1}
    /\ is_done_write \in BOOLEAN /\ unblock_reader_flag \in BOOLEAN
    /\ abort_read \in BOOLEAN /\ abort_write \in BOOLEAN
    /\ rpc \in ReaderPlaces /\ wpc \in WriterPlaces /\ cpc \in ControlPlaces
    /\ rlen \in Nat /\ rtot \in Nat /\ rn \in Nat /\ rret \in Int
    /\ wlen \in Nat /\ wtot \in Nat /\ wn \in Nat /\ wret \in Int
    /\ sent \in Nat /\ got \in Seq(Nat)

(* The bytes in the buffer: a transfer has moved its pointer before it      *)
(* corrects fill_cnt.                                                       *)
Stored == fill_cnt - (IF rpc = "count" THEN rn ELSE 0)
                   + (IF wpc = "count" THEN wn ELSE 0)

(* The write pointer is always exactly the stored bytes ahead of the read   *)
(* pointer, around the end of the buffer, although the three are updated in *)
(* separate steps and rb_reset sets them without the lock.                  *)
PointersTrackFill ==
    /\ Stored \in 0..Size
    /\ p_w = p_r + Stored \/ p_w = p_r + Stored - Size

(* An rb_read that waits with no token to take, and the same for rb_write.  *)
ReaderBlocked == rpc = "wait" /\ can_read = 0
WriterBlocked == wpc = "wait" /\ can_write = 0

(* rb_read and rb_write never wait for each other, whatever lengths they    *)
(* are called with: the word rounding of rb_read cannot leave a full buffer *)
(* that it finds empty.                                                     *)
NeverBothBlocked == ~(ReaderBlocked /\ WriterBlocked)

(* Too little in the buffer for rb_read; a token that rb_write, or rb_read, *)
(* is bound to give before it returns or waits.                             *)
NothingToRead == fill_cnt < 4 /\ fill_cnt < rlen
ReaderSignalDue == wpc \in {"count", "give"} \/ (wtot > 0 /\ wpc # "wait")
WriterSignalDue == rpc \in {"count", "give"} \/ (rtot > 0 /\ rpc # "wait")

(* A call that waits without a token has nothing to return for: the buffer  *)
(* is still empty, or full, unless the other side is about to signal it;    *)
(* and no flag that would end the call is set, unless rb_abort,             *)
(* rb_done_write or rb_unblock_reader has still to give its token.          *)
NoLostWakeup ==
    /\ ReaderBlocked =>
          /\ NothingToRead \/ ReaderSignalDue
          /\ is_done_write => cpc = "done_give"
          /\ unblock_reader_flag => cpc = "unblock_give"
          /\ abort_read => cpc = "abort_give_read"
    /\ WriterBlocked =>
          /\ fill_cnt = Size \/ WriterSignalDue
          /\ abort_write => cpc = "abort_give_write"

(* The strengthening that is inductive.  The mutex is held exactly in the   *)
(* three places under it; what a call computed there still fits the buffer; *)
(* and what NoLostWakeup says of a waiting call holds one step before, when *)
(* it has found the buffer empty, or full, and is about to wait.            *)
LockInv ==
    /\ rpc \in Holding <=> lock = "reader"
    /\ wpc \in {"full", "copy", "count"} <=> lock = "writer"

SizesInv ==
    /\ rpc = "idle" => rtot = 0
    /\ wpc = "idle" => wtot = 0
    /\ rpc \notin {"idle", "exit"} => rlen > 0
    /\ wpc \notin {"idle", "exit"} => wlen > 0
    /\ rpc \in {"copy", "count"} => rn > 0 /\ rn <= fill_cnt /\ rn <= rlen
    /\ rpc = "empty" => NothingToRead
    /\ wpc \in {"copy", "count"} => wn > 0 /\ wn <= Size - fill_cnt /\ wn <= wlen
    /\ wpc = "full" => fill_cnt = Size

SignalInv ==
    /\ rpc \in {"give", "wait"} /\ can_read = 0 =>
          /\ NothingToRead \/ ReaderSignalDue
          /\ is_done_write => cpc = "done_give"
          /\ unblock_reader_flag => cpc = "unblock_give"
          /\ abort_read => cpc = "abort_give_read"
    /\ wpc \in {"give", "wait"} /\ can_write = 0 =>
          /\ fill_cnt = Size \/ WriterSignalDue
          /\ abort_write => cpc = "abort_give_write"

IInv == TypeOK /\ LockInv /\ SizesInv /\ PointersTrackFill /\ SignalInv

(* rb_read returns RB_DONE with at most a partial word left behind, and     *)
(* that only if rb_done_write came between its two looks at is_done_write.  *)
DoneLeavesLessThanAWord ==
    [][rpc = "empty" /\ rret' = RB_DONE => fill_cnt < 4]_vars

(* rb_abort, rb_done_write and rb_unblock_reader each end a read, and       *)
(* rb_abort a write, that need not time out, unless rb_reset clears the     *)
(* flag again; and a write longer than the buffer comes to its end as long  *)
(* as the other element keeps reading, however little.                      *)
CallsEnd ==
    /\ abort_read /\ rpc # "idle" ~> rpc = "idle" \/ ~abort_read
    /\ is_done_write /\ rpc # "idle" ~> rpc = "idle" \/ ~is_done_write
    /\ unblock_reader_flag /\ rpc # "idle" ~> rpc = "idle" \/ ~unblock_reader_flag
    /\ abort_write /\ wpc # "idle" ~> wpc = "idle" \/ ~abort_write
    /\ KeepsReading => (wpc # "idle" ~> wpc = "idle")

(* The promise of the two functions: a bounded first-in first-out queue.    *)
Fifo == INSTANCE ByteFifo WITH
            queue <- [i \in 1..Stored |-> mem[Slot(p_r, i - 1)]]
FifoSpec == Fifo!Spec
=============================================================================
