------------------------------ MODULE RingBuf ------------------------------
(***************************************************************************)
(* The ring buffer that joins the audio tasks:                             *)
(* src/lib/audio_pipeline/ringbuf.c.  One task reads (rb_read), one writes *)
(* (rb_write), and a third may call rb_done_write, rb_abort,               *)
(* rb_unblock_reader and rb_reset.  The mutex protects the pointers and    *)
(* fill_cnt; the flags are read and written without it, and the binary     *)
(* semaphores can_read and can_write block the two users.                  *)
(*                                                                         *)
(* While a user holds the mutex and copies, it touches nothing the others  *)
(* touch without the mutex, so taking the mutex, copying and giving it back*)
(* is one action; when there is nothing to copy, each flag is a step.      *)
(* The bytes are numbered as they are written.                             *)
(*                                                                         *)
(* The operators Mut... are plausible slips in the operator that follows   *)
(* them.  Nothing uses them: put in its place, each breaks a property.     *)
(***************************************************************************)
EXTENDS Naturals, Sequences

CONSTANTS
    SIZE,         \* rb->size
    WORD,         \* word size that partial reads are rounded down to (4)
    MaxLen,       \* bound: longest buf_len of a call
    MaxBytes      \* bound: bytes written in all

ASSUME SizesAssumption ==
    /\ SIZE \in Nat \ {0}
    /\ WORD \in Nat \ {0}
    /\ MaxLen \in Nat \ {0}
    /\ MaxBytes \in Nat

VARIABLES
    mem, p_r, p_w, fill_cnt,                         \* the buffer
    lock, can_read, can_write,                       \* the semaphores
    abort_read, abort_write, is_done_write, unblock_reader_flag,
    rpc, rlen, rtotal, rret,                         \* rb_read in progress
    wpc, wlen, wtotal, wret,                         \* rb_write in progress
    cpc,                                             \* the controlling task
    next,                                            \* history: bytes written
    chunk                                            \* history: last bytes read

bufVars    == <<mem, p_r, p_w, fill_cnt, next, chunk>>
semVars    == <<can_read, can_write>>
flagVars   == <<abort_read, abort_write, is_done_write, unblock_reader_flag>>
readerVars == <<rpc, rlen, rtotal, rret>>
writerVars == <<wpc, wlen, wtotal, wret>>
vars == <<bufVars, lock, semVars, flagVars, readerVars, writerVars, cpc>>

Returns == {"ok", "done", "abort", "timeout"}

BufferTyped ==
    /\ mem \in [0..(SIZE - 1) -> Nat]
    /\ p_r \in 0..SIZE
    /\ p_w \in 0..SIZE
    /\ fill_cnt \in 0..SIZE
    /\ next \in Nat
    /\ chunk \in Seq(Nat)

SharedTyped ==
    /\ lock \in {"free", "reader", "writer"}
    /\ can_read \in BOOLEAN
    /\ can_write \in BOOLEAN
    /\ abort_read \in BOOLEAN
    /\ abort_write \in BOOLEAN
    /\ is_done_write \in BOOLEAN
    /\ unblock_reader_flag \in BOOLEAN
    /\ cpc \in {"idle", "wake", "wake_reader", "abort_write", "wake_writer"}

ReaderTyped ==
    /\ rpc \in {"idle", "top", "done", "abort", "unblock", "give", "wait", "tail",
                "clear"}
    /\ rlen \in 0..MaxLen
    /\ rtotal \in 0..(MaxLen - rlen)
    /\ rret \in Returns

WriterTyped ==
    /\ wpc \in {"idle", "top", "done", "abort", "give", "wait", "tail"}
    /\ wlen \in 0..MaxLen
    /\ wtotal \in 0..(MaxLen - wlen)
    /\ wret \in Returns

(* The pointers stay inside the buffer, the counts inside what was asked   *)
(* for, and every other variable has its type.                             *)
TypeOK == BufferTyped /\ SharedTyped /\ ReaderTyped /\ WriterTyped

(* rb_create.                                                              *)
Init ==
    /\ mem = [i \in 0..(SIZE - 1) |-> 0]
    /\ p_r = 0
    /\ p_w = 0
    /\ fill_cnt = 0
    /\ next = 0
    /\ chunk = <<>>
    /\ lock = "free"
    /\ can_read = FALSE
    /\ can_write = FALSE
    /\ abort_read = FALSE
    /\ abort_write = FALSE
    /\ is_done_write = FALSE
    /\ unblock_reader_flag = FALSE
    /\ rpc = "idle" /\ rlen = 0 /\ rtotal = 0 /\ rret = "ok"
    /\ wpc = "idle" /\ wlen = 0 /\ wtotal = 0 /\ wret = "ok"
    /\ cpc = "idle"

-----------------------------------------------------------------------------
(* Offsets into the buffer.  A pointer may stand at SIZE, one past the end;*)
(* it is wrapped only by a copy that goes on beyond it.                    *)

Slot(p) == IF p >= SIZE THEN p - SIZE ELSE p

MutAdvance(p, n) == IF p + n > SIZE THEN n ELSE p + n

Advance(p, n) == IF p + n > SIZE THEN p + n - SIZE ELSE p + n

-----------------------------------------------------------------------------
(* rb_read.                                                                *)

StartRead ==
    /\ rpc = "idle"
    /\ rlen' \in 1..MaxLen
    /\ rpc' = "top" /\ rtotal' = 0 /\ rret' = "ok"
    /\ UNCHANGED <<bufVars, lock, semVars, flagVars, writerVars, cpc>>

(* read_size: all that is asked for if it is there; else what is there,    *)
(* rounded down to words unless the writer is done.                        *)
Whole(n) == n - (n % WORD)

MutReadSize ==
    IF fill_cnt >= rlen \/ is_done_write THEN rlen ELSE Whole(fill_cnt)

ReadSize ==
    IF fill_cnt >= rlen THEN rlen
    ELSE IF Whole(fill_cnt) = 0 /\ is_done_write THEN fill_cnt
    ELSE Whole(fill_cnt)

ReadSome ==
    /\ rpc = "top"
    /\ lock = "free"
    /\ ReadSize > 0
    /\ chunk' = [i \in 1..ReadSize |-> mem[Slot(p_r + i - 1)]]
    /\ p_r' = Advance(p_r, ReadSize)
    /\ fill_cnt' = fill_cnt - ReadSize
    /\ rlen' = rlen - ReadSize
    /\ rtotal' = rtotal + ReadSize
    /\ rpc' = IF rlen = ReadSize THEN "tail" ELSE "top"
    /\ UNCHANGED <<mem, p_w, next, lock, semVars, flagVars, rret,
                   writerVars, cpc>>

(* Mutant: the mutex is given back before the flags are looked at.         *)
MutReadNothing ==
    /\ rpc = "top"
    /\ lock = "free"
    /\ ReadSize = 0
    /\ rpc' = "done"
    /\ UNCHANGED <<bufVars, lock, semVars, flagVars, rlen, rtotal, rret,
                   writerVars, cpc>>

(* Nothing to read: the mutex is kept while the flags are looked at.       *)
ReadNothing ==
    /\ rpc = "top"
    /\ lock = "free"
    /\ ReadSize = 0
    /\ lock' = "reader"
    /\ rpc' = "done"
    /\ UNCHANGED <<bufVars, semVars, flagVars, rlen, rtotal, rret,
                   writerVars, cpc>>

(* One flag after the other ends the call; the last releases the mutex.    *)
ReaderTests(at, flag, ret, otherwise) ==
    /\ rpc = at
    /\ IF flag THEN rpc' = "tail" /\ rret' = ret
               ELSE rpc' = otherwise /\ UNCHANGED rret
    /\ lock' = IF flag \/ otherwise = "give" THEN "free" ELSE lock
    /\ UNCHANGED <<bufVars, semVars, flagVars, rlen, rtotal,
                   writerVars, cpc>>

ReadFlags ==
    \/ ReaderTests("done", is_done_write, "done", "abort")
    \/ ReaderTests("abort", abort_read, "abort", "unblock")
    \/ ReaderTests("unblock", unblock_reader_flag, "timeout", "give")

MutReaderGives ==
    /\ rpc = "give"
    /\ rpc' = "wait"
    /\ UNCHANGED <<bufVars, lock, semVars, flagVars, rlen, rtotal, rret,
                   writerVars, cpc>>

ReaderGives ==
    /\ rpc = "give"
    /\ can_write' = TRUE
    /\ rpc' = "wait"
    /\ UNCHANGED <<bufVars, lock, can_read, flagVars, rlen, rtotal, rret,
                   writerVars, cpc>>

ReaderWakes ==
    /\ rpc = "wait"
    /\ can_read
    /\ can_read' = FALSE
    /\ rpc' = "top"
    /\ UNCHANGED <<bufVars, lock, can_write, flagVars, rlen, rtotal, rret,
                   writerVars, cpc>>

ReadTimeout ==
    /\ rpc = "wait"
    /\ ~can_read
    /\ rret' = "timeout"
    /\ rpc' = "tail"
    /\ UNCHANGED <<bufVars, lock, semVars, flagVars, rlen, rtotal,
                   writerVars, cpc>>

MutReadTail ==
    /\ rpc = "tail"
    /\ rpc' = "clear"
    /\ UNCHANGED <<bufVars, lock, semVars, flagVars, rlen, rtotal, rret,
                   writerVars, cpc>>

(* read_err: wake the writer if anything was read, then drop the unblock   *)
(* flag, without the mutex.                                                *)
ReadTail ==
    /\ rpc = "tail"
    /\ can_write' = (can_write \/ rtotal > 0)
    /\ rpc' = "clear"
    /\ UNCHANGED <<bufVars, lock, can_read, flagVars, rlen, rtotal, rret,
                   writerVars, cpc>>

ReadReturns ==
    /\ rpc = "clear"
    /\ unblock_reader_flag' = FALSE
    /\ rpc' = "idle" /\ rlen' = 0 /\ rtotal' = 0 /\ rret' = "ok"
    /\ UNCHANGED <<bufVars, lock, semVars, abort_read, abort_write,
                   is_done_write, writerVars, cpc>>

(* What the caller of rb_read is told: an abort hides the bytes read.      *)
ReadResult == IF rret = "abort" \/ rtotal = 0 THEN 0 ELSE rtotal

ReadStep ==
    \/ ReadSome \/ ReadNothing \/ ReadFlags \/ ReaderGives \/ ReaderWakes
    \/ ReadTail \/ ReadReturns

-----------------------------------------------------------------------------
(* rb_write.                                                               *)

StartWrite ==
    /\ wpc = "idle"
    /\ wlen' \in 1..MaxLen
    /\ next + wlen' <= MaxBytes
    /\ wpc' = "top" /\ wtotal' = 0 /\ wret' = "ok"
    /\ UNCHANGED <<bufVars, lock, semVars, flagVars, readerVars, cpc>>

WriteSize == IF wlen < SIZE - fill_cnt THEN wlen ELSE SIZE - fill_cnt

(* How far slot s is from where the write starts.                          *)
OffsetInWrite(s) == Slot(s + SIZE - Slot(p_w))

WriteSome ==
    /\ wpc = "top"
    /\ lock = "free"
    /\ WriteSize > 0
    /\ mem' = [s \in 0..(SIZE - 1) |->
                 IF OffsetInWrite(s) < WriteSize THEN next + OffsetInWrite(s)
                                                 ELSE mem[s]]
    /\ p_w' = Advance(p_w, WriteSize)
    /\ fill_cnt' = fill_cnt + WriteSize
    /\ next' = next + WriteSize
    /\ wlen' = wlen - WriteSize
    /\ wtotal' = wtotal + WriteSize
    /\ wpc' = IF wlen = WriteSize THEN "tail" ELSE "top"
    /\ UNCHANGED <<p_r, chunk, lock, semVars, flagVars, wret,
                   readerVars, cpc>>

WriteNothing ==
    /\ wpc = "top"
    /\ lock = "free"
    /\ WriteSize = 0
    /\ lock' = "writer"
    /\ wpc' = "done"
    /\ UNCHANGED <<bufVars, semVars, flagVars, wlen, wtotal, wret,
                   readerVars, cpc>>

WriterTests(at, flag, ret, otherwise) ==
    /\ wpc = at
    /\ IF flag THEN wpc' = "tail" /\ wret' = ret
               ELSE wpc' = otherwise /\ UNCHANGED wret
    /\ lock' = IF flag \/ otherwise = "give" THEN "free" ELSE lock
    /\ UNCHANGED <<bufVars, semVars, flagVars, wlen, wtotal,
                   readerVars, cpc>>

WriteFlags ==
    \/ WriterTests("done", is_done_write, "done", "abort")
    \/ WriterTests("abort", abort_write, "abort", "give")

WriterGives ==
    /\ wpc = "give"
    /\ can_read' = TRUE
    /\ wpc' = "wait"
    /\ UNCHANGED <<bufVars, lock, can_write, flagVars, wlen, wtotal, wret,
                   readerVars, cpc>>

WriterWakes ==
    /\ wpc = "wait"
    /\ can_write
    /\ can_write' = FALSE
    /\ wpc' = "top"
    /\ UNCHANGED <<bufVars, lock, can_read, flagVars, wlen, wtotal, wret,
                   readerVars, cpc>>

WriteTimeout ==
    /\ wpc = "wait"
    /\ ~can_write
    /\ wret' = "timeout"
    /\ wpc' = "tail"
    /\ UNCHANGED <<bufVars, lock, semVars, flagVars, wlen, wtotal,
                   readerVars, cpc>>

MutWriteTail ==
    /\ wpc = "tail"
    /\ wpc' = "idle" /\ wlen' = 0 /\ wtotal' = 0 /\ wret' = "ok"
    /\ UNCHANGED <<bufVars, lock, semVars, flagVars, readerVars, cpc>>

WriteTail ==
    /\ wpc = "tail"
    /\ can_read' = (can_read \/ wtotal > 0)
    /\ wpc' = "idle" /\ wlen' = 0 /\ wtotal' = 0 /\ wret' = "ok"
    /\ UNCHANGED <<bufVars, lock, can_write, flagVars, readerVars, cpc>>

WriteStep ==
    \/ WriteSome \/ WriteNothing \/ WriteFlags \/ WriterGives \/ WriterWakes
    \/ WriteTail

-----------------------------------------------------------------------------
(* The controlling task: a flag, then a semaphore, without the mutex.      *)

MutRbDoneWrite ==
    /\ cpc = "idle"
    /\ is_done_write' = TRUE
    /\ UNCHANGED <<bufVars, lock, semVars, abort_read, abort_write,
                   unblock_reader_flag, readerVars, writerVars, cpc>>

RbDoneWrite ==
    /\ cpc = "idle"
    /\ is_done_write' = TRUE
    /\ cpc' = "wake"
    /\ UNCHANGED <<bufVars, lock, semVars, abort_read, abort_write,
                   unblock_reader_flag, readerVars, writerVars>>

RbUnblockReader ==
    /\ cpc = "idle"
    /\ unblock_reader_flag' = TRUE
    /\ cpc' = "wake"
    /\ UNCHANGED <<bufVars, lock, semVars, abort_read, abort_write,
                   is_done_write, readerVars, writerVars>>

RbAbort ==
    /\ cpc = "idle"
    /\ abort_read' = TRUE
    /\ cpc' = "wake_reader"
    /\ UNCHANGED <<bufVars, lock, semVars, abort_write, is_done_write,
                   unblock_reader_flag, readerVars, writerVars>>

WakeReader ==
    /\ cpc \in {"wake", "wake_reader"}
    /\ can_read' = TRUE
    /\ cpc' = IF cpc = "wake" THEN "idle" ELSE "abort_write"
    /\ UNCHANGED <<bufVars, lock, can_write, flagVars, readerVars, writerVars>>

(* Mutant: the writer is not woken.                                        *)
MutAbortWrite ==
    /\ cpc = "abort_write"
    /\ abort_write' = TRUE
    /\ cpc' = "idle"
    /\ UNCHANGED <<bufVars, lock, semVars, abort_read, is_done_write,
                   unblock_reader_flag, readerVars, writerVars>>

AbortWrite ==
    /\ cpc = "abort_write"
    /\ abort_write' = TRUE
    /\ cpc' = "wake_writer"
    /\ UNCHANGED <<bufVars, lock, semVars, abort_read, is_done_write,
                   unblock_reader_flag, readerVars, writerVars>>

WakeWriter ==
    /\ cpc = "wake_writer"
    /\ can_write' = TRUE
    /\ cpc' = "idle"
    /\ UNCHANGED <<bufVars, lock, can_read, flagVars, readerVars, writerVars>>

MutRbReset ==
    /\ cpc = "idle"
    /\ rpc = "idle"
    /\ wpc = "idle"
    /\ p_r' = 0
    /\ fill_cnt' = 0
    /\ is_done_write' = FALSE
    /\ unblock_reader_flag' = FALSE
    /\ abort_read' = FALSE
    /\ abort_write' = FALSE
    /\ UNCHANGED <<mem, p_w, next, chunk, lock, semVars, readerVars,
                   writerVars, cpc>>

(* rb_reset takes no mutex; the pipeline calls it when the tasks on both   *)
(* sides have stopped.  The semaphores stay as they are.                   *)
RbReset ==
    /\ cpc = "idle"
    /\ rpc = "idle"
    /\ wpc = "idle"
    /\ p_r' = 0
    /\ p_w' = 0
    /\ fill_cnt' = 0
    /\ is_done_write' = FALSE
    /\ unblock_reader_flag' = FALSE
    /\ abort_read' = FALSE
    /\ abort_write' = FALSE
    /\ UNCHANGED <<mem, next, chunk, lock, semVars, readerVars, writerVars,
                   cpc>>

ControlStep == WakeReader \/ AbortWrite \/ WakeWriter

-----------------------------------------------------------------------------
Next ==
    \/ StartRead \/ ReadStep \/ ReadTimeout
    \/ StartWrite \/ WriteStep \/ WriteTimeout
    \/ RbDoneWrite \/ RbUnblockReader \/ RbAbort \/ RbReset \/ ControlStep

Spec == Init /\ [][Next]_vars

(* A task inside a call goes on, and one that waits for the mutex gets it  *)
(* in its turn.  Nobody need make another call, and a timeout is not       *)
(* counted on.                                                             *)
Fairness ==
    /\ SF_vars(ReadSome \/ ReadNothing) /\ WF_vars(ReadStep)
    /\ SF_vars(WriteSome \/ WriteNothing) /\ WF_vars(WriteStep)
    /\ WF_vars(ControlStep)

FairSpec == Spec /\ Fairness

-----------------------------------------------------------------------------
(* Properties.                                                             *)

(* The two pointers and fill_cnt, each moved by a different task, agree:   *)
(* whatever the wrap-arounds, the bytes between them are the last fill_cnt *)
(* written, oldest at p_r.                                                 *)
Consistent ==
    /\ p_r + fill_cnt \in {p_w, p_w + SIZE}
    /\ fill_cnt <= next
    /\ \A i \in 0..(SIZE - 1) :
          i < fill_cnt => mem[Slot(p_r + i)] = next - fill_cnt + i

(* Reader and writer never both sleep for good: when both wait, one of the *)
(* semaphores has been given.                                              *)
NotBothAsleep ==
    (rpc = "wait" /\ wpc = "wait") => (can_read \/ can_write)

(* Whoever sleeps has been given its semaphore, or the task that owes it   *)
(* is on its way there: no task looks at fill_cnt or at a flag, goes to    *)
(* sleep, and has missed the one call that wakes it.                       *)
WakeUpComes ==
    /\ (rpc = "wait" /\ (fill_cnt >= rlen \/ fill_cnt >= WORD)) =>
          can_read \/ (wtotal > 0 /\ wpc \notin {"idle", "wait"})
    /\ (wpc = "wait" /\ fill_cnt < SIZE) =>
          can_write \/ (rtotal > 0 /\ rpc \notin {"idle", "wait", "clear"})
    /\ (rpc = "wait" /\ (is_done_write \/ abort_read \/ unblock_reader_flag)) =>
          can_read \/ cpc \in {"wake", "wake_reader"}
    /\ (wpc = "wait" /\ abort_write) => can_write \/ cpc = "wake_writer"

(* The end and an abort cut a read short only when less than it wants, and *)
(* less than a word, is left, whenever the writer writes its last bytes    *)
(* and calls rb_done_write: only those may stay behind.                    *)
EndWhenDrained ==
    [][rret = "ok" /\ rret' \in {"done", "abort"} =>
         fill_cnt < rlen /\ fill_cnt < WORD]_vars

(* The doc of rb_read (ringbuf.h) promises the number of bytes read.       *)
CountReported == (rpc = "clear" /\ rtotal > 0) => ReadResult = rtotal

(* No wake-up is lost: a reader asleep while a word, or all it wants, is   *)
(* there, wakes up; so does a writer asleep while there is room.           *)
ReaderSeesData ==
    (rpc = "wait" /\ (fill_cnt >= rlen \/ fill_cnt >= WORD)) ~> (rpc # "wait")

WriterSeesRoom == (wpc = "wait" /\ fill_cnt < SIZE) ~> (wpc # "wait")

(* rb_done_write, rb_abort and rb_unblock_reader get a sleeping reader out *)
(* of rb_read, whichever other task wakes it first.                        *)
ControlFreesReader ==
    (rpc = "wait" /\ (is_done_write \/ abort_read \/ unblock_reader_flag))
        ~> (rpc = "idle")

(* The buffer is a queue of bytes, the oldest at p_r.                      *)
Contents == [i \in 1..fill_cnt |-> mem[Slot(p_r + i - 1)]]

Queue == INSTANCE ByteQueue WITH queue <- Contents

(* The ring buffer implements the queue: every byte that comes out is the  *)
(* one that went in, in order, once, and never more than SIZE are inside.  *)
ImplementsQueue == Queue!QSpec

=============================================================================
