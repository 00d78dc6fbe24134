--------------------------- MODULE RingBuf_proofs ---------------------------
(***************************************************************************)
(* Proofs about the ring buffer, for every size, word size and bound: the  *)
(* types, that pointers, fill_cnt and contents agree, that reader and      *)
(* writer do not sleep on one another, and that it is a queue of bytes.    *)
(***************************************************************************)
EXTENDS RingBuf, SequenceTheorems, TLAPS

(* Rounding down to words gives no more than there is.                     *)
LEMMA WholeBound ==
    ASSUME NEW n \in Nat PROVE Whole(n) \in 0..n
  <1>1. WORD \in Nat \ {0}
    BY SizesAssumption
  <1>2. (n % WORD) \in 0..(WORD - 1) /\ n = WORD * (n \div WORD) + (n % WORD)
    BY <1>1, SMT
  <1>3. n \div WORD \in Nat
    BY <1>1, SMT
  <1>4. WORD * (n \div WORD) \in Nat
    BY <1>1, <1>3, SMT
  <1>5. \A q, r \in Nat : n = q + r => n - r \in 0..n
    BY SMT
  <1> QED
    BY <1>1, <1>2, <1>4, <1>5, SMT DEF Whole

(* A copy for the reader takes no more than is asked for, and no more than *)
(* the buffer holds.                                                       *)
LEMMA ReadSizeBound ==
    ASSUME TypeOK PROVE ReadSize \in 0..rlen /\ ReadSize \in 0..fill_cnt
  <1>1. fill_cnt \in Nat /\ rlen \in Nat
    BY SizesAssumption, SMT DEF TypeOK, BufferTyped, ReaderTyped
  <1>2. Whole(fill_cnt) \in 0..fill_cnt
    BY <1>1, WholeBound
  <1> QED
    BY <1>1, <1>2, SMT DEF ReadSize

(* A copy for the writer fits in the room left.                            *)
LEMMA WriteSizeBound ==
    ASSUME TypeOK PROVE WriteSize \in 0..wlen /\ WriteSize \in 0..(SIZE - fill_cnt)
  BY SizesAssumption, SMT DEF TypeOK, BufferTyped, WriterTyped, WriteSize

-----------------------------------------------------------------------------
(* An offset into the buffer is a slot of it, and advancing a pointer by at*)
(* most SIZE leaves it between the start and one past the end.             *)
LEMMA SlotRange ==
    ASSUME NEW p \in 0..(2 * SIZE - 1) PROVE Slot(p) \in 0..(SIZE - 1)
  BY SizesAssumption, SMT DEF Slot

LEMMA AdvanceRange ==
    ASSUME NEW p \in 0..SIZE, NEW n \in 0..SIZE PROVE Advance(p, n) \in 0..SIZE
  BY SizesAssumption, SMT DEF Advance

(* The initial state is typed.                                             *)
LEMMA TypeInit == Init => TypeOK
  <1> SUFFICES ASSUME Init PROVE TypeOK
    OBVIOUS
  <1>1. BufferTyped
    <2>1. 0 \in 0..SIZE
      BY SizesAssumption, SMT
    <2>2. mem \in [0..(SIZE - 1) -> Nat]
      BY DEF Init
    <2> QED
      BY <2>1, <2>2 DEF Init, BufferTyped
  <1>2. SharedTyped
    BY DEF Init, SharedTyped
  <1>3. ReaderTyped /\ WriterTyped
    BY SizesAssumption, SMT DEF Init, ReaderTyped, WriterTyped, Returns
  <1> QED
    BY <1>1, <1>2, <1>3 DEF TypeOK

(* No step of the reader, the writer or the controller leaves the types.   *)
LEMMA TypeStep == TypeOK /\ [Next]_vars => TypeOK'
  <1> SUFFICES ASSUME TypeOK, [Next]_vars PROVE TypeOK'
    OBVIOUS
  <1> USE SizesAssumption
  <1>1. CASE ReadSome
    <2>1. BufferTyped'
      <3>1. ReadSize \in Nat /\ ReadSize \in 0..fill_cnt /\ ReadSize \in 0..SIZE
        BY ReadSizeBound, SMT DEF TypeOK, BufferTyped
      <3>2. p_r' \in 0..SIZE
        BY <1>1, <3>1, AdvanceRange DEF ReadSome, TypeOK, BufferTyped
      <3>3. ASSUME NEW i \in 1..ReadSize PROVE mem[Slot(p_r + i - 1)] \in Nat
        <4>1. p_r + i - 1 \in 0..(2 * SIZE - 1)
          BY <3>1, SMT DEF TypeOK, BufferTyped
        <4>2. Slot(p_r + i - 1) \in 0..(SIZE - 1)
          BY <4>1, SlotRange
        <4> QED
          BY <4>2 DEF TypeOK, BufferTyped
      <3>4. chunk' \in Seq(Nat)
        BY <1>1, <3>1, <3>3 DEF ReadSome
      <3>5. fill_cnt' \in 0..SIZE
        BY <1>1, <3>1, SMT DEF ReadSome, TypeOK, BufferTyped
      <3>6. UNCHANGED <<mem, p_w, next>>
        BY <1>1 DEF ReadSome
      <3> QED
        BY <3>2, <3>4, <3>5, <3>6 DEF TypeOK, BufferTyped
    <2>2. ReaderTyped'
      <3>1. ReadSize \in 0..rlen
        BY ReadSizeBound
      <3>2. rlen' = rlen - ReadSize /\ rtotal' = rtotal + ReadSize
        BY <1>1 DEF ReadSome
      <3>3. rpc' \in {"tail", "top"} /\ rret' = rret
        BY <1>1 DEF ReadSome
      <3> QED
        BY <3>1, <3>2, <3>3, SMT DEF TypeOK, ReaderTyped
    <2>3. UNCHANGED <<semVars, flagVars, writerVars, lock, cpc>>
      BY <1>1 DEF ReadSome
    <2> QED
      BY <2>1, <2>2, <2>3
         DEF TypeOK, SharedTyped, WriterTyped, semVars, flagVars, writerVars
  <1>2. CASE WriteSome
    <2>1. BufferTyped'
      <3>1. WriteSize \in Nat /\ WriteSize \in 0..(SIZE - fill_cnt) /\ WriteSize \in 0..SIZE
        BY WriteSizeBound, SMT DEF TypeOK, BufferTyped
      <3>2. p_w' \in 0..SIZE
        BY <1>2, <3>1, AdvanceRange DEF WriteSome, TypeOK, BufferTyped
      <3>3. mem' \in [0..(SIZE - 1) -> Nat]
        <4>1. ASSUME NEW s \in 0..(SIZE - 1)
              PROVE  OffsetInWrite(s) \in Nat /\ next \in Nat /\ mem[s] \in Nat
          BY SMT DEF TypeOK, BufferTyped, OffsetInWrite, Slot
        <4> QED
          BY <1>2, <4>1, SMT DEF WriteSome
      <3>4. fill_cnt' \in 0..SIZE /\ next' \in Nat
        BY <1>2, <3>1, SMT DEF WriteSome, TypeOK, BufferTyped
      <3>5. UNCHANGED <<p_r, chunk>>
        BY <1>2 DEF WriteSome
      <3> QED
        BY <3>2, <3>3, <3>4, <3>5 DEF TypeOK, BufferTyped
    <2>2. WriterTyped'
      <3>1. WriteSize \in 0..wlen
        BY WriteSizeBound
      <3>2. wlen' = wlen - WriteSize /\ wtotal' = wtotal + WriteSize
        BY <1>2 DEF WriteSome
      <3>3. wpc' \in {"tail", "top"} /\ wret' = wret
        BY <1>2 DEF WriteSome
      <3> QED
        BY <3>1, <3>2, <3>3, SMT DEF TypeOK, WriterTyped
    <2>3. UNCHANGED <<semVars, flagVars, readerVars, lock, cpc>>
      BY <1>2 DEF WriteSome
    <2> QED
      BY <2>1, <2>2, <2>3
         DEF TypeOK, SharedTyped, ReaderTyped, semVars, flagVars, readerVars
  <1>3. CASE StartRead
    <2>1. ReaderTyped'
      <3>1. rlen' \in 1..MaxLen /\ rtotal' = 0 /\ rpc' = "top" /\ rret' = "ok"
        BY <1>3 DEF StartRead
      <3>2. \A m, n \in Nat : n \in 1..m => n \in 0..m /\ 0 \in 0..(m - n)
        BY SMT
      <3>3. MaxLen \in Nat /\ rlen' \in Nat /\ rlen' \in 1..MaxLen
        BY <3>1, SizesAssumption, SMT
      <3>4. rlen' \in 0..MaxLen /\ rtotal' \in 0..(MaxLen - rlen')
        BY <3>1, <3>2, <3>3
      <3> QED
        BY <3>1, <3>4 DEF ReaderTyped, Returns
    <2>2. UNCHANGED <<bufVars, semVars, flagVars, writerVars, lock, cpc>>
      BY <1>3 DEF StartRead
    <2> QED
      BY <2>1, <2>2
         DEF TypeOK, BufferTyped, SharedTyped, WriterTyped, bufVars, semVars, flagVars, writerVars
  <1>4. CASE ReadNothing
    <2>1. ReaderTyped'
      BY <1>4, SMT DEF ReadNothing, TypeOK, ReaderTyped, readerVars, Returns
    <2>2. SharedTyped'
      BY <1>4 DEF ReadNothing, TypeOK, SharedTyped, semVars, flagVars
    <2>3. UNCHANGED <<bufVars, writerVars>>
      BY <1>4 DEF ReadNothing
    <2> QED
      BY <2>1, <2>2, <2>3
         DEF TypeOK, BufferTyped, WriterTyped, bufVars, writerVars
  <1>5. CASE ReadFlags
    <2>1. ReaderTyped'
      BY <1>5, SMT DEF ReadFlags, ReaderTests, TypeOK, ReaderTyped, readerVars, Returns
    <2>2. SharedTyped'
      BY <1>5 DEF ReadFlags, ReaderTests, TypeOK, SharedTyped, semVars, flagVars
    <2>3. UNCHANGED <<bufVars, writerVars>>
      BY <1>5 DEF ReadFlags, ReaderTests
    <2> QED
      BY <2>1, <2>2, <2>3
         DEF TypeOK, BufferTyped, WriterTyped, bufVars, writerVars
  <1>6. CASE ReaderGives
    <2>1. ReaderTyped'
      BY <1>6, SMT DEF ReaderGives, TypeOK, ReaderTyped, readerVars, Returns
    <2>2. SharedTyped'
      BY <1>6 DEF ReaderGives, TypeOK, SharedTyped, semVars, flagVars
    <2>3. UNCHANGED <<bufVars, writerVars>>
      BY <1>6 DEF ReaderGives
    <2> QED
      BY <2>1, <2>2, <2>3
         DEF TypeOK, BufferTyped, WriterTyped, bufVars, writerVars
  <1>7. CASE ReaderWakes
    <2>1. ReaderTyped'
      BY <1>7, SMT DEF ReaderWakes, TypeOK, ReaderTyped, readerVars, Returns
    <2>2. SharedTyped'
      BY <1>7 DEF ReaderWakes, TypeOK, SharedTyped, semVars, flagVars
    <2>3. UNCHANGED <<bufVars, writerVars>>
      BY <1>7 DEF ReaderWakes
    <2> QED
      BY <2>1, <2>2, <2>3
         DEF TypeOK, BufferTyped, WriterTyped, bufVars, writerVars
  <1>8. CASE ReadTimeout
    <2>1. ReaderTyped'
      BY <1>8, SMT DEF ReadTimeout, TypeOK, ReaderTyped, readerVars, Returns
    <2>2. UNCHANGED <<bufVars, semVars, flagVars, writerVars, lock, cpc>>
      BY <1>8 DEF ReadTimeout
    <2> QED
      BY <2>1, <2>2
         DEF TypeOK, BufferTyped, SharedTyped, WriterTyped, bufVars, semVars, flagVars, writerVars
  <1>9. CASE ReadTail
    <2>1. ReaderTyped'
      BY <1>9, SMT DEF ReadTail, TypeOK, ReaderTyped, readerVars, Returns
    <2>2. SharedTyped'
      BY <1>9 DEF ReadTail, TypeOK, SharedTyped, semVars, flagVars
    <2>3. UNCHANGED <<bufVars, writerVars>>
      BY <1>9 DEF ReadTail
    <2> QED
      BY <2>1, <2>2, <2>3
         DEF TypeOK, BufferTyped, WriterTyped, bufVars, writerVars
  <1>10. CASE ReadReturns
    <2>1. ReaderTyped'
      BY <1>10, SMT DEF ReadReturns, TypeOK, ReaderTyped, readerVars, Returns
    <2>2. SharedTyped'
      BY <1>10 DEF ReadReturns, TypeOK, SharedTyped, semVars, flagVars
    <2>3. UNCHANGED <<bufVars, writerVars>>
      BY <1>10 DEF ReadReturns
    <2> QED
      BY <2>1, <2>2, <2>3
         DEF TypeOK, BufferTyped, WriterTyped, bufVars, writerVars
  <1>11. CASE StartWrite
    <2>1. WriterTyped'
      <3>1. wlen' \in 1..MaxLen /\ wtotal' = 0 /\ wpc' = "top" /\ wret' = "ok"
        BY <1>11 DEF StartWrite
      <3>2. \A m, n \in Nat : n \in 1..m => n \in 0..m /\ 0 \in 0..(m - n)
        BY SMT
      <3>3. MaxLen \in Nat /\ wlen' \in Nat /\ wlen' \in 1..MaxLen
        BY <3>1, SizesAssumption, SMT
      <3>4. wlen' \in 0..MaxLen /\ wtotal' \in 0..(MaxLen - wlen')
        BY <3>1, <3>2, <3>3
      <3> QED
        BY <3>1, <3>4 DEF WriterTyped, Returns
    <2>2. UNCHANGED <<bufVars, semVars, flagVars, readerVars, lock, cpc>>
      BY <1>11 DEF StartWrite
    <2> QED
      BY <2>1, <2>2
         DEF TypeOK, BufferTyped, SharedTyped, ReaderTyped, bufVars, semVars, flagVars, readerVars
  <1>12. CASE WriteNothing
    <2>1. WriterTyped'
      BY <1>12, SMT DEF WriteNothing, TypeOK, WriterTyped, writerVars, Returns
    <2>2. SharedTyped'
      BY <1>12 DEF WriteNothing, TypeOK, SharedTyped, semVars, flagVars
    <2>3. UNCHANGED <<bufVars, readerVars>>
      BY <1>12 DEF WriteNothing
    <2> QED
      BY <2>1, <2>2, <2>3
         DEF TypeOK, BufferTyped, ReaderTyped, bufVars, readerVars
  <1>13. CASE WriteFlags
    <2>1. WriterTyped'
      BY <1>13, SMT DEF WriteFlags, WriterTests, TypeOK, WriterTyped, writerVars, Returns
    <2>2. SharedTyped'
      BY <1>13 DEF WriteFlags, WriterTests, TypeOK, SharedTyped, semVars, flagVars
    <2>3. UNCHANGED <<bufVars, readerVars>>
      BY <1>13 DEF WriteFlags, WriterTests
    <2> QED
      BY <2>1, <2>2, <2>3
         DEF TypeOK, BufferTyped, ReaderTyped, bufVars, readerVars
  <1>14. CASE WriterGives
    <2>1. WriterTyped'
      BY <1>14, SMT DEF WriterGives, TypeOK, WriterTyped, writerVars, Returns
    <2>2. SharedTyped'
      BY <1>14 DEF WriterGives, TypeOK, SharedTyped, semVars, flagVars
    <2>3. UNCHANGED <<bufVars, readerVars>>
      BY <1>14 DEF WriterGives
    <2> QED
      BY <2>1, <2>2, <2>3
         DEF TypeOK, BufferTyped, ReaderTyped, bufVars, readerVars
  <1>15. CASE WriterWakes
    <2>1. WriterTyped'
      BY <1>15, SMT DEF WriterWakes, TypeOK, WriterTyped, writerVars, Returns
    <2>2. SharedTyped'
      BY <1>15 DEF WriterWakes, TypeOK, SharedTyped, semVars, flagVars
    <2>3. UNCHANGED <<bufVars, readerVars>>
      BY <1>15 DEF WriterWakes
    <2> QED
      BY <2>1, <2>2, <2>3
         DEF TypeOK, BufferTyped, ReaderTyped, bufVars, readerVars
  <1>16. CASE WriteTimeout
    <2>1. WriterTyped'
      BY <1>16, SMT DEF WriteTimeout, TypeOK, WriterTyped, writerVars, Returns
    <2>2. UNCHANGED <<bufVars, semVars, flagVars, readerVars, lock, cpc>>
      BY <1>16 DEF WriteTimeout
    <2> QED
      BY <2>1, <2>2
         DEF TypeOK, BufferTyped, SharedTyped, ReaderTyped, bufVars, semVars, flagVars, readerVars
  <1>17. CASE WriteTail
    <2>1. WriterTyped'
      BY <1>17, SMT DEF WriteTail, TypeOK, WriterTyped, writerVars, Returns
    <2>2. SharedTyped'
      BY <1>17 DEF WriteTail, TypeOK, SharedTyped, semVars, flagVars
    <2>3. UNCHANGED <<bufVars, readerVars>>
      BY <1>17 DEF WriteTail
    <2> QED
      BY <2>1, <2>2, <2>3
         DEF TypeOK, BufferTyped, ReaderTyped, bufVars, readerVars
  <1>18. CASE RbDoneWrite
    <2>1. SharedTyped'
      BY <1>18 DEF RbDoneWrite, TypeOK, SharedTyped, semVars, flagVars
    <2>2. UNCHANGED <<bufVars, readerVars, writerVars>>
      BY <1>18 DEF RbDoneWrite
    <2> QED
      BY <2>1, <2>2
         DEF TypeOK, BufferTyped, ReaderTyped, WriterTyped, bufVars, readerVars, writerVars
  <1>19. CASE RbUnblockReader
    <2>1. SharedTyped'
      BY <1>19 DEF RbUnblockReader, TypeOK, SharedTyped, semVars, flagVars
    <2>2. UNCHANGED <<bufVars, readerVars, writerVars>>
      BY <1>19 DEF RbUnblockReader
    <2> QED
      BY <2>1, <2>2
         DEF TypeOK, BufferTyped, ReaderTyped, WriterTyped, bufVars, readerVars, writerVars
  <1>20. CASE RbAbort
    <2>1. SharedTyped'
      BY <1>20 DEF RbAbort, TypeOK, SharedTyped, semVars, flagVars
    <2>2. UNCHANGED <<bufVars, readerVars, writerVars>>
      BY <1>20 DEF RbAbort
    <2> QED
      BY <2>1, <2>2
         DEF TypeOK, BufferTyped, ReaderTyped, WriterTyped, bufVars, readerVars, writerVars
  <1>21. CASE WakeReader
    <2>1. SharedTyped'
      BY <1>21 DEF WakeReader, TypeOK, SharedTyped, semVars, flagVars
    <2>2. UNCHANGED <<bufVars, readerVars, writerVars>>
      BY <1>21 DEF WakeReader
    <2> QED
      BY <2>1, <2>2
         DEF TypeOK, BufferTyped, ReaderTyped, WriterTyped, bufVars, readerVars, writerVars
  <1>22. CASE AbortWrite
    <2>1. SharedTyped'
      BY <1>22 DEF AbortWrite, TypeOK, SharedTyped, semVars, flagVars
    <2>2. UNCHANGED <<bufVars, readerVars, writerVars>>
      BY <1>22 DEF AbortWrite
    <2> QED
      BY <2>1, <2>2
         DEF TypeOK, BufferTyped, ReaderTyped, WriterTyped, bufVars, readerVars, writerVars
  <1>23. CASE WakeWriter
    <2>1. SharedTyped'
      BY <1>23 DEF WakeWriter, TypeOK, SharedTyped, semVars, flagVars
    <2>2. UNCHANGED <<bufVars, readerVars, writerVars>>
      BY <1>23 DEF WakeWriter
    <2> QED
      BY <2>1, <2>2
         DEF TypeOK, BufferTyped, ReaderTyped, WriterTyped, bufVars, readerVars, writerVars
  <1>24. CASE RbReset
    <2>1. BufferTyped'
      BY <1>24, SMT DEF RbReset, TypeOK, BufferTyped, bufVars
    <2>2. SharedTyped'
      BY <1>24 DEF RbReset, TypeOK, SharedTyped, semVars, flagVars
    <2>3. UNCHANGED <<readerVars, writerVars>>
      BY <1>24 DEF RbReset
    <2> QED
      BY <2>1, <2>2, <2>3
         DEF TypeOK, ReaderTyped, WriterTyped, readerVars, writerVars
  <1>25. CASE UNCHANGED vars
    BY <1>25 DEF vars, TypeOK, BufferTyped, SharedTyped, ReaderTyped,
       WriterTyped, bufVars, semVars, flagVars, readerVars, writerVars
  <1> QED
    BY <1>1, <1>2, <1>3, <1>4, <1>5, <1>6, <1>7, <1>8, <1>9, <1>10, <1>11,
       <1>12, <1>13, <1>14, <1>15, <1>16, <1>17, <1>18, <1>19, <1>20,
       <1>21, <1>22, <1>23, <1>24, <1>25
       DEF Next, ReadStep, WriteStep, ControlStep

(* Every variable of the ring buffer keeps its type (rb_read, rb_write and *)
(* the control calls), whatever the size and the lengths asked for.        *)
THEOREM TypeCorrect == Spec => []TypeOK
  BY TypeInit, TypeStep, PTL DEF Spec

-----------------------------------------------------------------------------
(* Slot i from p_r lies inside the data or, after it, i - fill_cnt beyond  *)
(* the place where the next write starts.                                  *)
LEMMA OffsetOfSlot ==
    ASSUME TypeOK, p_r + fill_cnt \in {p_w, p_w + SIZE},
           NEW i \in 0..(SIZE - 1)
    PROVE  OffsetInWrite(Slot(p_r + i)) =
             IF i < fill_cnt THEN i + SIZE - fill_cnt ELSE i - fill_cnt
  <1>1. /\ SIZE \in Nat \ {0} /\ i \in Nat /\ i < SIZE
        /\ p_r \in Nat /\ p_r <= SIZE
        /\ p_w \in Nat /\ p_w <= SIZE
        /\ fill_cnt \in Nat /\ fill_cnt <= SIZE
    BY SizesAssumption, SMT DEF TypeOK, BufferTyped
  <1>2. p_r + fill_cnt = p_w \/ p_r + fill_cnt = p_w + SIZE
    OBVIOUS
  <1> QED
    BY <1>1, <1>2, SMT DEF OffsetInWrite, Slot

LEMMA ConsistentInit == Init => Consistent
  BY SizesAssumption, SMT DEF Init, Consistent

(* A copy by the reader and a copy by the writer move one pointer and the  *)
(* count together; a reset moves all three; nothing else touches them.     *)
LEMMA ConsistentStep == TypeOK /\ Consistent /\ [Next]_vars => Consistent'
  <1> SUFFICES ASSUME TypeOK, Consistent, [Next]_vars PROVE Consistent'
    OBVIOUS
  <1>1. /\ SIZE \in Nat \ {0}
        /\ p_r \in Nat /\ p_r <= SIZE
        /\ p_w \in Nat /\ p_w <= SIZE
        /\ fill_cnt \in Nat /\ fill_cnt <= SIZE
        /\ next \in Nat /\ fill_cnt <= next
        /\ mem \in [0..(SIZE - 1) -> Nat]
    BY SizesAssumption, SMT DEF TypeOK, BufferTyped, Consistent
  <1>2. p_r + fill_cnt = p_w \/ p_r + fill_cnt = p_w + SIZE
    BY DEF Consistent
  <1>3. \A i \in 0..(SIZE - 1) :
           i < fill_cnt => mem[Slot(p_r + i)] = next - fill_cnt + i
    BY DEF Consistent
  <1>4. CASE ReadSome
    <2> DEFINE n == ReadSize
    <2>1. n \in Nat /\ n <= fill_cnt /\ n > 0
      BY <1>1, <1>4, ReadSizeBound, SMT DEF ReadSome
    <2>2. /\ p_r' = Advance(p_r, n) /\ fill_cnt' = fill_cnt - n
          /\ UNCHANGED <<mem, p_w, next>>
      BY <1>4 DEF ReadSome
    <2> HIDE DEF n
    <2>3. p_r' + fill_cnt' \in {p_w', p_w' + SIZE} /\ fill_cnt' <= next'
      BY <1>1, <1>2, <2>1, <2>2, SMT DEF Advance
    <2>4. ASSUME NEW i \in 0..(SIZE - 1), i < fill_cnt'
          PROVE  mem'[Slot(p_r' + i)] = next' - fill_cnt' + i
      <3>1. /\ i + n \in 0..(SIZE - 1) /\ i + n < fill_cnt
            /\ Slot(p_r' + i) = Slot(p_r + (i + n))
        BY <1>1, <1>2, <2>1, <2>2, <2>4, SMT DEF Advance, Slot
      <3>2. mem[Slot(p_r + (i + n))] = next - fill_cnt + (i + n)
        BY <1>3, <3>1
      <3>3. next - fill_cnt + (i + n) = next' - fill_cnt' + i
        BY <1>1, <2>1, <2>2, SMT
      <3> QED
        BY <2>2, <3>1, <3>2, <3>3
    <2> QED
      BY <2>3, <2>4 DEF Consistent
  <1>5. CASE WriteSome
    <2> DEFINE n == WriteSize
    <2>1. n \in Nat /\ n <= SIZE - fill_cnt /\ n > 0
      BY <1>1, <1>5, WriteSizeBound, SMT DEF WriteSome
    <2>2. /\ p_w' = Advance(p_w, n) /\ fill_cnt' = fill_cnt + n
          /\ next' = next + n /\ UNCHANGED p_r
      BY <1>5 DEF WriteSome
    <2>3. \A s \in 0..(SIZE - 1) :
             mem'[s] = IF OffsetInWrite(s) < n THEN next + OffsetInWrite(s)
                                               ELSE mem[s]
      BY <1>5 DEF WriteSome
    <2> HIDE DEF n
    <2>4. p_r' + fill_cnt' \in {p_w', p_w' + SIZE} /\ fill_cnt' <= next'
      BY <1>1, <1>2, <2>1, <2>2, SMT DEF Advance
    <2>5. ASSUME NEW i \in 0..(SIZE - 1), i < fill_cnt'
          PROVE  mem'[Slot(p_r' + i)] = next' - fill_cnt' + i
      <3> DEFINE s == Slot(p_r + i)
                 o == OffsetInWrite(s)
      <3>1. s \in 0..(SIZE - 1)
        <4>1. p_r + i \in 0..(2 * SIZE - 1)
          BY <1>1, SMT
        <4> QED
          BY <4>1, SlotRange
      <3>2. o = IF i < fill_cnt THEN i + SIZE - fill_cnt ELSE i - fill_cnt
        BY OffsetOfSlot DEF Consistent
      <3>3. mem'[s] = IF o < n THEN next + o ELSE mem[s]
        BY <2>3, <3>1
      <3>4. i < fill_cnt => mem[s] = next - fill_cnt + i
        BY <1>3
      <3> HIDE DEF o, s
      <3>5. mem'[s] = next' - fill_cnt' + i
        BY <1>1, <2>1, <2>2, <2>5, <3>2, <3>3, <3>4, SMT
      <3> QED
        BY <2>2, <3>5 DEF s
    <2> QED
      BY <2>4, <2>5 DEF Consistent
  <1>6. CASE RbReset
    <2>1. p_r' = 0 /\ p_w' = 0 /\ fill_cnt' = 0 /\ next' = next
      BY <1>6 DEF RbReset
    <2> QED
      BY <1>1, <2>1, SMT DEF Consistent
  <1>7. CASE UNCHANGED <<mem, p_r, p_w, fill_cnt, next>>
    BY <1>7 DEF Consistent
  <1> QED
    BY <1>4, <1>5, <1>6, <1>7
       DEF Next, ReadStep, WriteStep, ControlStep, vars, bufVars, StartRead,
           ReadNothing, ReadFlags, ReaderTests, ReaderGives, ReaderWakes,
           ReadTimeout, ReadTail, ReadReturns, StartWrite, WriteNothing,
           WriteFlags, WriterTests, WriterGives, WriterWakes, WriteTimeout,
           WriteTail, RbDoneWrite, RbUnblockReader, RbAbort, WakeReader,
           AbortWrite, WakeWriter

(* p_r, p_w and fill_cnt, moved by different tasks, agree through every    *)
(* wrap-around, and the buffer holds the last fill_cnt bytes written, for  *)
(* every size and every length of a read or a write.                       *)
THEOREM ConsistentCorrect == Spec => []Consistent
  BY TypeInit, TypeStep, ConsistentInit, ConsistentStep, PTL DEF Spec

(* Whichever of reader and writer falls asleep last has given the other's  *)
(* semaphore, and only the other takes it, waking up.                      *)
LEMMA AsleepStep == NotBothAsleep /\ [Next]_vars => NotBothAsleep'
  <1> SUFFICES ASSUME NotBothAsleep, [Next]_vars PROVE NotBothAsleep'
    OBVIOUS
  <1>1. CASE ReadStep \/ WriteStep
    BY <1>1
       DEF ReadStep, WriteStep, NotBothAsleep, semVars, readerVars, writerVars,
           ReadSome, ReadNothing, ReadFlags, ReaderTests, ReaderGives,
           ReaderWakes, ReadTail, ReadReturns, WriteSome, WriteNothing,
           WriteFlags, WriterTests, WriterGives, WriterWakes, WriteTail
  <1>2. CASE StartRead \/ ReadTimeout \/ StartWrite \/ WriteTimeout
    BY <1>2
       DEF NotBothAsleep, semVars, readerVars, writerVars,
           StartRead, ReadTimeout, StartWrite, WriteTimeout
  <1>3. CASE RbDoneWrite \/ RbUnblockReader \/ RbAbort \/ RbReset \/ ControlStep
    BY <1>3
       DEF ControlStep, NotBothAsleep, semVars, readerVars, writerVars,
           RbDoneWrite, RbUnblockReader, RbAbort, RbReset, WakeReader,
           AbortWrite, WakeWriter
  <1>4. CASE UNCHANGED vars
    BY <1>4 DEF vars, NotBothAsleep, semVars, readerVars, writerVars
  <1> QED
    BY <1>1, <1>2, <1>3, <1>4 DEF Next

(* Reader and writer of the ring buffer are never both asleep with no      *)
(* semaphore given (rb_read and rb_write waiting for each other).          *)
THEOREM NotBothAsleepCorrect == Spec => []NotBothAsleep
  <1>1. Init => NotBothAsleep
    BY DEF Init, NotBothAsleep
  <1> QED
    BY <1>1, AsleepStep, PTL DEF Spec

(* Where rb_read and rb_write keep the mutex while they look at the flags, *)
(* and what rb_read has found by then.                                     *)
FlagsUnderLock ==
    /\ rpc \in {"top", "done", "abort", "unblock", "give", "wait"} => rlen > 0
    /\ rpc \in {"done", "abort", "unblock"} =>
          lock = "reader" /\ fill_cnt < rlen /\ fill_cnt < WORD
    /\ wpc \in {"done", "abort"} => lock = "writer"

(* What is less than a word rounds down to nothing, and nothing else does. *)
LEMMA WholeZero ==
    ASSUME NEW n \in Nat, Whole(n) = 0 PROVE n < WORD
  <1>1. n = n % WORD
    BY SizesAssumption, SMT DEF Whole
  <1>2. n % WORD < WORD
    BY SizesAssumption, SMT
  <1> QED
    BY <1>1, <1>2

(* Every step keeps FlagsUnderLock: between the mutex taken and the last   *)
(* flag nobody else copies.                                                *)
LEMMA FlagsStep == TypeOK /\ FlagsUnderLock /\ [Next]_vars => FlagsUnderLock'
  <1> SUFFICES ASSUME TypeOK, FlagsUnderLock, [Next]_vars PROVE FlagsUnderLock'
    OBVIOUS
  <1>0. rlen \in Nat /\ fill_cnt \in Nat
    BY SizesAssumption, SMT DEF TypeOK, BufferTyped, ReaderTyped, WriterTyped
  <1>1. CASE ReadSome
    <2>1. ReadSize \in 0..rlen
      BY ReadSizeBound
    <2> QED
      BY <1>0, <1>1, <2>1, SMT DEF ReadSome, FlagsUnderLock, writerVars
  <1>2. CASE ReadNothing
    <2>1. rlen > 0 /\ ReadSize = 0
      BY <1>2 DEF ReadNothing, FlagsUnderLock
    <2>2. fill_cnt < rlen
      BY <1>0, <2>1, SMT DEF ReadSize
    <2>3. Whole(fill_cnt) = 0
      BY <2>1, <2>2, WholeBound, <1>0, SMT DEF ReadSize
    <2> QED
      BY <1>0, <1>2, <2>1, <2>2, <2>3, WholeZero
         DEF ReadNothing, FlagsUnderLock, bufVars, writerVars
  <1>3. CASE ReadFlags \/ ReaderGives \/ ReaderWakes \/ ReadTail \/ ReadReturns
    BY <1>3
       DEF ReadFlags, ReaderTests, ReaderGives, ReaderWakes, ReadTail, ReadReturns,
           FlagsUnderLock, bufVars, writerVars
  <1>4. CASE WriteStep
    BY <1>4
       DEF WriteStep, WriteSome, WriteNothing, WriteFlags, WriterTests, WriterGives,
           WriterWakes, WriteTail, FlagsUnderLock, bufVars, readerVars
  <1>5. CASE StartRead
    <2>1. rlen' > 0 /\ rpc' = "top"
      BY <1>5, SizesAssumption, SMT DEF StartRead
    <2> QED
      BY <1>5, <2>1 DEF StartRead, FlagsUnderLock, bufVars, writerVars
  <1>6. CASE ReadTimeout \/ StartWrite \/ WriteTimeout
    BY <1>6
       DEF ReadTimeout, StartWrite, WriteTimeout, FlagsUnderLock, bufVars,
           readerVars, writerVars
  <1>7. CASE RbDoneWrite \/ RbUnblockReader \/ RbAbort \/ RbReset \/ ControlStep
    BY <1>7
       DEF ControlStep, RbDoneWrite, RbUnblockReader, RbAbort, RbReset, WakeReader,
           AbortWrite, WakeWriter, FlagsUnderLock, bufVars, readerVars, writerVars
  <1>8. CASE UNCHANGED vars
    BY <1>8 DEF vars, FlagsUnderLock, bufVars, readerVars, writerVars
  <1> QED
    BY <1>1, <1>2, <1>3, <1>4, <1>5, <1>6, <1>7, <1>8 DEF Next, ReadStep

(* rb_read reports the end or an abort only with less than a word, and     *)
(* less than it still wants, in the buffer.                                *)
THEOREM EndWhenDrainedCorrect == Spec => EndWhenDrained
  <1>1. Init => FlagsUnderLock
    BY DEF Init, FlagsUnderLock
  <1>2. ASSUME FlagsUnderLock, [Next]_vars, rret = "ok", rret' \in {"done", "abort"}
        PROVE  fill_cnt < rlen /\ fill_cnt < WORD
    <2>1. CASE ReadFlags
      BY <1>2, <2>1 DEF ReadFlags, ReaderTests, FlagsUnderLock
    <2>2. CASE ReadSome \/ ReadNothing \/ ReaderGives \/ ReaderWakes \/ ReadTail
                 \/ ReadReturns \/ ReadTimeout \/ StartRead
      BY <1>2, <2>2
         DEF ReadSome, ReadNothing, ReaderGives, ReaderWakes, ReadTail, ReadReturns,
             ReadTimeout, StartRead
    <2>3. CASE WriteStep \/ StartWrite \/ WriteTimeout
      BY <1>2, <2>3
         DEF WriteStep, WriteSome, WriteNothing, WriteFlags, WriterTests, WriterGives,
             WriterWakes, WriteTail, StartWrite, WriteTimeout, readerVars
    <2>4. CASE RbDoneWrite \/ RbUnblockReader \/ RbAbort \/ RbReset \/ ControlStep
      BY <1>2, <2>4
         DEF ControlStep, RbDoneWrite, RbUnblockReader, RbAbort, RbReset, WakeReader,
             AbortWrite, WakeWriter, readerVars
    <2>5. CASE UNCHANGED vars
      BY <1>2, <2>5 DEF vars, readerVars
    <2> QED
      BY <1>2, <2>1, <2>2, <2>3, <2>4, <2>5 DEF Next, ReadStep
  <1> QED
    BY <1>1, <1>2, FlagsStep, TypeInit, TypeStep, PTL DEF Spec, EndWhenDrained

-----------------------------------------------------------------------------
(* The bytes are numbered, so what the queue holds is a run of numbers.    *)
Numbers(a, k) == [i \in 1..k |-> a + i - 1]

LEMMA NumbersSeq ==
    ASSUME NEW a \in Int, NEW k \in Nat
    PROVE  /\ Numbers(a, k) \in Seq(Int)
           /\ Len(Numbers(a, k)) = k
           /\ \A i \in 1..k : Numbers(a, k)[i] = a + i - 1
  BY SMT DEF Numbers

(* Runs that follow one another join.                                      *)
LEMMA NumbersJoin ==
    ASSUME NEW a \in Int, NEW k \in Nat, NEW m \in Nat
    PROVE  Numbers(a, k) \o Numbers(a + k, m) = Numbers(a, k + m)
  <1> DEFINE s == Numbers(a, k)
             t == Numbers(a + k, m)
             u == Numbers(a, k + m)
  <1>1. /\ s \in Seq(Int) /\ Len(s) = k
        /\ \A i \in 1..k : s[i] = a + i - 1
    BY NumbersSeq
  <1>2. /\ t \in Seq(Int) /\ Len(t) = m
        /\ \A i \in 1..m : t[i] = (a + k) + i - 1
    <2>1. a + k \in Int
      OBVIOUS
    <2> QED
      BY <2>1, NumbersSeq
  <1>3. /\ u \in Seq(Int) /\ Len(u) = k + m
        /\ \A i \in 1..(k + m) : u[i] = a + i - 1
    <2>1. k + m \in Nat
      OBVIOUS
    <2> QED
      BY <2>1, NumbersSeq
  <1> HIDE DEF s, t, u
  <1>4. /\ s \o t \in Seq(Int) /\ Len(s \o t) = Len(s) + Len(t)
        /\ \A i \in 1..(Len(s) + Len(t)) :
              (s \o t)[i] = IF i <= Len(s) THEN s[i] ELSE t[i - Len(s)]
    BY <1>1, <1>2, ConcatProperties
  <1>5. ASSUME NEW i \in 1..(k + m) PROVE (s \o t)[i] = u[i]
    <2>1. (s \o t)[i] = IF i <= k THEN s[i] ELSE t[i - k]
      BY <1>1, <1>2, <1>4
    <2>2. i <= k => s[i] = a + i - 1
      BY <1>1
    <2>3. ~(i <= k) => t[i - k] = a + i - 1
      <3>1. ~(i <= k) => i - k \in 1..m /\ (a + k) + (i - k) - 1 = a + i - 1
        OBVIOUS
      <3> QED
        BY <1>2, <3>1
    <2> QED
      BY <1>3, <2>1, <2>2, <2>3
  <1>6. Len(s \o t) = k + m
    BY <1>1, <1>2, <1>4
  <1>7. s \o t = u
    BY <1>3, <1>4, <1>5, <1>6, SeqEqual
  <1> QED
    BY <1>7 DEF s, t, u

(* The first n of a run, and the rest of it, are runs.                     *)
LEMMA NumbersSplit ==
    ASSUME NEW a \in Int, NEW k \in Nat, NEW n \in 0..k
    PROVE  /\ SubSeq(Numbers(a, k), 1, n) = Numbers(a, n)
           /\ SubSeq(Numbers(a, k), n + 1, k) = Numbers(a + n, k - n)
  <1> DEFINE s == Numbers(a, k)
  <1>1. /\ s \in Seq(Int) /\ Len(s) = k
        /\ \A i \in 1..k : s[i] = a + i - 1 /\ s[i] \in Int
    BY NumbersSeq
  <1>2. /\ Numbers(a, n) \in Seq(Int) /\ Len(Numbers(a, n)) = n
        /\ \A i \in 1..n : Numbers(a, n)[i] = a + i - 1
    <2>1. n \in Nat
      OBVIOUS
    <2> QED
      BY <2>1, NumbersSeq
  <1> DEFINE r == Numbers(a + n, k - n)
  <1>3. /\ r \in Seq(Int) /\ Len(r) = k - n
        /\ \A i \in 1..(k - n) : r[i] = (a + n) + i - 1
    <2>1. a + n \in Int /\ k - n \in Nat
      OBVIOUS
    <2> QED
      BY <2>1, NumbersSeq
  <1> HIDE DEF s, r
  <1>4. SubSeq(s, 1, n) = Numbers(a, n)
    <2>1. /\ SubSeq(s, 1, n) \in Seq(Int)
          /\ Len(SubSeq(s, 1, n)) = IF 1 <= n THEN n - 1 + 1 ELSE 0
          /\ \A i \in 1..(n - 1 + 1) : SubSeq(s, 1, n)[i] = s[1 + i - 1]
      <3>1. \A i \in 1..n : s[i] \in Int
        BY <1>1
      <3> QED
        BY <3>1, SubSeqProperties
    <2>2. Len(SubSeq(s, 1, n)) = n
      BY <2>1
    <2>3. \A i \in 1..n : SubSeq(s, 1, n)[i] = Numbers(a, n)[i]
      BY <1>1, <1>2, <2>1
    <2> QED
      BY <1>2, <2>1, <2>2, <2>3, SeqEqual
  <1>5. SubSeq(s, n + 1, k) = r
    <2>1. /\ SubSeq(s, n + 1, k) \in Seq(Int)
          /\ Len(SubSeq(s, n + 1, k)) = IF n + 1 <= k THEN k - (n + 1) + 1 ELSE 0
          /\ \A i \in 1..(k - (n + 1) + 1) :
                SubSeq(s, n + 1, k)[i] = s[(n + 1) + i - 1]
      <3>1. \A i \in (n + 1)..k : s[i] \in Int
        BY <1>1
      <3>2. n + 1 \in Int /\ k \in Int
        OBVIOUS
      <3> QED
        BY <3>1, <3>2, SubSeqProperties
    <2>2. Len(SubSeq(s, n + 1, k)) = k - n
      BY <2>1
    <2>3. ASSUME NEW i \in 1..(k - n) PROVE SubSeq(s, n + 1, k)[i] = r[i]
      <3>1. i \in 1..(k - (n + 1) + 1) /\ (n + 1) + i - 1 \in 1..k
        OBVIOUS
      <3>2. SubSeq(s, n + 1, k)[i] = s[(n + 1) + i - 1]
        BY <2>1, <3>1
      <3>3. s[(n + 1) + i - 1] = a + ((n + 1) + i - 1) - 1
        BY <1>1, <3>1
      <3>4. r[i] = (a + n) + i - 1
        BY <1>3
      <3>5. a + ((n + 1) + i - 1) - 1 = (a + n) + i - 1
        OBVIOUS
      <3> QED
        BY <3>2, <3>3, <3>4, <3>5
    <2> QED
      BY <1>3, <2>1, <2>2, <2>3, SeqEqual
  <1> QED
    BY <1>4, <1>5 DEF s, r

(* When pointers, count and contents agree, the bytes inside are the last  *)
(* fill_cnt written.                                                       *)
LEMMA ContentsAre ==
    ASSUME TypeOK, Consistent
    PROVE  Contents = Numbers(next - fill_cnt, fill_cnt)
  <1>1. /\ SIZE \in Nat /\ fill_cnt \in Nat /\ fill_cnt <= SIZE
        /\ p_r \in Nat /\ next \in Nat
    BY SizesAssumption, SMT DEF TypeOK, BufferTyped
  <1>2. ASSUME NEW i \in 1..fill_cnt
        PROVE  mem[Slot(p_r + i - 1)] = next - fill_cnt + i - 1
    <2>1. i - 1 \in 0..(SIZE - 1) /\ i - 1 < fill_cnt /\ p_r + (i - 1) = p_r + i - 1
      BY <1>1, SMT
    <2>2. mem[Slot(p_r + (i - 1))] = next - fill_cnt + (i - 1)
      BY <2>1 DEF Consistent
    <2>3. next - fill_cnt + (i - 1) = next - fill_cnt + i - 1
      BY <1>1, SMT
    <2> QED
      BY <2>1, <2>2, <2>3
  <1> QED
    BY <1>2, Zenon DEF Contents, Numbers

LEMMA ContentsArePrime ==
    ASSUME TypeOK', Consistent'
    PROVE  Contents' = Numbers(next' - fill_cnt', fill_cnt')
  <1>1. /\ SIZE \in Nat /\ fill_cnt' \in Nat /\ fill_cnt' <= SIZE
        /\ p_r' \in Nat /\ next' \in Nat
    BY SizesAssumption, SMT DEF TypeOK, BufferTyped
  <1>2. ASSUME NEW i \in 1..fill_cnt'
        PROVE  mem'[Slot(p_r' + i - 1)] = next' - fill_cnt' + i - 1
    <2>1. /\ i - 1 \in 0..(SIZE - 1) /\ i - 1 < fill_cnt'
          /\ p_r' + (i - 1) = p_r' + i - 1
      BY <1>1, SMT
    <2>2. mem'[Slot(p_r' + (i - 1))] = next' - fill_cnt' + (i - 1)
      BY <2>1 DEF Consistent
    <2>3. next' - fill_cnt' + (i - 1) = next' - fill_cnt' + i - 1
      BY <1>1, SMT
    <2> QED
      BY <2>1, <2>2, <2>3
  <1> QED
    BY <1>2, Zenon DEF Contents, Numbers

(* A copy by the writer puts, a copy by the reader gets, a reset clears;   *)
(* every other step leaves the queue alone.                                *)
LEMMA QueueStep ==
    ASSUME TypeOK, Consistent, TypeOK', Consistent', [Next]_vars
    PROVE  [Queue!QNext]_(Queue!qvars)
  <1>1. /\ SIZE \in Nat /\ fill_cnt \in Nat /\ fill_cnt <= SIZE
        /\ next \in Nat /\ fill_cnt <= next
    BY SizesAssumption, SMT DEF TypeOK, BufferTyped, Consistent
  <1>2. /\ Contents = Numbers(next - fill_cnt, fill_cnt)
        /\ Contents' = Numbers(next' - fill_cnt', fill_cnt')
    BY ContentsAre, ContentsArePrime
  <1>3. Len(Contents) = fill_cnt
    <2>1. next - fill_cnt \in Int
      BY <1>1, SMT
    <2> QED
      BY <1>1, <1>2, <2>1, NumbersSeq
  <1>4. CASE WriteSome
    <2> DEFINE n == WriteSize
    <2>1. n \in 1..SIZE /\ fill_cnt + n <= SIZE
      BY <1>1, <1>4, WriteSizeBound, SMT DEF WriteSome
    <2>2. fill_cnt' = fill_cnt + n /\ next' = next + n /\ chunk' = chunk
      BY <1>4 DEF WriteSome
    <2> HIDE DEF n
    <2>3. Contents' = Contents \o Numbers(next, n)
      <3>1. /\ next - fill_cnt \in Int /\ n \in Nat
            /\ (next - fill_cnt) + fill_cnt = next
            /\ next' - fill_cnt' = next - fill_cnt
        BY <1>1, <2>1, <2>2, SMT
      <3>2. Numbers(next - fill_cnt, fill_cnt) \o Numbers((next - fill_cnt) + fill_cnt, n)
              = Numbers(next - fill_cnt, fill_cnt + n)
        BY <1>1, <3>1, NumbersJoin
      <3> QED
        BY <1>2, <2>2, <3>1, <3>2
    <2>4. Queue!Put(n)
      BY <1>3, <2>1, <2>2, <2>3, Zenon DEF Queue!Put, Numbers
    <2> QED
      BY <2>1, <2>4 DEF Queue!QNext
  <1>5. CASE ReadSome
    <2> DEFINE n == ReadSize
    <2>1. n \in 1..SIZE /\ n <= fill_cnt /\ n \in 0..fill_cnt
      BY <1>1, <1>5, ReadSizeBound, SMT DEF ReadSome
    <2>2. /\ fill_cnt' = fill_cnt - n /\ next' = next
          /\ chunk' = [i \in 1..n |-> mem[Slot(p_r + i - 1)]]
      BY <1>5 DEF ReadSome
    <2> HIDE DEF n
    <2>3. /\ SubSeq(Contents, 1, n) = Numbers(next - fill_cnt, n)
          /\ SubSeq(Contents, n + 1, fill_cnt)
               = Numbers((next - fill_cnt) + n, fill_cnt - n)
      <3>1. next - fill_cnt \in Int
        BY <1>1, SMT
      <3> QED
        BY <1>1, <1>2, <2>1, <3>1, NumbersSplit
    <2>4. chunk' = SubSeq(Contents, 1, n)
      <3>1. ASSUME NEW i \in 1..n
            PROVE  mem[Slot(p_r + i - 1)] = next - fill_cnt + i - 1
        <4>1. i \in 1..fill_cnt
          BY <1>1, <2>1, SMT
        <4>2. Contents[i] = mem[Slot(p_r + i - 1)]
          BY <4>1 DEF Contents
        <4>3. Numbers(next - fill_cnt, fill_cnt)[i] = next - fill_cnt + i - 1
          BY <4>1 DEF Numbers
        <4> QED
          BY <1>2, <4>2, <4>3
      <3>2. chunk' = Numbers(next - fill_cnt, n)
        BY <2>2, <3>1, Zenon DEF Numbers
      <3> QED
        BY <2>3, <3>2
    <2>5. Contents' = SubSeq(Contents, n + 1, Len(Contents))
      <3>1. (next - fill_cnt) + n = next' - fill_cnt'
        BY <1>1, <2>1, <2>2, SMT
      <3> QED
        BY <1>2, <1>3, <2>2, <2>3, <3>1
    <2>6. Queue!Get(n)
      BY <1>3, <2>1, <2>2, <2>4, <2>5 DEF Queue!Get
    <2> QED
      BY <2>1, <2>6 DEF Queue!QNext
  <1>6. CASE RbReset
    <2>1. fill_cnt' = 0 /\ next' = next /\ chunk' = chunk
      BY <1>6 DEF RbReset
    <2>2. Contents' = << >>
      BY <2>1, SMT DEF Contents
    <2> QED
      BY <2>1, <2>2 DEF Queue!QNext, Queue!Clear
  <1>7. CASE UNCHANGED bufVars
    BY <1>7 DEF bufVars, Contents, Queue!qvars
  <1> QED
    BY <1>4, <1>5, <1>6, <1>7
       DEF Next, ReadStep, WriteStep, ControlStep, vars, StartRead,
           ReadNothing, ReadFlags, ReaderTests, ReaderGives, ReaderWakes,
           ReadTimeout, ReadTail, ReadReturns, StartWrite, WriteNothing,
           WriteFlags, WriterTests, WriterGives, WriterWakes, WriteTimeout,
           WriteTail, RbDoneWrite, RbUnblockReader, RbAbort, WakeReader,
           AbortWrite, WakeWriter

(* The ring buffer implements the byte queue: what rb_read returns is what *)
(* rb_write put in, in order, each byte once, for every size of the buffer *)
(* and every length of a read or a write.                                  *)
THEOREM QueueImplemented == Spec => ImplementsQueue
  <1>1. Init => Queue!QInit
    <2> SUFFICES ASSUME Init PROVE Queue!QInit
      OBVIOUS
    <2>1. fill_cnt = 0 /\ next = 0 /\ chunk = << >>
      BY DEF Init
    <2>2. Contents = << >>
      BY <2>1, SMT DEF Contents
    <2> QED
      BY <2>1, <2>2 DEF Queue!QInit
  <1> QED
    BY <1>1, TypeInit, TypeStep, ConsistentInit, ConsistentStep, QueueStep, PTL
       DEF Spec, ImplementsQueue, Queue!QSpec


-----------------------------------------------------------------------------
(* While the mutex is the writer's the buffer is full, and a writer goes to*)
(* sleep only with something left to write.                                *)
FullUnderLock ==
    /\ wpc \in {"top", "done", "abort", "give", "wait"} => wlen > 0
    /\ wpc \in {"done", "abort"} => lock = "writer" /\ fill_cnt = SIZE

LEMMA FullStep ==
    TypeOK /\ FlagsUnderLock /\ FullUnderLock /\ [Next]_vars => FullUnderLock'
  <1> SUFFICES ASSUME TypeOK, FlagsUnderLock, FullUnderLock, [Next]_vars
               PROVE  FullUnderLock'
    OBVIOUS
  <1>0. wlen \in Nat /\ fill_cnt \in Nat /\ fill_cnt <= SIZE /\ SIZE \in Nat
    BY SizesAssumption, SMT DEF TypeOK, BufferTyped, WriterTyped
  <1>1. CASE WriteSome
    <2>1. WriteSize \in 0..wlen
      BY WriteSizeBound
    <2> QED
      BY <1>0, <1>1, <2>1, SMT DEF WriteSome, FullUnderLock, readerVars
  <1>2. CASE WriteNothing
    <2>1. wlen > 0 /\ WriteSize = 0
      BY <1>2 DEF WriteNothing, FullUnderLock
    <2>2. fill_cnt = SIZE
      BY <1>0, <2>1, SMT DEF WriteSize
    <2> QED
      BY <1>2, <2>1, <2>2 DEF WriteNothing, FullUnderLock, bufVars, readerVars
  <1>3. CASE WriteFlags \/ WriterGives \/ WriterWakes \/ WriteTail
    BY <1>3
       DEF WriteFlags, WriterTests, WriterGives, WriterWakes, WriteTail,
           FullUnderLock, bufVars, readerVars
  <1>4. CASE ReadStep
    BY <1>4
       DEF ReadStep, ReadSome, ReadNothing, ReadFlags, ReaderTests, ReaderGives,
           ReaderWakes, ReadTail, ReadReturns, FlagsUnderLock, FullUnderLock,
           bufVars, writerVars
  <1>5. CASE StartWrite
    <2>1. wlen' > 0 /\ wpc' = "top"
      BY <1>5, SizesAssumption, SMT DEF StartWrite
    <2> QED
      BY <1>5, <2>1 DEF StartWrite, FullUnderLock, bufVars, readerVars
  <1>6. CASE WriteTimeout \/ StartRead \/ ReadTimeout
    BY <1>6
       DEF WriteTimeout, StartRead, ReadTimeout, FullUnderLock, bufVars,
           readerVars, writerVars
  <1>7. CASE RbDoneWrite \/ RbUnblockReader \/ RbAbort \/ RbReset \/ ControlStep
    BY <1>7
       DEF ControlStep, RbDoneWrite, RbUnblockReader, RbAbort, RbReset, WakeReader,
           AbortWrite, WakeWriter, FullUnderLock, bufVars, readerVars, writerVars
  <1>8. CASE UNCHANGED vars
    BY <1>8 DEF vars, FullUnderLock, bufVars, readerVars, writerVars
  <1> QED
    BY <1>1, <1>2, <1>3, <1>4, <1>5, <1>6, <1>7, <1>8 DEF Next, WriteStep

(* What a reader that has made up its mind to sleep is owed: for each thing*)
(* it has already looked at, and that came true afterwards, the semaphore, *)
(* or the task that is about to give it.                                   *)
DataAgenda ==
    (rpc \in {"give", "wait"} /\ (fill_cnt >= rlen \/ fill_cnt >= WORD)) =>
        can_read \/ (wtotal > 0 /\ wpc \notin {"idle", "wait"})

FlagAgenda ==
    /\ (rpc \in {"abort", "unblock", "give", "wait"} /\ is_done_write) =>
          can_read \/ cpc = "wake"
    /\ (rpc \in {"unblock", "give", "wait"} /\ abort_read) =>
          can_read \/ cpc = "wake_reader"
    /\ (rpc \in {"give", "wait"} /\ unblock_reader_flag) =>
          can_read \/ cpc = "wake"

(* The same for a writer.                                                  *)
RoomAgenda ==
    (wpc \in {"give", "wait"} /\ fill_cnt < SIZE) =>
        can_write \/ (rtotal > 0 /\ rpc \notin {"idle", "wait", "clear"})

AbortAgenda ==
    (wpc \in {"give", "wait"} /\ abort_write) => can_write \/ cpc = "wake_writer"

(* Data that comes after the reader has looked was put there by a writer   *)
(* that gives can_read on its way out or before it sleeps.                 *)
LEMMA DataStep ==
    TypeOK /\ FlagsUnderLock /\ DataAgenda /\ [Next]_vars => DataAgenda'
  <1> SUFFICES ASSUME TypeOK, FlagsUnderLock, DataAgenda, [Next]_vars
               PROVE  DataAgenda'
    OBVIOUS
  <1>0. /\ fill_cnt \in Nat /\ rlen \in Nat /\ wtotal \in Nat
        /\ WORD \in Nat /\ SIZE \in Nat
    BY SizesAssumption, SMT DEF TypeOK, BufferTyped, ReaderTyped, WriterTyped
  <1>1. CASE WriteSome
    <2>1. WriteSize \in 0..wlen /\ WriteSize > 0 /\ wlen \in Nat
      BY <1>1, WriteSizeBound, SMT DEF WriteSome, TypeOK, WriterTyped
    <2>2. wtotal' = wtotal + WriteSize /\ wpc' \in {"tail", "top"}
      BY <1>1 DEF WriteSome
    <2>3. wtotal' > 0
      BY <1>0, <2>1, <2>2, SMT
    <2> QED
      BY <2>2, <2>3 DEF DataAgenda
  <1>2. CASE ReadFlags
    <2>1. CASE rpc \in {"done", "abort", "unblock"}
      <3>1. ~(fill_cnt' >= rlen' \/ fill_cnt' >= WORD)
        <4>1. fill_cnt' = fill_cnt /\ rlen' = rlen
          BY <1>2 DEF ReadFlags, ReaderTests, bufVars
        <4>2. fill_cnt < rlen /\ fill_cnt < WORD
          BY <2>1 DEF FlagsUnderLock
        <4> QED
          BY <1>0, <4>1, <4>2, SMT
      <3> QED
        BY <3>1 DEF DataAgenda
    <2> QED
      BY <1>2, <2>1 DEF ReadFlags, ReaderTests
  <1>3. CASE ReadSome \/ ReadNothing \/ ReaderWakes \/ ReadTail \/ ReadReturns
             \/ StartRead \/ ReadTimeout
    <2>1. rpc' \notin {"give", "wait"}
      BY <1>3
         DEF ReadSome, ReadNothing, ReaderWakes, ReadTail, ReadReturns, StartRead,
             ReadTimeout
    <2> QED
      BY <2>1 DEF DataAgenda
  <1>4. CASE ReaderGives
    BY <1>4 DEF ReaderGives, DataAgenda, bufVars, writerVars
  <1>5. CASE WriteNothing \/ WriteFlags \/ WriterGives \/ WriterWakes
             \/ StartWrite \/ WriteTimeout
    BY <1>5
       DEF WriteNothing, WriteFlags, WriterTests, WriterGives, WriterWakes,
           StartWrite, WriteTimeout, DataAgenda, bufVars, semVars, readerVars
  <1>6. CASE WriteTail
    BY <1>6 DEF WriteTail, DataAgenda, bufVars, readerVars
  <1>7. CASE RbDoneWrite \/ RbUnblockReader \/ RbAbort \/ ControlStep
    BY <1>7
       DEF ControlStep, RbDoneWrite, RbUnblockReader, RbAbort, WakeReader,
           AbortWrite, WakeWriter, DataAgenda, bufVars, semVars, readerVars,
           writerVars
  <1>8. CASE RbReset
    BY <1>8 DEF RbReset, DataAgenda, readerVars
  <1>9. CASE UNCHANGED vars
    BY <1>9 DEF vars, DataAgenda, bufVars, semVars, readerVars, writerVars
  <1> QED
    BY <1>1, <1>2, <1>3, <1>4, <1>5, <1>6, <1>7, <1>8, <1>9
       DEF Next, ReadStep, WriteStep

(* A flag set after the reader has tested it is followed by can_read from  *)
(* the task that set it.                                                   *)
LEMMA FlagStep == FlagAgenda /\ [Next]_vars => FlagAgenda'
  <1> SUFFICES ASSUME FlagAgenda, [Next]_vars PROVE FlagAgenda'
    OBVIOUS
  <1>1. CASE ReadFlags
    BY <1>1 DEF ReadFlags, ReaderTests, FlagAgenda, semVars, flagVars
  <1>2. CASE ReadSome \/ ReadNothing \/ ReaderWakes \/ ReadTail \/ ReadReturns
             \/ StartRead \/ ReadTimeout
    <2>1. rpc' \notin {"abort", "unblock", "give", "wait"}
      BY <1>2
         DEF ReadSome, ReadNothing, ReaderWakes, ReadTail, ReadReturns, StartRead,
             ReadTimeout
    <2> QED
      BY <2>1 DEF FlagAgenda
  <1>3. CASE ReaderGives
    BY <1>3 DEF ReaderGives, FlagAgenda, flagVars
  <1>4. CASE WriteStep \/ StartWrite \/ WriteTimeout
    <2>1. UNCHANGED <<rpc, is_done_write, abort_read, unblock_reader_flag, cpc>>
      BY <1>4
         DEF WriteStep, WriteSome, WriteNothing, WriteFlags, WriterTests,
             WriterGives, WriterWakes, WriteTail, StartWrite, WriteTimeout,
             flagVars, readerVars
    <2>2. can_read => can_read'
      BY <1>4
         DEF WriteStep, WriteSome, WriteNothing, WriteFlags, WriterTests,
             WriterGives, WriterWakes, WriteTail, StartWrite, WriteTimeout, semVars
    <2> QED
      BY <2>1, <2>2 DEF FlagAgenda
  <1>5. CASE RbDoneWrite \/ RbUnblockReader \/ RbAbort
    BY <1>5
       DEF RbDoneWrite, RbUnblockReader, RbAbort, FlagAgenda, semVars, readerVars
  <1>6. CASE ControlStep
    <2>1. UNCHANGED <<rpc, is_done_write, abort_read, unblock_reader_flag>>
      BY <1>6
         DEF ControlStep, WakeReader, AbortWrite, WakeWriter, flagVars, readerVars
    <2>2. CASE WakeReader
      BY <2>1, <2>2 DEF WakeReader, FlagAgenda
    <2>3. CASE AbortWrite \/ WakeWriter
      <3>1. can_read' = can_read /\ cpc \notin {"wake", "wake_reader"}
        BY <2>3 DEF AbortWrite, WakeWriter, semVars
      <3> QED
        BY <2>1, <3>1 DEF FlagAgenda
    <2> QED
      BY <1>6, <2>2, <2>3 DEF ControlStep
  <1>7. CASE RbReset
    BY <1>7 DEF RbReset, FlagAgenda, readerVars
  <1>8. CASE UNCHANGED vars
    BY <1>8 DEF vars, FlagAgenda, semVars, flagVars, readerVars
  <1> QED
    BY <1>1, <1>2, <1>3, <1>4, <1>5, <1>6, <1>7, <1>8 DEF Next, ReadStep

(* Room that comes after the writer has looked was made by a reader that   *)
(* gives can_write on its way out or before it sleeps.                     *)
LEMMA RoomStep ==
    TypeOK /\ FullUnderLock /\ RoomAgenda /\ [Next]_vars => RoomAgenda'
  <1> SUFFICES ASSUME TypeOK, FullUnderLock, RoomAgenda, [Next]_vars
               PROVE  RoomAgenda'
    OBVIOUS
  <1>0. fill_cnt \in Nat /\ rtotal \in Nat /\ SIZE \in Nat
    BY SizesAssumption, SMT DEF TypeOK, BufferTyped, ReaderTyped
  <1>1. CASE ReadSome
    <2>1. ReadSize \in 0..rlen /\ ReadSize > 0 /\ rlen \in Nat
      BY <1>1, ReadSizeBound, SMT DEF ReadSome, TypeOK, ReaderTyped
    <2>2. rtotal' = rtotal + ReadSize /\ rpc' \in {"tail", "top"}
      BY <1>1 DEF ReadSome
    <2>3. rtotal' > 0
      BY <1>0, <2>1, <2>2, SMT
    <2> QED
      BY <2>2, <2>3 DEF RoomAgenda
  <1>2. CASE WriteFlags
    <2>1. CASE wpc \in {"done", "abort"}
      <3>1. fill_cnt' = SIZE
        BY <1>2, <2>1 DEF WriteFlags, WriterTests, FullUnderLock, bufVars
      <3>2. ~(fill_cnt' < SIZE)
        BY <1>0, <3>1, SMT
      <3> QED
        BY <3>2 DEF RoomAgenda
    <2> QED
      BY <1>2, <2>1 DEF WriteFlags, WriterTests
  <1>3. CASE WriteSome \/ WriteNothing \/ WriterWakes \/ WriteTail \/ StartWrite
             \/ WriteTimeout
    <2>1. wpc' \notin {"give", "wait"}
      BY <1>3
         DEF WriteSome, WriteNothing, WriterWakes, WriteTail, StartWrite,
             WriteTimeout
    <2> QED
      BY <2>1 DEF RoomAgenda
  <1>4. CASE WriterGives
    BY <1>4 DEF WriterGives, RoomAgenda, bufVars, readerVars
  <1>5. CASE ReadNothing \/ ReadFlags \/ ReaderGives \/ ReaderWakes
             \/ StartRead \/ ReadTimeout \/ ReadReturns
    BY <1>5
       DEF ReadNothing, ReadFlags, ReaderTests, ReaderGives, ReaderWakes,
           StartRead, ReadTimeout, ReadReturns, RoomAgenda, bufVars, semVars,
           writerVars
  <1>6. CASE ReadTail
    BY <1>6 DEF ReadTail, RoomAgenda, bufVars, writerVars
  <1>7. CASE RbDoneWrite \/ RbUnblockReader \/ RbAbort \/ ControlStep
    BY <1>7
       DEF ControlStep, RbDoneWrite, RbUnblockReader, RbAbort, WakeReader,
           AbortWrite, WakeWriter, RoomAgenda, bufVars, semVars, readerVars,
           writerVars
  <1>8. CASE RbReset
    BY <1>8 DEF RbReset, RoomAgenda, writerVars
  <1>9. CASE UNCHANGED vars
    BY <1>9 DEF vars, RoomAgenda, bufVars, semVars, readerVars, writerVars
  <1> QED
    BY <1>1, <1>2, <1>3, <1>4, <1>5, <1>6, <1>7, <1>8, <1>9
       DEF Next, ReadStep, WriteStep

LEMMA AbortStep == AbortAgenda /\ [Next]_vars => AbortAgenda'
  <1> SUFFICES ASSUME AbortAgenda, [Next]_vars PROVE AbortAgenda'
    OBVIOUS
  <1>1. CASE WriteStep \/ StartWrite \/ WriteTimeout
    BY <1>1
       DEF WriteStep, WriteSome, WriteNothing, WriteFlags, WriterTests, WriterGives,
           WriterWakes, WriteTail, StartWrite, WriteTimeout, AbortAgenda, semVars,
           flagVars
  <1>2. CASE ReadStep \/ StartRead \/ ReadTimeout
    BY <1>2
       DEF ReadStep, ReadSome, ReadNothing, ReadFlags, ReaderTests, ReaderGives,
           ReaderWakes, ReadTail, ReadReturns, StartRead, ReadTimeout, AbortAgenda,
           semVars, flagVars, writerVars
  <1>3. CASE RbDoneWrite \/ RbUnblockReader \/ RbAbort \/ ControlStep
    BY <1>3
       DEF ControlStep, RbDoneWrite, RbUnblockReader, RbAbort, WakeReader,
           AbortWrite, WakeWriter, AbortAgenda, semVars, flagVars, writerVars
  <1>4. CASE RbReset
    BY <1>4 DEF RbReset, AbortAgenda, writerVars
  <1>5. CASE UNCHANGED vars
    BY <1>5 DEF vars, AbortAgenda, semVars, flagVars, writerVars
  <1> QED
    BY <1>1, <1>2, <1>3, <1>4, <1>5 DEF Next

(* Neither side of the ring buffer ever sleeps on what has already come:   *)
(* data, room, the end, an abort or an unblock.                            *)
THEOREM WakeUpComesCorrect == Spec => []WakeUpComes
  <1>1. /\ Init => FlagsUnderLock /\ FullUnderLock
        /\ Init => DataAgenda /\ FlagAgenda /\ RoomAgenda /\ AbortAgenda
    BY DEF Init, FlagsUnderLock, FullUnderLock, DataAgenda, FlagAgenda, RoomAgenda,
           AbortAgenda
  <1>2. DataAgenda /\ FlagAgenda /\ RoomAgenda /\ AbortAgenda => WakeUpComes
    BY DEF DataAgenda, FlagAgenda, RoomAgenda, AbortAgenda, WakeUpComes
  <1> QED
    BY <1>1, <1>2, TypeInit, TypeStep, FlagsStep, FullStep, DataStep, FlagStep,
       RoomStep, AbortStep, PTL DEF Spec

=============================================================================
