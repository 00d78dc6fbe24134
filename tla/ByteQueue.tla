----------------------------- MODULE ByteQueue -----------------------------
(***************************************************************************)
(* What a ring buffer promises its two users: the bytes come out as they   *)
(* went in, all of them, in order, never more than SIZE in between.  The   *)
(* bytes are numbered as they are written.                                 *)
(***************************************************************************)
EXTENDS Naturals, Sequences

CONSTANT SIZE

VARIABLES queue,   \* the bytes in the buffer, oldest first
          next,    \* number of the next byte to be written
          chunk    \* what the last read took

qvars == <<queue, next, chunk>>

QInit ==
    /\ queue = <<>>
    /\ next = 0
    /\ chunk = <<>>

Put(n) ==
    /\ Len(queue) + n <= SIZE
    /\ queue' = queue \o [i \in 1..n |-> next + i - 1]
    /\ next' = next + n
    /\ UNCHANGED chunk

Get(n) ==
    /\ n <= Len(queue)
    /\ chunk' = SubSeq(queue, 1, n)
    /\ queue' = SubSeq(queue, n + 1, Len(queue))
    /\ UNCHANGED next

Clear ==
    /\ queue' = <<>>
    /\ UNCHANGED <<next, chunk>>

QNext == Clear \/ \E n \in 1..SIZE : Put(n) \/ Get(n)

QSpec == QInit /\ [][QNext]_qvars

=============================================================================
