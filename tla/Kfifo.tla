------------------------------- MODULE Kfifo -------------------------------
(***************************************************************************)
(* The kernel's kfifo, as the drivers under ldt/ use it (external code):   *)
(* a ring of FifoSize slots addressed by two running counters.  A byte     *)
(* enters at counter "in", leaves at counter "out", and byte number i      *)
(* lives in slot i % FifoSize.  The counters of the kernel are unsigned    *)
(* ints that wrap; FifoSize is a power of two there, so that the wrap is   *)
(* invisible, and they are naturals here.                                  *)
(*                                                                         *)
(* The transfers to and from user space consist of two steps (copy the     *)
(* bytes, then advance the counter): this is why the drivers wrap them in  *)
(* a mutex, and the operators below keep the two steps apart.              *)
(***************************************************************************)
EXTENDS Integers, Sequences

CONSTANTS FifoSize,   \* number of slots (FIFO_SIZE, 128 in the drivers)
          Byte,       \* the data values
          Zero        \* the value memory is cleared to

ASSUME KfifoAssumption ==
  /\ FifoSize \in Nat \ {0}
  /\ Zero \in Byte

Slots == 0 .. (FifoSize - 1)

Slot(i) == i % FifoSize

Kfifo == [buf : [Slots -> Byte], in : Nat, out : Nat]

INIT_KFIFO == [buf |-> [s \in Slots |-> Zero], in |-> 0, out |-> 0]

kfifo_len(f) == f.in - f.out

kfifo_avail(f) == FifoSize - kfifo_len(f)

kfifo_is_empty(f) == f.in = f.out

kfifo_is_full(f) == kfifo_len(f) >= FifoSize

\* The byte that was numbered i (counting from 0) when it entered.
ByteAt(f, i) == f.buf[Slot(i)]

\* The first n bytes waiting in f.
Peek(f, n) == [k \in 1 .. n |-> ByteAt(f, f.out + k - 1)]

\* All bytes waiting in f, the oldest first.
Contents(f) == Peek(f, kfifo_len(f))

\* Copy data into the slots after the last byte; the bytes are not yet
\* visible to the consumer.
CopyIn(f, data) ==
  [f EXCEPT !.buf =
     [s \in Slots |->
        IF \E k \in 1 .. Len(data) : Slot(f.in + k - 1) = s
          THEN data[CHOOSE k \in 1 .. Len(data) : Slot(f.in + k - 1) = s]
          ELSE f.buf[s]]]

AdvanceIn(f, n)  == [f EXCEPT !.in = f.in + n]

AdvanceOut(f, n) == [f EXCEPT !.out = f.out + n]

\* kfifo_in of one byte by the only producer: both steps at once.
Push(f, b) == AdvanceIn(CopyIn(f, <<b>>), 1)

\* How many of n bytes fit into a room of m bytes.
AtMost(n, m) == IF n <= m THEN n ELSE m
=============================================================================
