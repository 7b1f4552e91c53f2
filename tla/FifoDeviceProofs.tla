-------------------------- MODULE FifoDeviceProofs --------------------------
(***************************************************************************)
(* What the process side of the ldt/ drivers (read, write, poll) keeps,    *)
(* for every number of processes, every queue size and all data, and what  *)
(* a tasklet has to respect in order not to break it, after the facts      *)
(* about the ring buffer that all of it rests on.  MiscLoopProofs and      *)
(* LdtProofs build on these lemmas.                                        *)
(***************************************************************************)
EXTENDS FifoDevice, SequenceTheorems, TLAPS

----------------------------------------------------------------------------
(* Facts about the ring buffer of module Kfifo, for every size: a copy into  *)
(* the free slots leaves the waiting bytes alone, and the bytes copied are   *)
(* the bytes found later.                                                    *)

\* Every counter value addresses a slot of the ring.
LEMMA SlotInRange ==
  ASSUME NEW i \in Nat
  PROVE  Slot(i) \in Slots
BY KfifoAssumption DEF Slot, Slots

\* Two bytes fewer than FifoSize apart never share a slot.
LEMMA SlotsDiffer ==
  ASSUME NEW i \in Nat, NEW j \in Nat, i < j, j < i + FifoSize
  PROVE  Slot(i) # Slot(j)
<1> DEFINE a == i \div FifoSize
           b == j \div FifoSize
<1> SUFFICES ASSUME i % FifoSize = j % FifoSize
             PROVE  FALSE
  BY DEF Slot
<1>n. FifoSize \in Nat \ {0}
  BY KfifoAssumption
<1>1. i = FifoSize * a + (i % FifoSize) /\ a \in Int /\ i % FifoSize \in Int
  BY <1>n
<1>2. j = FifoSize * b + (j % FifoSize) /\ b \in Int /\ j % FifoSize \in Int
  BY <1>n
<1> HIDE DEF a, b
<1>3. j - i = FifoSize * b - FifoSize * a
  BY <1>n, <1>1, <1>2
<1>4. FifoSize * b - FifoSize * a = FifoSize * (b - a)
  BY <1>n, <1>1, <1>2
<1>5. FifoSize * (b - a) > 0 /\ FifoSize * (b - a) < FifoSize
  BY <1>n, <1>3, <1>4
<1>6. b - a \in Int
  BY <1>1, <1>2
<1>7. CASE b - a <= 0
  <2>1. FifoSize * (b - a) <= 0
    BY <1>7, <1>6, <1>n
  <2> QED
    BY <2>1, <1>5, <1>6, <1>n
<1>8. CASE b - a >= 1
  <2>1. FifoSize * (b - a) >= FifoSize
    BY <1>8, <1>6, <1>n
  <2> QED
    BY <2>1, <1>5, <1>6, <1>n
<1> QED
  BY <1>6, <1>7, <1>8

\* INIT_KFIFO yields an empty queue.
LEMMA InitKfifo == INIT_KFIFO \in Kfifo
BY KfifoAssumption DEF INIT_KFIFO, Kfifo

\* The bytes read from the ring are bytes.
LEMMA PeekType ==
  ASSUME NEW f \in Kfifo, NEW n \in Nat
  PROVE  /\ Peek(f, n) \in Seq(Byte)
         /\ Len(Peek(f, n)) = n
         /\ \A k \in 1 .. n : Peek(f, n)[k] = ByteAt(f, f.out + k - 1)
<1>1. \A k \in 1 .. n : ByteAt(f, f.out + k - 1) \in Byte
  BY SlotInRange DEF ByteAt, Kfifo
<1> QED
  BY <1>1 DEF Peek

\* A copy into the free slots keeps the type and the counters of the queue,
\* leaves the waiting bytes alone and stores the data after them.
LEMMA CopyInFacts ==
  ASSUME NEW f \in Kfifo, NEW data \in Seq(Byte)
  PROVE  /\ CopyIn(f, data) \in Kfifo
         /\ CopyIn(f, data).in = f.in
         /\ CopyIn(f, data).out = f.out
         /\ f.in - f.out >= 0 /\ Len(data) <= kfifo_avail(f) =>
              /\ \A i \in f.out .. (f.in - 1) :
                   ByteAt(CopyIn(f, data), i) = ByteAt(f, i)
              /\ \A k \in 1 .. Len(data) :
                   ByteAt(CopyIn(f, data), f.in + k - 1) = data[k]
<1> DEFINE hit(s, k) == Slot(f.in + k - 1) = s
           ks == 1 .. Len(data)
           new == [s \in Slots |->
                     IF \E k \in ks : hit(s, k)
                       THEN data[CHOOSE k \in ks : hit(s, k)]
                       ELSE f.buf[s]]
<1>n. FifoSize \in Nat \ {0} /\ Len(data) \in Nat
  BY KfifoAssumption
<1>f. f.in \in Nat /\ f.out \in Nat /\ f.buf \in [Slots -> Byte]
  BY DEF Kfifo
<1>0. CopyIn(f, data) = [f EXCEPT !.buf = new]
  BY DEF CopyIn
<1>1. new \in [Slots -> Byte]
  <2> SUFFICES ASSUME NEW s \in Slots
               PROVE  new[s] \in Byte
    OBVIOUS
  <2>1. CASE \E k \in ks : hit(s, k)
    <3>1. (CHOOSE k \in ks : hit(s, k)) \in ks
      BY <2>1
    <3> QED
      BY <2>1, <3>1, <1>n
  <2>2. CASE ~\E k \in ks : hit(s, k)
    BY <2>2, <1>f
  <2> QED
    BY <2>1, <2>2
<1>2. /\ CopyIn(f, data) \in Kfifo
      /\ CopyIn(f, data).in = f.in
      /\ CopyIn(f, data).out = f.out
      /\ CopyIn(f, data).buf = new
  <2> HIDE DEF new
  <2> QED
    BY <1>0, <1>1 DEF Kfifo
<1>3. ASSUME f.in - f.out >= 0, Len(data) <= kfifo_avail(f),
             NEW i \in f.out .. (f.in - 1)
      PROVE  ByteAt(CopyIn(f, data), i) = ByteAt(f, i)
  <2>1. i \in Nat /\ Slot(i) \in Slots
    BY <1>f, SlotInRange
  <2>2. \A k \in ks : Slot(f.in + k - 1) # Slot(i)
    <3> SUFFICES ASSUME NEW k \in ks
                 PROVE  Slot(f.in + k - 1) # Slot(i)
      OBVIOUS
    <3>1. f.in + k - 1 \in Nat /\ i < f.in + k - 1 /\ f.in + k - 1 < i + FifoSize
      BY <1>3, <1>f, <1>n, SMTT(30) DEF kfifo_avail, kfifo_len
    <3> QED
      BY <3>1, <2>1, SlotsDiffer
  <2>3. new[Slot(i)] = f.buf[Slot(i)]
    BY <2>1, <2>2
  <2> HIDE DEF new
  <2> QED
    BY <2>3, <1>2 DEF ByteAt
<1>4. ASSUME f.in - f.out >= 0, Len(data) <= kfifo_avail(f),
             NEW k \in ks
      PROVE  ByteAt(CopyIn(f, data), f.in + k - 1) = data[k]
  <2>1. f.in + k - 1 \in Nat /\ Slot(f.in + k - 1) \in Slots
    BY <1>f, <1>n, SlotInRange
  <2>2. \A m \in ks : hit(Slot(f.in + k - 1), m) => m = k
    <3> SUFFICES ASSUME NEW m \in ks, m # k
                 PROVE  Slot(f.in + m - 1) # Slot(f.in + k - 1)
      OBVIOUS
    <3>1. f.in + m - 1 \in Nat /\ Len(data) <= FifoSize
      BY <1>4, <1>f, <1>n, SMTT(30) DEF kfifo_avail, kfifo_len
    <3>2. CASE m < k
      <4>1. f.in + m - 1 < f.in + k - 1 /\ f.in + k - 1 < f.in + m - 1 + FifoSize
        BY <3>1, <3>2, <1>f, <1>n
      <4> QED
        BY <4>1, <3>1, <2>1, SlotsDiffer
    <3>3. CASE k < m
      <4>1. f.in + k - 1 < f.in + m - 1 /\ f.in + m - 1 < f.in + k - 1 + FifoSize
        BY <3>1, <3>3, <1>f, <1>n
      <4> QED
        BY <4>1, <3>1, <2>1, SlotsDiffer
    <3> QED
      BY <3>2, <3>3, <1>n
  <2>3. (CHOOSE m \in ks : hit(Slot(f.in + k - 1), m)) = k
    BY <2>2
  <2>4. new[Slot(f.in + k - 1)] = data[k]
    BY <2>1, <2>3
  <2> HIDE DEF new
  <2> QED
    BY <2>4, <1>2 DEF ByteAt
<1> QED
  BY <1>2, <1>3, <1>4

\* Advancing a counter touches nothing else.
LEMMA AdvanceFacts ==
  ASSUME NEW f \in Kfifo, NEW n \in Nat
  PROVE  /\ AdvanceIn(f, n) \in Kfifo /\ AdvanceOut(f, n) \in Kfifo
         /\ AdvanceIn(f, n).in = f.in + n /\ AdvanceIn(f, n).out = f.out
         /\ AdvanceOut(f, n).in = f.in /\ AdvanceOut(f, n).out = f.out + n
         /\ AdvanceIn(f, n).buf = f.buf /\ AdvanceOut(f, n).buf = f.buf
BY DEF AdvanceIn, AdvanceOut, Kfifo

\* One byte put into a queue that is not full: the waiting bytes stay, the
\* new one follows them.
LEMMA PushFacts ==
  ASSUME NEW f \in Kfifo, NEW b \in Byte
  PROVE  /\ Push(f, b) \in Kfifo
         /\ Push(f, b).in = f.in + 1
         /\ Push(f, b).out = f.out
         /\ f.in - f.out >= 0 /\ ~kfifo_is_full(f) =>
              /\ \A i \in f.out .. (f.in - 1) :
                   ByteAt(Push(f, b), i) = ByteAt(f, i)
              /\ ByteAt(Push(f, b), f.in) = b
<1> DEFINE d == <<b>>
           g == CopyIn(f, d)
<1>1. d \in Seq(Byte) /\ Len(d) = 1 /\ d[1] = b
  OBVIOUS
<1> HIDE DEF d
<1>2. /\ g \in Kfifo /\ g.in = f.in /\ g.out = f.out
      /\ f.in - f.out >= 0 /\ 1 <= kfifo_avail(f) =>
           /\ \A i \in f.out .. (f.in - 1) : ByteAt(g, i) = ByteAt(f, i)
           /\ ByteAt(g, f.in + 1 - 1) = b
  <2>1. 1 \in 1 .. Len(d)
    BY <1>1
  <2> QED
    BY <1>1, <2>1, CopyInFacts
<1> HIDE DEF g
<1>3. /\ AdvanceIn(g, 1) \in Kfifo /\ AdvanceIn(g, 1).in = f.in + 1
      /\ AdvanceIn(g, 1).out = f.out /\ AdvanceIn(g, 1).buf = g.buf
  BY <1>2, AdvanceFacts
<1>4. Push(f, b) = AdvanceIn(g, 1)
  BY DEF Push, g, d
<1>5. f.in \in Nat /\ f.out \in Nat /\ FifoSize \in Nat \ {0}
  BY KfifoAssumption DEF Kfifo
<1>6. ~kfifo_is_full(f) => 1 <= kfifo_avail(f)
  BY <1>5 DEF kfifo_is_full, kfifo_avail, kfifo_len
<1>7. f.in + 1 - 1 = f.in
  BY <1>5
<1> QED
  BY <1>2, <1>3, <1>4, <1>6, <1>7 DEF ByteAt
----------------------------------------------------------------------------
(* A ring as the sequence of its waiting bytes *)

\* The waiting bytes are a sequence of kfifo_len bytes.
LEMMA ContentsType ==
  ASSUME NEW f \in Kfifo, f.in - f.out >= 0
  PROVE  /\ Contents(f) \in Seq(Byte)
         /\ Len(Contents(f)) = f.in - f.out
         /\ \A k \in 1 .. (f.in - f.out) :
              Contents(f)[k] = ByteAt(f, f.out + k - 1)
<1>1. f.in - f.out \in Nat
  BY DEF Kfifo
<1> QED
  BY <1>1, PeekType DEF Contents, kfifo_len

\* What is waiting is determined by the counters and the bytes between them.
LEMMA SameContents ==
  ASSUME NEW f \in Kfifo, NEW g \in Kfifo, f.in - f.out >= 0,
         g.in = f.in, g.out = f.out,
         \A i \in f.out .. (f.in - 1) : ByteAt(g, i) = ByteAt(f, i)
  PROVE  Contents(g) = Contents(f)
<1>1. f.in \in Nat /\ f.out \in Nat
  BY DEF Kfifo
<1>2. /\ Contents(f) \in Seq(Byte) /\ Contents(g) \in Seq(Byte)
      /\ Len(Contents(f)) = f.in - f.out /\ Len(Contents(g)) = f.in - f.out
      /\ \A k \in 1 .. (f.in - f.out) :
           /\ Contents(f)[k] = ByteAt(f, f.out + k - 1)
           /\ Contents(g)[k] = ByteAt(g, f.out + k - 1)
  BY ContentsType
<1>3. \A k \in 1 .. (f.in - f.out) : f.out + k - 1 \in f.out .. (f.in - 1)
  BY <1>1
<1> QED
  BY <1>2, <1>3, SeqEqual

\* A copy into the free slots changes nothing that waits.
LEMMA ContentsCopy ==
  ASSUME NEW f \in Kfifo, f.in - f.out >= 0,
         NEW data \in Seq(Byte), Len(data) <= kfifo_avail(f)
  PROVE  Contents(CopyIn(f, data)) = Contents(f)
BY CopyInFacts, SameContents

\* Advancing "in" over bytes that were copied appends them.
LEMMA ContentsIn ==
  ASSUME NEW f \in Kfifo, f.in - f.out >= 0, NEW data \in Seq(Byte),
         \A k \in 1 .. Len(data) : data[k] = ByteAt(f, f.in + k - 1)
  PROVE  Contents(AdvanceIn(f, Len(data))) = Contents(f) \o data
<1> DEFINE g == AdvanceIn(f, Len(data))
           a == Contents(f)
           c == Contents(g)
           n == Len(data)
           m == f.in - f.out
<1>1. f.in \in Nat /\ f.out \in Nat /\ n \in Nat /\ m \in Nat
  BY DEF Kfifo
<1>2. g \in Kfifo /\ g.in = f.in + n /\ g.out = f.out /\ g.buf = f.buf
  BY AdvanceFacts
<1> HIDE DEF g
<1>3. a \in Seq(Byte) /\ Len(a) = m /\ \A k \in 1 .. m : a[k] = ByteAt(f, f.out + k - 1)
  BY ContentsType
<1>4. /\ c \in Seq(Byte) /\ Len(c) = m + n
      /\ \A k \in 1 .. (m + n) : c[k] = ByteAt(f, f.out + k - 1)
  <2>1. g.in - g.out = m + n /\ g.in - g.out >= 0
    BY <1>1, <1>2
  <2> QED
    BY <1>2, <2>1, ContentsType DEF ByteAt
<1> HIDE DEF a, c
<1>5. /\ a \o data \in Seq(Byte) /\ Len(a \o data) = m + n
      /\ \A k \in 1 .. (m + n) :
           (a \o data)[k] = IF k <= m THEN a[k] ELSE data[k - m]
  <2>1. /\ a \o data \in Seq(Byte)
        /\ Len(a \o data) = Len(a) + Len(data)
        /\ \A k \in 1 .. Len(a) + Len(data) :
             (a \o data)[k] = IF k <= Len(a) THEN a[k] ELSE data[k - Len(a)]
    BY <1>3, ConcatProperties
  <2> QED
    BY <1>3, <2>1
<1>6. ASSUME NEW k \in 1 .. (m + n)
      PROVE  c[k] = (a \o data)[k]
  <2>1. CASE k <= m
    BY <2>1, <1>1, <1>3, <1>4, <1>5
  <2>2. CASE ~(k <= m)
    <3>0. \A x, y, l \in Nat : \A j \in 1 .. ((x - y) + l) :
            x - y \in Nat /\ ~(j <= x - y) =>
              j - (x - y) \in 1 .. l /\ x + (j - (x - y)) - 1 = y + j - 1
      BY ONLY TRUE
    <3>1. k - m \in 1 .. n /\ f.in + (k - m) - 1 = f.out + k - 1
      BY <2>2, <1>1, <1>6, <3>0, Zenon
    <3>2. data[k - m] = ByteAt(f, f.out + k - 1)
      BY <3>1
    <3> QED
      BY <2>2, <3>2, <1>1, <1>4, <1>5
  <2> QED
    BY <2>1, <2>2
<1>7. c = a \o data
  BY <1>4, <1>5, <1>6, SeqEqual
<1> QED
  BY <1>7 DEF a, c, g

\* Advancing "out" takes the oldest bytes.
LEMMA ContentsOut ==
  ASSUME NEW f \in Kfifo, f.in - f.out >= 0, NEW n \in Nat, n <= f.in - f.out
  PROVE  /\ Contents(AdvanceOut(f, n)) \in Seq(Byte)
         /\ Contents(AdvanceOut(f, n))
              = SubSeq(Contents(f), n + 1, Len(Contents(f)))
<1> DEFINE g == AdvanceOut(f, n)
           a == Contents(f)
           c == Contents(g)
           m == f.in - f.out
           t == SubSeq(a, n + 1, Len(a))
<1>1. f.in \in Nat /\ f.out \in Nat /\ m \in Nat /\ n + 1 \in Int
  BY DEF Kfifo
<1>2. g \in Kfifo /\ g.in = f.in /\ g.out = f.out + n /\ g.buf = f.buf
  BY AdvanceFacts
<1> HIDE DEF g
<1>3. a \in Seq(Byte) /\ Len(a) = m /\ \A k \in 1 .. m : a[k] = ByteAt(f, f.out + k - 1)
  BY ContentsType
<1>4. /\ c \in Seq(Byte) /\ Len(c) = m - n
      /\ \A k \in 1 .. (m - n) : c[k] = ByteAt(f, f.out + n + k - 1)
  <2>1. g.in - g.out = m - n /\ g.in - g.out >= 0
    BY <1>1, <1>2
  <2> QED
    BY <1>2, <2>1, ContentsType DEF ByteAt
<1> HIDE DEF a, c
<1>5. /\ t \in Seq(Byte) /\ Len(t) = m - n
      /\ \A k \in 1 .. (m - n) : t[k] = a[n + k]
  <2>1. \A i \in (n + 1) .. m : a[i] \in Byte
    BY <1>1, <1>3, ElementOfSeq
  <2>2. /\ t \in Seq(Byte)
        /\ Len(t) = IF n + 1 <= m THEN m - (n + 1) + 1 ELSE 0
        /\ \A i \in 1 .. (m - (n + 1) + 1) : t[i] = a[n + 1 + i - 1]
    BY <2>1, <1>1, <1>3, SubSeqProperties
  <2>3. /\ m - (n + 1) + 1 = m - n
        /\ (IF n + 1 <= m THEN m - (n + 1) + 1 ELSE 0) = m - n
        /\ \A i \in Int : n + 1 + i - 1 = n + i
    BY <1>1
  <2> QED
    BY <2>2, <2>3
<1> HIDE DEF t
<1>6. ASSUME NEW k \in 1 .. (m - n)
      PROVE  c[k] = t[k]
  <2>1. n + k \in 1 .. m /\ f.out + (n + k) - 1 = f.out + n + k - 1
    BY <1>1
  <2> QED
    BY <2>1, <1>3, <1>4, <1>5
<1>7. c = t
  BY <1>4, <1>5, <1>6, SeqEqual
<1> QED
  BY <1>4, <1>7 DEF a, c, g, t

\* The bytes before "out" moved are the ones a reader has copied.
LEMMA ContentsFront ==
  ASSUME NEW f \in Kfifo, f.in - f.out >= 0,
         NEW s \in Seq(Byte), Len(s) <= f.in - f.out,
         \A k \in 1 .. Len(s) : s[k] = ByteAt(f, f.out + k - 1)
  PROVE  s = SubSeq(Contents(f), 1, Len(s))
<1> DEFINE a == Contents(f)
           m == f.in - f.out
           n == Len(s)
           t == SubSeq(a, 1, n)
<1>1. m \in Nat /\ n \in Nat
  BY DEF Kfifo
<1>2. a \in Seq(Byte) /\ Len(a) = m /\ \A k \in 1 .. m : a[k] = ByteAt(f, f.out + k - 1)
  BY ContentsType
<1> HIDE DEF a
<1>3. t \in Seq(Byte) /\ Len(t) = n /\ \A k \in 1 .. n : t[k] = a[k]
  <2>1. \A i \in 1 .. n : a[i] \in Byte
    BY <1>1, <1>2, ElementOfSeq
  <2>2. /\ t \in Seq(Byte)
        /\ Len(t) = IF 1 <= n THEN n - 1 + 1 ELSE 0
        /\ \A i \in 1 .. (n - 1 + 1) : t[i] = a[1 + i - 1]
    BY <2>1, <1>1, SubSeqProperties
  <2>3. /\ n - 1 + 1 = n
        /\ (IF 1 <= n THEN n - 1 + 1 ELSE 0) = n
        /\ \A i \in Int : 1 + i - 1 = i
    BY <1>1
  <2> QED
    BY <2>2, <2>3
<1> HIDE DEF t
<1>4. \A k \in 1 .. n : s[k] = t[k]
  BY <1>1, <1>2, <1>3
<1>5. s = t
  BY <1>3, <1>4, SeqEqual
<1> QED
  BY <1>5 DEF a, t

\* Taking one byte: it was the first.
LEMMA ContentsTake ==
  ASSUME NEW f \in Kfifo, f.in - f.out >= 1
  PROVE  /\ Contents(AdvanceOut(f, 1)) \in Seq(Byte)
         /\ Contents(f)
              = <<ByteAt(f, f.out)>> \o Contents(AdvanceOut(f, 1))
<1> DEFINE a == Contents(f)
           b == ByteAt(f, f.out)
           c == Contents(AdvanceOut(f, 1))
<1>1. f.in \in Nat /\ f.out \in Nat /\ f.in - f.out >= 0 /\ 1 <= f.in - f.out
  BY DEF Kfifo
<1>2. /\ a \in Seq(Byte) /\ Len(a) = f.in - f.out
      /\ \A k \in 1 .. (f.in - f.out) : a[k] = ByteAt(f, f.out + k - 1)
  BY <1>1, ContentsType
<1>3. c \in Seq(Byte) /\ c = SubSeq(a, 1 + 1, Len(a))
  BY <1>1, ContentsOut
<1>4. a[1] = b
  <2>1. 1 \in 1 .. (f.in - f.out) /\ f.out + 1 - 1 = f.out
    BY <1>1
  <2> QED
    BY <1>2, <2>1
<1> HIDE DEF a, b, c
<1>5. 1 \in 1 .. Len(a) /\ Len(a) \in 1 .. Len(a)
  BY <1>1, <1>2
<1>6. SubSeq(a, 1, Len(a)) = <<a[1]>> \o SubSeq(a, 1 + 1, Len(a))
  BY <1>2, <1>5, SubSeqRecursiveFirst
<1>7. SubSeq(a, 1, Len(a)) = a
  BY <1>2, SubSeqFull
<1>8. a = <<b>> \o c
  BY <1>3, <1>4, <1>6, <1>7
<1> QED
  BY <1>3, <1>8 DEF a, b, c

\* kfifo_in of one byte appends it.
LEMMA ContentsPush ==
  ASSUME NEW f \in Kfifo, f.in - f.out >= 0, ~kfifo_is_full(f), NEW b \in Byte
  PROVE  Contents(Push(f, b)) = Contents(f) \o <<b>>
<1> DEFINE d == <<b>>
           g == CopyIn(f, d)
<1>1. d \in Seq(Byte) /\ Len(d) = 1 /\ d[1] = b
  OBVIOUS
<1> HIDE DEF d
<1>2. f.in \in Nat /\ f.out \in Nat /\ FifoSize \in Nat
  BY KfifoAssumption DEF Kfifo
<1>3. Len(d) <= kfifo_avail(f)
  BY <1>1, <1>2 DEF kfifo_is_full, kfifo_avail, kfifo_len
<1>4. /\ g \in Kfifo /\ g.in = f.in /\ g.out = f.out
      /\ \A k \in 1 .. Len(d) : ByteAt(g, f.in + k - 1) = d[k]
  BY <1>1, <1>3, CopyInFacts
<1>5. Contents(g) = Contents(f)
  BY <1>1, <1>3, ContentsCopy
<1> HIDE DEF g
<1>6. Contents(AdvanceIn(g, Len(d))) = Contents(g) \o d
  BY <1>1, <1>4, ContentsIn
<1>7. Push(f, b) = AdvanceIn(g, 1)
  BY DEF Push, g, d
<1> QED
  BY <1>1, <1>5, <1>6, <1>7 DEF d

----------------------------------------------------------------------------
(* The constants *)

\* The constants are what the proofs rely on.
LEMMA Constants ==
  /\ \A r \in Readers :
       r \in Procs /\ r # NoProc /\ r \notin Writers /\ r \notin Pollers
  /\ \A w \in Writers :
       w \in Procs /\ w # NoProc /\ w \notin Readers /\ w \notin Pollers
  /\ \A p \in Pollers :
       p \in Procs /\ p # NoProc /\ p \notin Readers /\ p \notin Writers
  /\ \A p \in Interruptible : p \in Procs
  /\ MaxCount \in Nat /\ MaxBytes \in Nat
  /\ FifoSize \in Nat \ {0}
BY FifoDeviceAssumption, KfifoAssumption DEF Procs

----------------------------------------------------------------------------
(* The inductive invariant of the process side *)

\* Whoever copies to or from a queue on behalf of a process holds its mutex.
LockInv ==
  /\ \A r \in Readers : pc[r] \in {"copy", "commit"} => read_lock = r
  /\ \A w \in Writers : pc[w] \in {"copy", "commit"} => write_lock = w

\* The bytes a reader has copied are still the oldest ones of in_fifo; the
\* bytes a writer has copied are still in the slots that out_fifo gets next.
StagedInv ==
  /\ \A r \in Readers : pc[r] = "commit" =>
       /\ Len(buf[r]) <= kfifo_len(in_fifo)
       /\ \A k \in 1 .. Len(buf[r]) :
            buf[r][k] = ByteAt(in_fifo, in_fifo.out + k - 1)
  /\ \A w \in Writers : pc[w] = "commit" =>
       /\ Len(buf[w]) <= kfifo_avail(out_fifo)
       /\ \A k \in 1 .. Len(buf[w]) :
            buf[w][k] = ByteAt(out_fifo, out_fifo.in + k - 1)

\* The counters of the queues count what the history records.
CounterInv ==
  /\ out_fifo.in = Len(accepted)
  /\ in_fifo.in = Len(kept)
  /\ in_fifo.out = Len(received)

\* The slots of the two rings hold what the history says.
RingInv ==
  /\ \A i \in out_fifo.out .. (out_fifo.in - 1) :
       ByteAt(out_fifo, i) = accepted[i + 1]
  /\ \A i \in in_fifo.out .. (in_fifo.in - 1) :
       ByteAt(in_fifo, i) = accepted[kept[i + 1]]

\* Only bytes taken from out_fifo are stored, in order and at most once.
KeptInv ==
  /\ \A i \in 1 .. Len(kept) : kept[i] \in 1 .. out_fifo.out
  /\ \A i, j \in 1 .. Len(kept) : i < j => kept[i] < kept[j]

\* The bytes handed out were the right ones.
ReceivedInv ==
  \A i \in 1 .. Len(received) : received[i] = accepted[kept[i]]

DataInv == StagedInv /\ CounterInv /\ RingInv /\ KeptInv /\ ReceivedInv

DeviceInv == DeviceTypeOK /\ LockInv /\ DataInv

\* The queues as numbers.
LEMMA FifoTypes ==
  ASSUME DeviceTypeOK
  PROVE  /\ in_fifo \in Kfifo /\ in_fifo.in \in Nat /\ in_fifo.out \in Nat
         /\ in_fifo.in - in_fifo.out \in 0 .. FifoSize
         /\ out_fifo \in Kfifo /\ out_fifo.in \in Nat /\ out_fifo.out \in Nat
         /\ out_fifo.in - out_fifo.out \in 0 .. FifoSize
         /\ FifoSize \in Nat \ {0}
BY Constants DEF DeviceTypeOK, kfifo_len, Kfifo

----------------------------------------------------------------------------
(* Initial states *)

\* A device just initialised satisfies the invariant.
LEMMA DeviceInitInv == DeviceInit => DeviceInv
<1> SUFFICES ASSUME DeviceInit
             PROVE  DeviceInv
  OBVIOUS
<1> USE DEF DeviceInit
<1>1. in_fifo \in Kfifo /\ out_fifo \in Kfifo
  BY InitKfifo
<1>2. kfifo_len(in_fifo) = 0 /\ kfifo_len(out_fifo) = 0 /\ 0 \in 0 .. FifoSize
  BY Constants DEF INIT_KFIFO, kfifo_len
<1>3. /\ buf \in [Procs -> Seq(Byte)]
      /\ accepted \in Seq(Byte) /\ kept \in Seq(Nat) /\ received \in Seq(Byte)
  OBVIOUS
<1>4. /\ waiting \subseteq Procs /\ signalled \subseteq Procs
      /\ read_lock \in Readers \cup {NoProc}
      /\ write_lock \in Writers \cup {NoProc}
      /\ sched \in BOOLEAN
  OBVIOUS
<1>5. count \in [Procs -> Nat] /\ ret \in [Procs -> Int]
  OBVIOUS
<1>6. pc \in [Procs -> Labels]
  BY DEF Labels
<1>7. DeviceTypeOK
  BY <1>1, <1>2, <1>3, <1>4, <1>5, <1>6 DEF DeviceTypeOK
<1>8. LockInv /\ StagedInv
  BY Constants DEF LockInv, StagedInv
<1>9. in_fifo.in = 0 /\ in_fifo.out = 0 /\ out_fifo.in = 0 /\ out_fifo.out = 0
  BY DEF INIT_KFIFO
<1>10. Len(accepted) = 0 /\ Len(kept) = 0 /\ Len(received) = 0
  OBVIOUS
<1>11. CounterInv /\ RingInv /\ KeptInv /\ ReceivedInv
  BY <1>9, <1>10 DEF CounterInv, RingInv, KeptInv, ReceivedInv
<1> QED
  BY <1>7, <1>8, <1>11 DEF DeviceInv, DataInv

----------------------------------------------------------------------------
(* Steps of the processes: types *)

\* The bounds on the queues rest on what the processes inside a copy have
\* staged.
LEMMA UserTypeOK == DeviceTypeOK /\ StagedInv /\ UserNext => DeviceTypeOK'
<1> SUFFICES ASSUME DeviceTypeOK, StagedInv, UserNext
             PROVE  DeviceTypeOK'
  OBVIOUS
<1> USE Constants
<1>1. ASSUME NEW p \in Procs, Wait(p)
      PROVE  DeviceTypeOK'
  <2> USE DEF DeviceTypeOK, Labels, user, locks, queues, history, Goto, Return
  <2>1. CASE WaitPrepare(p)
    BY <2>1 DEF WaitPrepare
  <2>2. CASE WaitDone(p)
    <3>1. CASE p \in Pollers
      <4>1. Return(p) /\ waiting' \subseteq Procs
        BY <2>2, <3>1 DEF WaitDone
      <4> QED
        BY <2>2, <4>1, SMTT(30) DEF WaitDone
    <3>2. CASE p \notin Pollers
      BY <2>2, <3>2 DEF WaitDone
    <3> QED
      BY <3>1, <3>2
  <2>3. CASE WaitIntr(p)
    BY <2>3, SMTT(40) DEF WaitIntr
  <2>4. CASE WaitSleep(p)
    BY <2>4 DEF WaitSleep
  <2>5. CASE WaitWoken(p)
    BY <2>5 DEF WaitWoken
  <2> QED
    BY <1>1, <2>1, <2>2, <2>3, <2>4, <2>5 DEF Wait
<1>2. ASSUME NEW p \in Readers \cup Writers, Enter(p)
      PROVE  DeviceTypeOK'
  <2>1. count' \in [Procs -> Nat]
    BY <1>2 DEF Enter, DeviceTypeOK
  <2>2. pc' = [pc EXCEPT ![p] = "lock"] \/ pc' = [pc EXCEPT ![p] = "wait"]
    BY <1>2 DEF Enter
  <2> QED
    BY <1>2, <2>1, <2>2 DEF Enter, DeviceTypeOK, Labels, locks, queues, history
<1>3. ASSUME NEW r \in Readers, Read(r)
      PROVE  DeviceTypeOK'
  <2> USE DEF DeviceTypeOK, Labels, user, locks, queues, history, Goto, Return
  <2>1. CASE Enter(r)
    BY <1>2, <2>1
  <2>2. CASE ReadLock(r)
    BY <2>2 DEF ReadLock
  <2>3. CASE ReadLockIntr(r)
    BY <2>3, SMTT(40) DEF ReadLockIntr
  <2>4. CASE ReadCopy(r)
    <3> DEFINE l == AtMost(count[r], kfifo_len(in_fifo))
    <3>1. PICK c \in 0 .. l :
              /\ buf' = [buf EXCEPT ![r] = Peek(in_fifo, c)]
              /\ ret' = [ret EXCEPT ![r] = IF c < l THEN EFAULT ELSE c]
      BY <2>4 DEF ReadCopy
    <3>2. c \in Nat
      OBVIOUS
    <3>3. Peek(in_fifo, c) \in Seq(Byte)
      BY <3>2, PeekType
    <3>4. ret' \in [Procs -> Int]
      BY <3>1, <3>2 DEF EFAULT
    <3> QED
      BY <2>4, <3>1, <3>3, <3>4 DEF ReadCopy
  <2>5. CASE ReadCommit(r)
    <3>1. Len(buf[r]) \in Nat /\ Len(buf[r]) <= kfifo_len(in_fifo)
      BY <2>5 DEF ReadCommit, StagedInv
    <3>2. /\ in_fifo' \in Kfifo
          /\ in_fifo'.in = in_fifo.in /\ in_fifo'.out = in_fifo.out + Len(buf[r])
      BY <2>5, <3>1, AdvanceFacts DEF ReadCommit
    <3> HIDE DEF DeviceTypeOK
    <3>3. kfifo_len(in_fifo') \in 0 .. FifoSize
      BY <3>1, <3>2, FifoTypes, SMTT(30) DEF kfifo_len
    <3>4. received' \in Seq(Byte)
      BY <2>5 DEF ReadCommit, DeviceTypeOK, Labels
    <3>5. /\ pc' \in [Procs -> Labels]
          /\ count' \in [Procs -> Nat] /\ ret' \in [Procs -> Int]
          /\ buf' \in [Procs -> Seq(Byte)] /\ signalled' \subseteq Procs
      BY <2>5, SMTT(40) DEF ReadCommit, DeviceTypeOK, Labels
    <3> QED
      BY <2>5, <3>2, <3>3, <3>4, <3>5 DEF ReadCommit, DeviceTypeOK, Labels
  <2> QED
    BY <1>3, <2>1, <2>2, <2>3, <2>4, <2>5 DEF Read
<1>4. ASSUME NEW w \in Writers, Write(w)
      PROVE  DeviceTypeOK'
  <2> USE DEF DeviceTypeOK, Labels, user, locks, queues, history, Goto, Return
  <2>1. CASE Enter(w)
    BY <1>2, <2>1
  <2>2. CASE WriteLock(w)
    BY <2>2 DEF WriteLock
  <2>3. CASE WriteLockIntr(w)
    BY <2>3, SMTT(40) DEF WriteLockIntr
  <2>4. CASE WriteCopy(w)
    <3> DEFINE l == AtMost(count[w], kfifo_avail(out_fifo))
    <3>1. PICK c \in 0 .. l : \E data \in [1 .. c -> Byte] :
              /\ out_fifo' = CopyIn(out_fifo, data)
              /\ buf' = [buf EXCEPT ![w] = data]
              /\ ret' = [ret EXCEPT ![w] = IF c < l THEN EFAULT ELSE c]
      BY <2>4 DEF WriteCopy
    <3>2. c \in Nat
      OBVIOUS
    <3>3. PICK data \in [1 .. c -> Byte] :
              /\ out_fifo' = CopyIn(out_fifo, data)
              /\ buf' = [buf EXCEPT ![w] = data]
      BY <3>1
    <3>4. data \in Seq(Byte)
      BY <3>2
    <3>5. /\ out_fifo' \in Kfifo
          /\ out_fifo'.in = out_fifo.in /\ out_fifo'.out = out_fifo.out
      BY <3>3, <3>4, CopyInFacts
    <3>6. kfifo_len(out_fifo') \in 0 .. FifoSize
      BY <3>5 DEF kfifo_len
    <3>7. ret' \in [Procs -> Int]
      BY <3>1, <3>2 DEF EFAULT
    <3> QED
      BY <2>4, <3>3, <3>4, <3>5, <3>6, <3>7 DEF WriteCopy
  <2>5. CASE WriteCommit(w)
    <3>1. Len(buf[w]) \in Nat /\ Len(buf[w]) <= kfifo_avail(out_fifo)
      BY <2>5 DEF WriteCommit, StagedInv
    <3>2. /\ out_fifo' \in Kfifo
          /\ out_fifo'.in = out_fifo.in + Len(buf[w]) /\ out_fifo'.out = out_fifo.out
      BY <2>5, <3>1, AdvanceFacts DEF WriteCommit
    <3> HIDE DEF DeviceTypeOK
    <3>3. kfifo_len(out_fifo') \in 0 .. FifoSize
      <4>1. /\ out_fifo.in \in Nat /\ out_fifo.out \in Nat /\ FifoSize \in Nat
            /\ out_fifo.in - out_fifo.out \in 0 .. FifoSize
        BY FifoTypes, Constants
      <4>2. Len(buf[w]) <= FifoSize - (out_fifo.in - out_fifo.out)
        BY <3>1 DEF kfifo_len, kfifo_avail
      <4> QED
        BY <3>1, <3>2, <4>1, <4>2, SMTT(40) DEF kfifo_len
    <3>4. accepted' \in Seq(Byte)
      BY <2>5 DEF WriteCommit, DeviceTypeOK, Labels
    <3> QED
      BY <2>5, <3>2, <3>3, <3>4 DEF WriteCommit, DeviceTypeOK, Labels
  <2>6. CASE WriteKick(w)
    BY <2>6, SMTT(40) DEF WriteKick
  <2> QED
    BY <1>4, <2>1, <2>2, <2>3, <2>4, <2>5, <2>6 DEF Write
<1>5. ASSUME NEW p \in Pollers, PollEnter(p)
      PROVE  DeviceTypeOK'
  BY <1>5 DEF PollEnter, Goto, DeviceTypeOK, Labels, locks, queues, history
<1>6. ASSUME NEW p \in Interruptible, Signal(p)
      PROVE  DeviceTypeOK'
  BY <1>6 DEF Signal, DeviceTypeOK, locks, queues, history
<1> QED
  BY <1>1, <1>3, <1>4, <1>5, <1>6 DEF UserNext

(* Steps of the processes: mutual exclusion *)

\* A step moves at most one process into the copy, and only when the mutex is
\* free.
LEMMA UserLockInv == DeviceTypeOK /\ LockInv /\ UserNext => LockInv'
<1> SUFFICES ASSUME DeviceTypeOK, LockInv, UserNext
             PROVE  LockInv'
  OBVIOUS
<1> USE Constants
<1>p. pc \in [Procs -> Labels]
  BY DEF DeviceTypeOK
<1>1. ASSUME NEW p \in Procs, Wait(p)
      PROVE  LockInv'
  <2> SUFFICES ASSUME \E l \in {"idle", "wait", "check", "sleep", "lock"} :
                        pc' = [pc EXCEPT ![p] = l],
                      UNCHANGED locks
               PROVE  LockInv'
    BY <1>1 DEF Wait, WaitPrepare, WaitDone, WaitIntr, WaitSleep, WaitWoken,
                Goto, Return
  <2> QED
    BY <1>p DEF Labels, LockInv, locks
<1>2. ASSUME NEW r \in Readers, Read(r)
      PROVE  LockInv'
  <2> USE DEF Labels, LockInv, locks, Goto, Return
  <2>1. CASE Enter(r)
    BY <1>p, <2>1 DEF Enter
  <2>2. CASE ReadLock(r)
    BY <1>p, <2>2 DEF ReadLock
  <2>3. CASE ReadLockIntr(r)
    BY <1>p, <2>3 DEF ReadLockIntr
  <2>4. CASE ReadCopy(r)
    BY <1>p, <2>4 DEF ReadCopy
  <2>5. CASE ReadCommit(r)
    BY <1>p, <2>5 DEF ReadCommit
  <2> QED
    BY <1>2, <2>1, <2>2, <2>3, <2>4, <2>5 DEF Read
<1>3. ASSUME NEW w \in Writers, Write(w)
      PROVE  LockInv'
  <2> USE DEF Labels, LockInv, locks, Goto, Return
  <2>1. CASE Enter(w)
    BY <1>p, <2>1 DEF Enter
  <2>2. CASE WriteLock(w)
    BY <1>p, <2>2 DEF WriteLock
  <2>3. CASE WriteLockIntr(w)
    BY <1>p, <2>3 DEF WriteLockIntr
  <2>4. CASE WriteCopy(w)
    BY <1>p, <2>4 DEF WriteCopy
  <2>5. CASE WriteCommit(w)
    BY <1>p, <2>5 DEF WriteCommit
  <2>6. CASE WriteKick(w)
    BY <1>p, <2>6 DEF WriteKick
  <2> QED
    BY <1>3, <2>1, <2>2, <2>3, <2>4, <2>5, <2>6 DEF Write
<1>4. ASSUME NEW p \in Pollers, PollEnter(p)
      PROVE  LockInv'
  BY <1>p, <1>4 DEF PollEnter, Goto, LockInv, locks
<1>5. ASSUME NEW p \in Interruptible, Signal(p)
      PROVE  LockInv'
  BY <1>5 DEF Signal, LockInv, locks
<1> QED
  BY <1>1, <1>2, <1>3, <1>4, <1>5 DEF UserNext

----------------------------------------------------------------------------
(* Steps of the processes: the bytes *)

\* A step that leaves queues and history alone and stages nothing new.
LEMMA DataFrame ==
  ASSUME DataInv, UNCHANGED <<queues, history>>,
         \A p \in Procs : pc'[p] = "commit" =>
                           pc[p] = "commit" /\ buf'[p] = buf[p]
  PROVE  DataInv'
<1>0. UNCHANGED <<in_fifo, out_fifo, accepted, kept, received>>
  BY DEF queues, history
<1>1. StagedInv'
  BY <1>0, Constants DEF DataInv, StagedInv
<1>2. CounterInv' /\ RingInv' /\ ReceivedInv' /\ KeptInv'
  BY <1>0 DEF DataInv, CounterInv, RingInv, ReceivedInv, KeptInv
<1> QED
  BY <1>1, <1>2 DEF DataInv

\* kfifo_to_user, copying: the user buffer gets the oldest bytes of in_fifo,
\* which only the owner of read_lock can remove.
LEMMA ReadCopyData ==
  ASSUME DeviceTypeOK, DataInv, NEW r \in Readers, ReadCopy(r)
  PROVE  DataInv'
<1> DEFINE l == AtMost(count[r], kfifo_len(in_fifo))
<1>t. /\ r \in Procs /\ pc \in [Procs -> Labels] /\ buf \in [Procs -> Seq(Byte)]
      /\ count[r] \in Nat /\ kfifo_len(in_fifo) \in Nat /\ in_fifo \in Kfifo
  BY Constants, SMTT(30) DEF DeviceTypeOK
<1>1. PICK c \in 0 .. l : buf' = [buf EXCEPT ![r] = Peek(in_fifo, c)]
  BY DEF ReadCopy
<1>2. c \in Nat /\ c <= kfifo_len(in_fifo)
  BY <1>t DEF AtMost
<1>3. /\ Len(Peek(in_fifo, c)) = c
      /\ \A k \in 1 .. c : Peek(in_fifo, c)[k] = ByteAt(in_fifo, in_fifo.out + k - 1)
  BY <1>t, <1>2, PeekType
<1>4. UNCHANGED <<in_fifo, out_fifo, accepted, kept, received>>
  BY DEF ReadCopy, history, queues
<1>5. pc' = [pc EXCEPT ![r] = "commit"]
  BY DEF ReadCopy
<1>6. StagedInv'
  <2>1. ASSUME NEW q \in Readers, pc'[q] = "commit"
        PROVE  /\ Len(buf'[q]) <= kfifo_len(in_fifo)
               /\ \A k \in 1 .. Len(buf'[q]) :
                    buf'[q][k] = ByteAt(in_fifo, in_fifo.out + k - 1)
    <3>1. CASE q = r
      BY <3>1, <1>t, <1>1, <1>2, <1>3
    <3>2. CASE q # r
      BY <3>2, <2>1, <1>t, <1>1, <1>5, Constants DEF DataInv, StagedInv
    <3> QED
      BY <3>1, <3>2
  <2>2. ASSUME NEW w \in Writers
        PROVE  pc'[w] = pc[w] /\ buf'[w] = buf[w]
    BY <1>t, <1>1, <1>5, Constants
  <2> QED
    BY <2>1, <2>2, <1>4 DEF DataInv, StagedInv
<1>7. CounterInv' /\ RingInv' /\ ReceivedInv' /\ KeptInv'
  BY <1>4 DEF DataInv, CounterInv, RingInv, ReceivedInv, KeptInv
<1> QED
  BY <1>6, <1>7 DEF DataInv

\* kfifo_to_user, advancing: the bytes copied are still the oldest ones, and
\* received grows by what the tasklet stored next.
LEMMA ReadCommitData ==
  ASSUME DeviceTypeOK, LockInv, DataInv, NEW r \in Readers, ReadCommit(r)
  PROVE  DataInv'
<1> DEFINE n == Len(buf[r])
<1>t. /\ r \in Procs /\ pc \in [Procs -> Labels] /\ buf \in [Procs -> Seq(Byte)]
      /\ buf[r] \in Seq(Byte) /\ n \in Nat
      /\ received \in Seq(Byte) /\ kept \in Seq(Nat) /\ in_fifo \in Kfifo
  BY Constants, SMTT(30) DEF DeviceTypeOK
<1>n. /\ in_fifo.in \in Nat /\ in_fifo.out \in Nat
      /\ in_fifo.in = Len(kept) /\ in_fifo.out = Len(received)
  BY FifoTypes DEF DataInv, CounterInv
<1>s. /\ pc[r] = "commit"
      /\ n <= in_fifo.in - in_fifo.out
      /\ \A k \in 1 .. n : buf[r][k] = ByteAt(in_fifo, in_fifo.out + k - 1)
  BY DEF ReadCommit, DataInv, StagedInv, kfifo_len
<1>1. /\ in_fifo' \in Kfifo /\ in_fifo'.buf = in_fifo.buf
      /\ in_fifo'.in = in_fifo.in /\ in_fifo'.out = in_fifo.out + n
  BY <1>t, AdvanceFacts DEF ReadCommit
<1>2. /\ received' = received \o buf[r]
      /\ UNCHANGED <<out_fifo, accepted, kept>>
      /\ pc' = [pc EXCEPT ![r] = "idle"] /\ buf' = [buf EXCEPT ![r] = <<>>]
  BY DEF ReadCommit, Return
<1>3. \A i \in Nat : ByteAt(in_fifo', i) = ByteAt(in_fifo, i)
  BY <1>1 DEF ByteAt
<1>4. StagedInv'
  <2>1. ASSUME NEW q \in Readers
        PROVE  pc'[q] # "commit"
    <3>1. CASE q = r
      BY <3>1, <1>2, <1>t
    <3>2. CASE q # r
      BY <3>2, <1>s, <1>2, <1>t, Constants DEF LockInv
    <3> QED
      BY <3>1, <3>2
  <2>2. ASSUME NEW w \in Writers
        PROVE  pc'[w] = pc[w] /\ buf'[w] = buf[w]
    BY <1>t, <1>2, Constants
  <2> QED
    BY <2>1, <2>2, <1>2 DEF DataInv, StagedInv
<1>5. CounterInv'
  BY <1>1, <1>2, <1>n, <1>t DEF DataInv, CounterInv
<1>6. RingInv'
  <2>1. ASSUME NEW i \in in_fifo'.out .. (in_fifo'.in - 1)
        PROVE  ByteAt(in_fifo', i) = accepted[kept[i + 1]]
    <3>1. i \in in_fifo.out .. (in_fifo.in - 1) /\ i \in Nat
      BY <1>1, <1>n, <1>t
    <3> QED
      BY <3>1, <1>3 DEF DataInv, RingInv
  <2> QED
    BY <2>1, <1>2 DEF DataInv, RingInv
<1>7. KeptInv'
  BY <1>2 DEF DataInv, KeptInv
<1>8. ReceivedInv'
  <2> SUFFICES ASSUME NEW i \in 1 .. Len(received')
               PROVE  received'[i] = accepted[kept[i]]
    BY <1>2 DEF ReceivedInv
  <2>0. Len(received') = Len(received) + n
    BY <1>2, <1>t
  <2>1. CASE i <= Len(received)
    <3>1. received'[i] = received[i] /\ i \in 1 .. Len(received)
      BY <2>1, <1>2, <1>t
    <3> QED
      BY <3>1 DEF DataInv, ReceivedInv
  <2>2. CASE i > Len(received)
    <3> DEFINE k == i - Len(received)
    <3>1. k \in 1 .. n /\ received'[i] = buf[r][k]
      BY <2>0, <2>2, <1>2, <1>t
    <3>2. in_fifo.out + k - 1 = i - 1 /\ i - 1 \in in_fifo.out .. (in_fifo.in - 1)
      BY <3>1, <1>n, <1>s, <1>t
    <3>3. ByteAt(in_fifo, i - 1) = accepted[kept[(i - 1) + 1]]
      BY <3>2 DEF DataInv, RingInv
    <3>4. (i - 1) + 1 = i
      BY <1>t
    <3> QED
      BY <3>1, <3>2, <3>3, <3>4, <1>s
  <2> QED
    BY <2>1, <2>2, <1>t
<1> QED
  BY <1>4, <1>5, <1>6, <1>7, <1>8 DEF DataInv

\* kfifo_from_user, copying: the bytes go into free slots, so those between out
\* and in are not touched.
LEMMA WriteCopyData ==
  ASSUME DeviceTypeOK, LockInv, DataInv, NEW w \in Writers, WriteCopy(w)
  PROVE  DataInv'
<1> DEFINE l == AtMost(count[w], kfifo_avail(out_fifo))
<1>t. /\ w \in Procs /\ pc \in [Procs -> Labels] /\ buf \in [Procs -> Seq(Byte)]
      /\ count[w] \in Nat
  BY Constants DEF DeviceTypeOK
<1>n. /\ out_fifo \in Kfifo /\ out_fifo.in \in Nat /\ out_fifo.out \in Nat
      /\ out_fifo.in - out_fifo.out >= 0 /\ kfifo_avail(out_fifo) \in Int
  BY FifoTypes DEF kfifo_avail, kfifo_len
<1>1. PICK c \in 0 .. l : \E data \in [1 .. c -> Byte] :
         out_fifo' = CopyIn(out_fifo, data) /\ buf' = [buf EXCEPT ![w] = data]
  BY DEF WriteCopy
<1>2. PICK data \in [1 .. c -> Byte] :
         out_fifo' = CopyIn(out_fifo, data) /\ buf' = [buf EXCEPT ![w] = data]
  BY <1>1
<1>3. c \in Nat /\ c <= kfifo_avail(out_fifo)
  BY <1>t, <1>n DEF AtMost
<1>4. data \in Seq(Byte) /\ Len(data) = c
  BY <1>3
<1>5. /\ out_fifo'.in = out_fifo.in /\ out_fifo'.out = out_fifo.out
      /\ \A i \in out_fifo.out .. (out_fifo.in - 1) :
           ByteAt(out_fifo', i) = ByteAt(out_fifo, i)
      /\ \A k \in 1 .. Len(data) : ByteAt(out_fifo', out_fifo.in + k - 1) = data[k]
  BY <1>2, <1>3, <1>4, <1>n, CopyInFacts
<1>6. /\ UNCHANGED <<in_fifo, accepted, kept, received>>
      /\ pc[w] = "copy" /\ pc' = [pc EXCEPT ![w] = "commit"]
  BY DEF WriteCopy, history
<1>7. StagedInv'
  <2>1. ASSUME NEW v \in Writers, pc'[v] = "commit"
        PROVE  /\ Len(buf'[v]) <= kfifo_avail(out_fifo')
               /\ \A k \in 1 .. Len(buf'[v]) :
                    buf'[v][k] = ByteAt(out_fifo', out_fifo'.in + k - 1)
    <3>1. CASE v = w
      <4>1. buf'[v] = data
        BY <3>1, <1>2, <1>t
      <4>2. kfifo_avail(out_fifo') = kfifo_avail(out_fifo)
        BY <1>5 DEF kfifo_avail, kfifo_len
      <4> QED
        BY <4>1, <4>2, <1>3, <1>4, <1>5
    <3>2. CASE v # w
      BY <3>2, <2>1, <1>t, <1>6, Constants DEF LockInv
    <3> QED
      BY <3>1, <3>2
  <2>2. ASSUME NEW r \in Readers
        PROVE  pc'[r] = pc[r] /\ buf'[r] = buf[r]
    BY <1>t, <1>2, <1>6, Constants
  <2> QED
    BY <2>1, <2>2, <1>6 DEF DataInv, StagedInv
<1>8. CounterInv' /\ ReceivedInv'
  BY <1>5, <1>6 DEF DataInv, CounterInv, ReceivedInv
<1>9. RingInv'
  BY <1>5, <1>6 DEF DataInv, RingInv
<1>10. KeptInv'
  BY <1>5, <1>6 DEF DataInv, KeptInv
<1> QED
  BY <1>7, <1>8, <1>9, <1>10 DEF DataInv

\* kfifo_from_user, advancing: the slots that become visible hold the bytes
\* that accepted grows by.
LEMMA WriteCommitData ==
  ASSUME DeviceTypeOK, LockInv, DataInv, NEW w \in Writers, WriteCommit(w)
  PROVE  DataInv'
<1> DEFINE n == Len(buf[w])
<1>t. /\ w \in Procs /\ pc \in [Procs -> Labels] /\ buf \in [Procs -> Seq(Byte)]
      /\ buf[w] \in Seq(Byte) /\ n \in Nat
      /\ accepted \in Seq(Byte) /\ kept \in Seq(Nat) /\ out_fifo \in Kfifo
  BY Constants, SMTT(30) DEF DeviceTypeOK
<1>n. /\ in_fifo.in \in Nat /\ in_fifo.out \in Nat
      /\ out_fifo.in \in Nat /\ out_fifo.out \in Nat
      /\ out_fifo.out <= out_fifo.in /\ in_fifo.out <= in_fifo.in
      /\ in_fifo.in = Len(kept) /\ in_fifo.out = Len(received)
      /\ out_fifo.in = Len(accepted)
  BY FifoTypes DEF DataInv, CounterInv
<1>s. /\ pc[w] = "commit"
      /\ \A k \in 1 .. n : buf[w][k] = ByteAt(out_fifo, out_fifo.in + k - 1)
  BY DEF WriteCommit, DataInv, StagedInv
<1>1. /\ out_fifo'.buf = out_fifo.buf
      /\ out_fifo'.in = out_fifo.in + n /\ out_fifo'.out = out_fifo.out
  BY <1>t, AdvanceFacts DEF WriteCommit
<1>2. /\ accepted' = accepted \o buf[w]
      /\ UNCHANGED <<in_fifo, kept, received, buf>>
      /\ pc' = [pc EXCEPT ![w] = "kick"]
  BY DEF WriteCommit, Goto
<1>3. \A i \in Nat : ByteAt(out_fifo', i) = ByteAt(out_fifo, i)
  BY <1>1 DEF ByteAt
<1>4. /\ Len(accepted') = Len(accepted) + n
      /\ \A x \in 1 .. Len(accepted) : accepted'[x] = accepted[x]
      /\ \A k \in 1 .. n : accepted'[Len(accepted) + k] = buf[w][k]
  BY <1>2, <1>t
<1>5. \A i \in 1 .. Len(kept) : accepted'[kept[i]] = accepted[kept[i]]
  <2> SUFFICES ASSUME NEW i \in 1 .. Len(kept)
               PROVE  kept[i] \in 1 .. Len(accepted)
    BY <1>4
  <2>1. kept[i] \in 1 .. out_fifo.out
    BY DEF DataInv, KeptInv
  <2> QED
    BY <2>1, <1>n
<1>6. StagedInv'
  <2>1. ASSUME NEW v \in Writers
        PROVE  pc'[v] # "commit"
    <3>1. CASE v = w
      BY <3>1, <1>2, <1>t
    <3>2. CASE v # w
      BY <3>2, <1>s, <1>2, <1>t, Constants DEF LockInv
    <3> QED
      BY <3>1, <3>2
  <2>2. ASSUME NEW r \in Readers
        PROVE  pc'[r] = pc[r]
    BY <1>t, <1>2, Constants
  <2> QED
    BY <2>1, <2>2, <1>2 DEF DataInv, StagedInv
<1>7. CounterInv'
  BY <1>1, <1>2, <1>4, <1>n DEF CounterInv
<1>8. RingInv'
  <2>1. ASSUME NEW i \in out_fifo'.out .. (out_fifo'.in - 1)
        PROVE  ByteAt(out_fifo', i) = accepted'[i + 1]
    <3>1. i \in Nat /\ i >= out_fifo.out /\ i < out_fifo.in + n
      BY <1>1, <1>n, <1>t
    <3>2. CASE i < out_fifo.in
      <4>1. i \in out_fifo.out .. (out_fifo.in - 1) /\ i + 1 \in 1 .. Len(accepted)
        BY <3>1, <3>2, <1>n
      <4> QED
        BY <4>1, <3>1, <1>3, <1>4 DEF DataInv, RingInv
    <3>3. CASE i >= out_fifo.in
      <4> DEFINE k == i - out_fifo.in + 1
      <4>1. /\ k \in 1 .. n /\ out_fifo.in + k - 1 = i
            /\ Len(accepted) + k = i + 1
        BY <3>1, <3>3, <1>n, <1>t
      <4> QED
        BY <4>1, <3>1, <1>3, <1>4, <1>s
    <3> QED
      BY <3>1, <3>2, <3>3, <1>n
  <2>2. ASSUME NEW i \in in_fifo.out .. (in_fifo.in - 1)
        PROVE  ByteAt(in_fifo, i) = accepted'[kept[i + 1]]
    <3>1. i + 1 \in 1 .. Len(kept)
      BY <1>n
    <3> QED
      BY <3>1, <1>5 DEF DataInv, RingInv
  <2> QED
    BY <2>1, <2>2, <1>2 DEF RingInv
<1>9. KeptInv'
  BY <1>1, <1>2 DEF DataInv, KeptInv
<1>10. ReceivedInv'
  <2> SUFFICES ASSUME NEW i \in 1 .. Len(received)
               PROVE  received[i] = accepted'[kept[i]]
    BY <1>2 DEF ReceivedInv
  <2>1. i \in 1 .. Len(kept)
    BY <1>n
  <2> QED
    BY <2>1, <1>5 DEF DataInv, ReceivedInv
<1> QED
  BY <1>6, <1>7, <1>8, <1>9, <1>10 DEF DataInv

\* Every step of a process keeps the bytes in order.
LEMMA UserDataInv == DeviceInv /\ UserNext => DataInv'
<1> SUFFICES ASSUME DeviceTypeOK, LockInv, DataInv, UserNext
             PROVE  DataInv'
  BY DEF DeviceInv
<1> USE Constants
<1>p. pc \in [Procs -> Labels] /\ buf \in [Procs -> Seq(Byte)]
  BY DEF DeviceTypeOK
<1> DEFINE Frame == /\ UNCHANGED <<queues, history>>
                    /\ \A p \in Procs : pc'[p] = "commit" =>
                         pc[p] = "commit" /\ buf'[p] = buf[p]
<1>f. Frame => DataInv'
  BY DataFrame
<1>1. ASSUME NEW p \in Procs, Wait(p)
      PROVE  Frame
  <2> USE DEF Goto, Return
  <2>1. CASE WaitPrepare(p)
    BY <1>p, <2>1 DEF WaitPrepare
  <2>2. CASE WaitDone(p)
    BY <1>p, <2>2 DEF WaitDone
  <2>3. CASE WaitIntr(p)
    BY <1>p, <2>3 DEF WaitIntr
  <2>4. CASE WaitSleep(p)
    BY <1>p, <2>4 DEF WaitSleep
  <2>5. CASE WaitWoken(p)
    BY <1>p, <2>5 DEF WaitWoken
  <2> QED
    BY <1>1, <2>1, <2>2, <2>3, <2>4, <2>5 DEF Wait
<1>2. ASSUME NEW p \in Procs, Enter(p) \/ PollEnter(p) \/ Signal(p)
      PROVE  Frame
  BY <1>p, <1>2 DEF Enter, PollEnter, Signal, Goto
<1>3. ASSUME NEW r \in Readers, Read(r)
      PROVE  DataInv'
  <2>1. CASE Enter(r)
    BY <1>f, <1>2, <2>1
  <2>2. CASE ReadLock(r)
    BY <1>f, <1>p, <2>2 DEF ReadLock, Goto
  <2>3. CASE ReadLockIntr(r)
    BY <1>f, <1>p, <2>3 DEF ReadLockIntr, Return
  <2>4. CASE ReadCopy(r)
    BY <2>4, ReadCopyData
  <2>5. CASE ReadCommit(r)
    BY <2>5, ReadCommitData
  <2> QED
    BY <1>3, <2>1, <2>2, <2>3, <2>4, <2>5 DEF Read
<1>4. ASSUME NEW w \in Writers, Write(w)
      PROVE  DataInv'
  <2>1. CASE Enter(w)
    BY <1>f, <1>2, <2>1
  <2>2. CASE WriteLock(w)
    BY <1>f, <1>p, <2>2 DEF WriteLock, Goto
  <2>3. CASE WriteLockIntr(w)
    BY <1>f, <1>p, <2>3 DEF WriteLockIntr, Return
  <2>4. CASE WriteCopy(w)
    BY <2>4, WriteCopyData
  <2>5. CASE WriteCommit(w)
    BY <2>5, WriteCommitData
  <2>6. CASE WriteKick(w)
    BY <1>f, <1>p, <2>6 DEF WriteKick, Return
  <2> QED
    BY <1>4, <2>1, <2>2, <2>3, <2>4, <2>5, <2>6 DEF Write
<1> HIDE DEF Frame
<1> QED
  BY <1>f, <1>1, <1>2, <1>3, <1>4 DEF UserNext

\* The processes keep the whole invariant.
LEMMA UserInv == DeviceInv /\ UserNext => DeviceInv'
BY UserTypeOK, UserLockInv, UserDataInv DEF DeviceInv, DataInv

\* A process takes nothing out of out_fifo and stores nothing into in_fifo,
\* and the bytes already accepted stay what they are.
LEMMA UserHistory ==
  ASSUME DeviceInv, UserNext
  PROVE  /\ out_fifo'.out = out_fifo.out /\ kept' = kept
         /\ \A i \in 1 .. Len(accepted) : accepted'[i] = accepted[i]
<1> USE Constants
<1>t. /\ buf \in [Procs -> Seq(Byte)] /\ accepted \in Seq(Byte)
      /\ out_fifo \in Kfifo
  BY DEF DeviceInv, DeviceTypeOK
<1>1. CASE UNCHANGED <<out_fifo, accepted, kept>>
  BY <1>1
<1>2. ASSUME NEW p \in Procs, Wait(p)
      PROVE  UNCHANGED <<out_fifo, accepted, kept>>
  BY <1>2 DEF Wait, WaitPrepare, WaitDone, WaitIntr, WaitSleep, WaitWoken,
              queues, history
<1>3. ASSUME NEW r \in Readers, Read(r)
      PROVE  UNCHANGED <<out_fifo, accepted, kept>>
  BY <1>3 DEF Read, Enter, ReadLock, ReadLockIntr, ReadCopy, ReadCommit,
              queues, history
<1>4. ASSUME NEW p \in Procs, PollEnter(p) \/ Signal(p)
      PROVE  UNCHANGED <<out_fifo, accepted, kept>>
  BY <1>4 DEF PollEnter, Signal, queues, history
<1>5. ASSUME NEW w \in Writers, Write(w), ~UNCHANGED <<out_fifo, accepted, kept>>
      PROVE  WriteCopy(w) \/ WriteCommit(w)
  BY <1>5 DEF Write, Enter, WriteLock, WriteLockIntr, WriteKick, queues, history
<1>6. ASSUME NEW w \in Writers, WriteCopy(w)
      PROVE  out_fifo'.out = out_fifo.out /\ UNCHANGED <<accepted, kept>>
  <2>1. PICK c \in 0 .. AtMost(count[w], kfifo_avail(out_fifo)) :
          \E data \in [1 .. c -> Byte] : out_fifo' = CopyIn(out_fifo, data)
    BY <1>6 DEF WriteCopy
  <2>2. PICK data \in [1 .. c -> Byte] : out_fifo' = CopyIn(out_fifo, data)
    BY <2>1
  <2>3. data \in Seq(Byte)
    OBVIOUS
  <2> QED
    BY <1>6, <1>t, <2>2, <2>3, CopyInFacts DEF WriteCopy, history
<1>7. ASSUME NEW w \in Writers, WriteCommit(w)
      PROVE  /\ out_fifo'.out = out_fifo.out /\ UNCHANGED kept
             /\ \A i \in 1 .. Len(accepted) : accepted'[i] = accepted[i]
  <2>1. buf[w] \in Seq(Byte) /\ Len(buf[w]) \in Nat
    BY <1>t
  <2>2. out_fifo'.out = out_fifo.out /\ UNCHANGED kept
    BY <1>7, <1>t, <2>1, AdvanceFacts DEF WriteCommit
  <2>3. accepted' = accepted \o buf[w]
    BY <1>7 DEF WriteCommit
  <2> QED
    BY <1>t, <2>1, <2>2, <2>3
<1> QED
  BY <1>1, <1>2, <1>3, <1>4, <1>5, <1>6, <1>7 DEF UserNext

----------------------------------------------------------------------------
(* Steps of the tasklet *)

\* What every step of the tasklet or of an interrupt leaves alone.
TaskletFrame ==
  /\ UNCHANGED <<user, locks, accepted, received>>
  /\ waiting' \subseteq Procs
  /\ sched' \in BOOLEAN

\* It touches neither queue.
LEMMA QuietStep ==
  ASSUME DeviceInv, TaskletFrame, UNCHANGED <<queues, kept>>
  PROVE  DeviceInv'
<1>1. UNCHANGED <<pc, buf, count, ret, signalled, read_lock, write_lock>>
  BY DEF TaskletFrame, user, locks
<1>2. DeviceTypeOK'
  BY <1>1 DEF DeviceInv, DeviceTypeOK, TaskletFrame, queues
<1>3. LockInv'
  BY <1>1 DEF DeviceInv, LockInv
<1>4. DataInv'
  <2>1. UNCHANGED <<queues, history>>
    BY DEF TaskletFrame, history
  <2> QED
    BY <2>1, <1>1, DataFrame DEF DeviceInv
<1> QED
  BY <1>2, <1>3, <1>4 DEF DeviceInv

\* It takes the oldest byte of out_fifo: the byte is the next one in the order
\* of acceptance.
LEMMA TakeStep ==
  ASSUME DeviceInv, TaskletFrame, UNCHANGED <<in_fifo, kept>>,
         ~kfifo_is_empty(out_fifo),
         out_fifo' = AdvanceOut(out_fifo, 1)
  PROVE  /\ DeviceInv'
         /\ out_fifo'.out = out_fifo.out + 1
         /\ ByteAt(out_fifo, out_fifo.out) \in Byte
         /\ ByteAt(out_fifo, out_fifo.out) = accepted[out_fifo.out + 1]
<1>n. /\ out_fifo \in Kfifo /\ out_fifo.in \in Nat /\ out_fifo.out \in Nat
      /\ out_fifo.in - out_fifo.out \in 0 .. FifoSize /\ FifoSize \in Nat
      /\ out_fifo.in # out_fifo.out
  BY FifoTypes DEF kfifo_is_empty, DeviceInv
<1>1. /\ out_fifo' \in Kfifo /\ out_fifo'.buf = out_fifo.buf
      /\ out_fifo'.in = out_fifo.in /\ out_fifo'.out = out_fifo.out + 1
  BY <1>n, AdvanceFacts
<1>2. /\ UNCHANGED <<in_fifo, accepted, kept, received, pc, buf, count, ret,
                     signalled, read_lock, write_lock>>
      /\ DataInv
  BY DEF TaskletFrame, user, locks, DeviceInv
<1>3. \A i \in Nat : ByteAt(out_fifo', i) = ByteAt(out_fifo, i)
  BY <1>1 DEF ByteAt
<1>a. ByteAt(out_fifo, out_fifo.out) = accepted[out_fifo.out + 1]
  BY <1>n, <1>2 DEF DataInv, RingInv
<1>b. ByteAt(out_fifo, out_fifo.out) \in Byte
  BY <1>n, SlotInRange DEF ByteAt, Kfifo
<1>c. DeviceTypeOK'
  <2>1. kfifo_len(out_fifo') \in 0 .. FifoSize
    BY <1>n, <1>1 DEF kfifo_len
  <2> QED
    BY <1>1, <1>2, <2>1 DEF DeviceInv, DeviceTypeOK, TaskletFrame
<1>d. LockInv'
  BY <1>2 DEF DeviceInv, LockInv
<1>4. StagedInv'
  <2>1. kfifo_avail(out_fifo') = kfifo_avail(out_fifo) + 1
    BY <1>1, <1>n DEF kfifo_avail, kfifo_len
  <2>2. ASSUME NEW w \in Writers, pc[w] = "commit"
        PROVE  /\ Len(buf[w]) <= kfifo_avail(out_fifo')
               /\ \A k \in 1 .. Len(buf[w]) :
                    buf[w][k] = ByteAt(out_fifo', out_fifo'.in + k - 1)
    <3>1. Len(buf[w]) \in Nat
      BY Constants DEF DeviceInv, DeviceTypeOK
    <3>2. /\ Len(buf[w]) <= kfifo_avail(out_fifo)
          /\ \A k \in 1 .. Len(buf[w]) :
                    buf[w][k] = ByteAt(out_fifo, out_fifo.in + k - 1)
      BY <2>2, <1>2 DEF DataInv, StagedInv
    <3>3. \A k \in 1 .. Len(buf[w]) : out_fifo.in + k - 1 \in Nat
      BY <3>1, <1>n
    <3>4. kfifo_avail(out_fifo) \in Int
      BY <1>n DEF kfifo_avail, kfifo_len
    <3>5. Len(buf[w]) <= kfifo_avail(out_fifo')
      BY <2>1, <3>1, <3>2, <3>4
    <3> QED
      BY <3>2, <3>3, <3>5, <1>1, <1>3
  <2> QED
    BY <2>2, <1>2 DEF DataInv, StagedInv
<1>5. CounterInv' /\ ReceivedInv'
  BY <1>1, <1>2 DEF DataInv, CounterInv, ReceivedInv
<1>6. RingInv'
  <2>1. ASSUME NEW i \in out_fifo'.out .. (out_fifo'.in - 1)
        PROVE  ByteAt(out_fifo', i) = accepted[i + 1]
    <3>1. i \in Nat /\ i \in out_fifo.out .. (out_fifo.in - 1)
      BY <1>1, <1>n
    <3> QED
      BY <3>1, <1>2, <1>3 DEF DataInv, RingInv
  <2> QED
    BY <2>1, <1>2 DEF DataInv, RingInv
<1>7. KeptInv'
  <2>1. ASSUME NEW i \in 1 .. Len(kept)
        PROVE  kept[i] \in 1 .. (out_fifo.out + 1)
    <3>1. kept[i] \in 1 .. out_fifo.out
      BY <1>2 DEF DataInv, KeptInv
    <3> QED
      BY <3>1, <1>n
  <2> QED
    BY <2>1, <1>1, <1>2 DEF DataInv, KeptInv
<1> QED
  BY <1>1, <1>a, <1>b, <1>c, <1>d, <1>4, <1>5, <1>6, <1>7 DEF DeviceInv, DataInv

\* It stores into in_fifo a byte b that was accepted as number n, taken from
\* out_fifo, and later than everything stored before.
LEMMA StoreStep ==
  ASSUME DeviceInv, TaskletFrame, UNCHANGED out_fifo,
         ~kfifo_is_full(in_fifo),
         NEW b \in Byte, NEW n \in 1 .. out_fifo.out,
         b = accepted[n],
         \A i \in 1 .. Len(kept) : kept[i] < n,
         in_fifo' = Push(in_fifo, b),
         kept' = Append(kept, n)
  PROVE  DeviceInv'
<1>n. /\ in_fifo \in Kfifo /\ in_fifo.in \in Nat /\ in_fifo.out \in Nat
      /\ in_fifo.in - in_fifo.out \in 0 .. FifoSize /\ FifoSize \in Nat
      /\ out_fifo.out \in Nat /\ kept \in Seq(Nat)
      /\ in_fifo.in = Len(kept) /\ in_fifo.out = Len(received)
      /\ ~(in_fifo.in - in_fifo.out >= FifoSize) /\ n \in Nat
  BY FifoTypes DEF DeviceTypeOK, DeviceInv, DataInv, CounterInv, kfifo_is_full,
                   kfifo_len
<1>1. /\ in_fifo' \in Kfifo
      /\ in_fifo'.in = in_fifo.in + 1 /\ in_fifo'.out = in_fifo.out
      /\ \A i \in in_fifo.out .. (in_fifo.in - 1) :
           ByteAt(in_fifo', i) = ByteAt(in_fifo, i)
      /\ ByteAt(in_fifo', in_fifo.in) = b
  BY <1>n, PushFacts, SMTT(40)
<1>2. /\ UNCHANGED <<out_fifo, accepted, received, pc, buf, count, ret,
                     signalled, read_lock, write_lock>>
      /\ DataInv
  BY DEF TaskletFrame, user, locks, DeviceInv
<1>3. /\ Len(kept') = Len(kept) + 1 /\ kept'[Len(kept) + 1] = n
      /\ \A i \in 1 .. Len(kept) : kept'[i] = kept[i]
  BY <1>n
<1>c. DeviceTypeOK'
  <2>1. kfifo_len(in_fifo') \in 0 .. FifoSize
    BY <1>n, <1>1 DEF kfifo_len
  <2>2. kept' \in Seq(Nat)
    BY <1>n
  <2> QED
    BY <1>1, <1>2, <2>1, <2>2 DEF DeviceInv, DeviceTypeOK, TaskletFrame
<1>d. LockInv'
  BY <1>2 DEF DeviceInv, LockInv
<1>4. StagedInv'
  <2>1. kfifo_len(in_fifo') = kfifo_len(in_fifo) + 1
    BY <1>1, <1>n DEF kfifo_len
  <2>2. ASSUME NEW r \in Readers, pc[r] = "commit"
        PROVE  /\ Len(buf[r]) <= kfifo_len(in_fifo')
               /\ \A k \in 1 .. Len(buf[r]) :
                    buf[r][k] = ByteAt(in_fifo', in_fifo'.out + k - 1)
    <3>1. Len(buf[r]) \in Nat
      BY Constants DEF DeviceInv, DeviceTypeOK
    <3>2. /\ Len(buf[r]) <= in_fifo.in - in_fifo.out
          /\ \A k \in 1 .. Len(buf[r]) :
                    buf[r][k] = ByteAt(in_fifo, in_fifo.out + k - 1)
      BY <2>2, <1>2 DEF DataInv, StagedInv, kfifo_len
    <3>3. \A k \in 1 .. Len(buf[r]) :
            in_fifo.out + k - 1 \in in_fifo.out .. (in_fifo.in - 1)
      <4>1. in_fifo.in \in Nat /\ in_fifo.out \in Nat
        BY <1>n
      <4> QED
        BY ONLY <3>1, <3>2, <4>1
    <3>4. Len(buf[r]) <= kfifo_len(in_fifo')
      BY <2>1, <3>1, <3>2, <1>n DEF kfifo_len
    <3> QED
      BY <3>2, <3>3, <3>4, <1>1
  <2> QED
    BY <2>2, <1>2 DEF DataInv, StagedInv
<1>5. CounterInv'
  BY <1>1, <1>2, <1>3, <1>n DEF DataInv, CounterInv
<1>6. RingInv'
  <2>1. ASSUME NEW i \in in_fifo'.out .. (in_fifo'.in - 1)
        PROVE  ByteAt(in_fifo', i) = accepted[kept'[i + 1]]
    <3>1. CASE i = in_fifo.in
      BY <3>1, <1>1, <1>3, <1>n
    <3>2. CASE i # in_fifo.in
      <4>1. i \in in_fifo.out .. (in_fifo.in - 1) /\ i + 1 \in 1 .. Len(kept)
        BY <3>2, <1>1, <1>n
      <4> QED
        BY <4>1, <1>1, <1>2, <1>3 DEF DataInv, RingInv
    <3> QED
      BY <3>1, <3>2
  <2> QED
    BY <2>1, <1>2 DEF DataInv, RingInv
<1>7. KeptInv'
  <2>1. \A i \in 1 .. Len(kept) : kept[i] \in 1 .. out_fifo.out
    BY <1>2 DEF DataInv, KeptInv
  <2>2. \A i \in 1 .. Len(kept') : i \in 1 .. Len(kept) \/ i = Len(kept) + 1
    BY <1>3, <1>n
  <2>3. \A i \in 1 .. Len(kept') : kept'[i] \in 1 .. out_fifo.out
    BY <2>1, <2>2, <1>3, <1>n
  <2>4. ASSUME NEW i \in 1 .. Len(kept'), NEW j \in 1 .. Len(kept'), i < j
        PROVE  kept'[i] < kept'[j]
    <3>1. i \in 1 .. Len(kept)
      BY <2>4, <1>3, <1>n
    <3>2. CASE j \in 1 .. Len(kept)
      BY <2>4, <3>1, <3>2, <1>2, <1>3 DEF DataInv, KeptInv
    <3>3. CASE j = Len(kept) + 1
      BY <3>1, <3>3, <1>3
    <3> QED
      BY <2>2, <3>2, <3>3
  <2> QED
    BY <2>3, <2>4, <1>2 DEF KeptInv
<1>8. ReceivedInv'
  <2> SUFFICES ASSUME NEW i \in 1 .. Len(received)
               PROVE  received[i] = accepted[kept'[i]]
    BY <1>2 DEF ReceivedInv
  <2>1. i \in 1 .. Len(kept)
    BY <1>n
  <2> QED
    BY <2>1, <1>2, <1>3 DEF DataInv, ReceivedInv
<1> QED
  BY <1>c, <1>d, <1>4, <1>5, <1>6, <1>7, <1>8 DEF DeviceInv, DataInv

----------------------------------------------------------------------------
(* What the invariant gives, and what the processes do to the other safety  *)
(* properties                                                               *)

\* The invariant implies that the loopback is faithful.
LEMMA DeviceFaithful == DeviceInv => FaithfulLoop
<1> SUFFICES ASSUME DeviceInv
             PROVE  FaithfulLoop
  OBVIOUS
<1>0. DeviceTypeOK /\ CounterInv /\ KeptInv /\ ReceivedInv
  BY DEF DeviceInv, DataInv
<1>1. /\ Len(received) <= Len(kept) /\ Len(kept) \in Nat
      /\ Len(received) \in Nat /\ Len(accepted) \in Nat
      /\ out_fifo.out <= Len(accepted) /\ out_fifo.out \in Nat
  BY <1>0, FifoTypes DEF CounterInv
<1>2. \A i \in 1 .. Len(received) : kept[i] \in 1 .. Len(accepted)
  BY <1>0, <1>1 DEF KeptInv
<1> QED
  BY <1>0, <1>1, <1>2 DEF FaithfulLoop, KeptInv, ReceivedInv

\* A process never cancels the tasklet, and bytes appear in out_fifo only
\* together with a writer about to schedule it.
InCharge == sched \/ \E w \in Writers : pc[w] = "kick"

\* A step of a process never leaves bytes in out_fifo with nobody in charge: the
\* writer that stored them is before its tasklet_schedule, or has called it.
LEMMA UserCharge ==
  ASSUME DeviceTypeOK, UserNext
  PROVE  /\ sched => sched'
         /\ InCharge => InCharge'
         /\ kfifo_is_empty(out_fifo) => kfifo_is_empty(out_fifo') \/ InCharge'
<1> USE Constants
<1>p. pc \in [Procs -> Labels] /\ out_fifo \in Kfifo
  BY DEF DeviceTypeOK
<1> DEFINE Goal == /\ sched => sched'
                   /\ InCharge => InCharge'
                   /\ kfifo_is_empty(out_fifo) =>
                        kfifo_is_empty(out_fifo') \/ InCharge'
           Frame == /\ UNCHANGED <<out_fifo, sched>>
                    /\ \A w \in Writers : pc[w] = "kick" => pc'[w] = "kick"
<1>f. Frame => Goal
  BY DEF InCharge
<1>1. ASSUME NEW p \in Procs, Wait(p)
      PROVE  Frame
  <2> USE DEF Goto, Return, queues
  <2>1. CASE WaitPrepare(p)
    BY <1>p, <2>1 DEF WaitPrepare
  <2>2. CASE WaitDone(p)
    BY <1>p, <2>2 DEF WaitDone
  <2>3. CASE WaitIntr(p)
    BY <1>p, <2>3 DEF WaitIntr
  <2>4. CASE WaitSleep(p)
    BY <1>p, <2>4 DEF WaitSleep
  <2>5. CASE WaitWoken(p)
    BY <1>p, <2>5 DEF WaitWoken
  <2> QED
    BY <1>1, <2>1, <2>2, <2>3, <2>4, <2>5 DEF Wait
<1>2. ASSUME NEW p \in Procs, Enter(p) \/ PollEnter(p) \/ Signal(p)
      PROVE  Frame
  BY <1>p, <1>2 DEF Enter, PollEnter, Signal, Goto, queues
<1>3. ASSUME NEW r \in Readers, Read(r)
      PROVE  Frame
  <2> USE DEF Goto, Return, queues
  <2>1. CASE Enter(r)
    BY <1>2, <2>1
  <2>2. CASE ReadLock(r)
    BY <1>p, <2>2 DEF ReadLock
  <2>3. CASE ReadLockIntr(r)
    BY <1>p, <2>3 DEF ReadLockIntr
  <2>4. CASE ReadCopy(r)
    BY <1>p, <2>4 DEF ReadCopy
  <2>5. CASE ReadCommit(r)
    BY <1>p, <2>5 DEF ReadCommit
  <2> QED
    BY <1>3, <2>1, <2>2, <2>3, <2>4, <2>5 DEF Read
<1>4. ASSUME NEW w \in Writers, Write(w)
      PROVE  Goal
  <2> USE DEF queues
  <2>1. CASE Enter(w)
    BY <1>f, <1>2, <2>1
  <2>2. CASE WriteLock(w)
    BY <1>f, <1>p, <2>2 DEF WriteLock, Goto
  <2>3. CASE WriteLockIntr(w)
    BY <1>f, <1>p, <2>3 DEF WriteLockIntr, Return
  <2>4. CASE WriteCopy(w)
    <3>1. PICK c \in 0 .. AtMost(count[w], kfifo_avail(out_fifo)) :
            \E data \in [1 .. c -> Byte] : out_fifo' = CopyIn(out_fifo, data)
      BY <2>4 DEF WriteCopy
    <3>2. PICK data \in [1 .. c -> Byte] : out_fifo' = CopyIn(out_fifo, data)
      BY <3>1
    <3>3. data \in Seq(Byte)
      OBVIOUS
    <3>4. kfifo_is_empty(out_fifo') = kfifo_is_empty(out_fifo)
      BY <3>2, <3>3, <1>p, CopyInFacts DEF kfifo_is_empty
    <3>5. /\ UNCHANGED sched
          /\ \A v \in Writers : pc[v] = "kick" => pc'[v] = "kick"
      BY <1>p, <2>4 DEF WriteCopy
    <3> QED
      BY <3>4, <3>5 DEF InCharge
  <2>5. CASE WriteCommit(w)
    <3>1. pc'[w] = "kick" /\ UNCHANGED sched
      BY <1>p, <2>5 DEF WriteCommit, Goto
    <3> QED
      BY <3>1 DEF InCharge
  <2>6. CASE WriteKick(w)
    BY <2>6 DEF WriteKick, InCharge
  <2> QED
    BY <1>4, <2>1, <2>2, <2>3, <2>4, <2>5, <2>6 DEF Write
<1> HIDE DEF Frame, Goal
<1>5. Goal
  BY <1>f, <1>1, <1>2, <1>3, <1>4 DEF UserNext
<1> QED
  BY <1>5 DEF Goal

\* Nobody falls asleep by a step of a process while the condition holds, and
\* no step of a process makes the condition of a sleeper true.
Asleep(p) == p \in waiting /\ pc[p] = "sleep"

\* No step of a process makes the condition of a sleeper true: only the tasklet
\* adds to in_fifo and takes from out_fifo.
LEMMA UserSleep ==
  ASSUME DeviceInv, UserNext, NEW q \in Procs, Asleep(q)', Ready(q)'
  PROVE  Asleep(q) /\ Ready(q)
<1> USE Constants
<1>p. /\ pc \in [Procs -> Labels] /\ buf \in [Procs -> Seq(Byte)]
      /\ waiting \subseteq Procs /\ StagedInv
  BY DEF DeviceInv, DeviceTypeOK, DataInv
<1>n. /\ out_fifo \in Kfifo /\ out_fifo.in \in Nat /\ out_fifo.out \in Nat
      /\ in_fifo \in Kfifo /\ in_fifo.in \in Nat /\ in_fifo.out \in Nat
      /\ FifoSize \in Nat
  BY FifoTypes DEF DeviceInv
<1> DEFINE Goal == Asleep(q) /\ Ready(q)
<1>1. ASSUME NEW p \in Procs, Wait(p)
      PROVE  Goal
  <2>r. Ready(q)' = Ready(q)
    BY <1>1 DEF Wait, WaitPrepare, WaitDone, WaitIntr, WaitSleep, WaitWoken,
                queues, Ready
  <2> USE DEF Goto, Return, Asleep
  <2>1. CASE WaitPrepare(p)
    BY <1>p, <2>1, <2>r DEF WaitPrepare
  <2>2. CASE WaitDone(p)
    BY <1>p, <2>2, <2>r DEF WaitDone
  <2>3. CASE WaitIntr(p)
    BY <1>p, <2>3, <2>r DEF WaitIntr
  <2>4. CASE WaitSleep(p)
    BY <1>p, <2>4, <2>r DEF WaitSleep
  <2>5. CASE WaitWoken(p)
    BY <1>p, <2>5, <2>r DEF WaitWoken
  <2> QED
    BY <1>1, <2>1, <2>2, <2>3, <2>4, <2>5 DEF Wait
<1>2. ASSUME UNCHANGED <<queues, waiting>>,
             \A p \in Procs : pc'[p] = "sleep" => pc[p] = "sleep"
      PROVE  Goal
  BY <1>2 DEF Ready, queues, Asleep
<1>3. ASSUME NEW p \in Procs, Enter(p) \/ PollEnter(p) \/ Signal(p)
      PROVE  Goal
  BY <1>2, <1>p, <1>3 DEF Enter, PollEnter, Signal, Goto
<1>4. ASSUME NEW r \in Readers, Read(r)
      PROVE  Goal
  <2> USE DEF Goto, Return
  <2>1. CASE Enter(r)
    BY <1>3, <2>1
  <2>2. CASE ReadLock(r)
    BY <1>2, <1>p, <2>2 DEF ReadLock
  <2>3. CASE ReadLockIntr(r)
    BY <1>2, <1>p, <2>3 DEF ReadLockIntr
  <2>4. CASE ReadCopy(r)
    BY <1>2, <1>p, <2>4 DEF ReadCopy
  <2>5. CASE ReadCommit(r)
    <3>1. /\ Len(buf[r]) \in Nat
          /\ Len(buf[r]) <= in_fifo.in - in_fifo.out
      BY <1>p, <2>5 DEF ReadCommit, StagedInv, kfifo_len
    <3>2. in_fifo'.in = in_fifo.in /\ in_fifo'.out = in_fifo.out + Len(buf[r])
      BY <1>n, <2>5, <3>1, AdvanceFacts DEF ReadCommit
    <3>3. ~kfifo_is_empty(in_fifo') => ~kfifo_is_empty(in_fifo)
      BY <1>n, <3>1, <3>2 DEF kfifo_is_empty
    <3>4. /\ UNCHANGED <<out_fifo, waiting>>
          /\ \A p \in Procs : pc'[p] = "sleep" => pc[p] = "sleep"
      BY <1>p, <2>5 DEF ReadCommit
    <3> QED
      BY <3>3, <3>4 DEF Ready, Asleep
  <2> QED
    BY <1>4, <2>1, <2>2, <2>3, <2>4, <2>5 DEF Read
<1>5. ASSUME NEW w \in Writers, Write(w)
      PROVE  Goal
  <2> USE DEF Goto, Return
  <2>1. CASE Enter(w)
    BY <1>3, <2>1
  <2>2. CASE WriteLock(w)
    BY <1>2, <1>p, <2>2 DEF WriteLock
  <2>3. CASE WriteLockIntr(w)
    BY <1>2, <1>p, <2>3 DEF WriteLockIntr
  <2>4. CASE WriteCopy(w)
    <3>1. PICK c \in 0 .. AtMost(count[w], kfifo_avail(out_fifo)) :
            \E data \in [1 .. c -> Byte] : out_fifo' = CopyIn(out_fifo, data)
      BY <2>4 DEF WriteCopy
    <3>2. PICK data \in [1 .. c -> Byte] : out_fifo' = CopyIn(out_fifo, data)
      BY <3>1
    <3>3. data \in Seq(Byte)
      OBVIOUS
    <3>4. kfifo_is_full(out_fifo') = kfifo_is_full(out_fifo)
      BY <3>2, <3>3, <1>n, CopyInFacts DEF kfifo_is_full, kfifo_len
    <3>5. /\ UNCHANGED <<in_fifo, waiting>>
          /\ \A p \in Procs : pc'[p] = "sleep" => pc[p] = "sleep"
      BY <1>p, <2>4 DEF WriteCopy
    <3> QED
      BY <3>4, <3>5 DEF Ready, Asleep
  <2>5. CASE WriteCommit(w)
    <3>1. Len(buf[w]) \in Nat
      BY <1>p
    <3>2. out_fifo'.in = out_fifo.in + Len(buf[w]) /\ out_fifo'.out = out_fifo.out
      BY <1>n, <2>5, <3>1, AdvanceFacts DEF WriteCommit
    <3>3. ~kfifo_is_full(out_fifo') => ~kfifo_is_full(out_fifo)
      BY <1>n, <3>1, <3>2 DEF kfifo_is_full, kfifo_len
    <3>4. /\ UNCHANGED <<in_fifo, waiting>>
          /\ \A p \in Procs : pc'[p] = "sleep" => pc[p] = "sleep"
      BY <1>p, <2>5 DEF WriteCommit
    <3> QED
      BY <3>3, <3>4 DEF Ready, Asleep
  <2>6. CASE WriteKick(w)
    BY <1>2, <1>p, <2>6 DEF WriteKick, queues
  <2> QED
    BY <1>5, <2>1, <2>2, <2>3, <2>4, <2>5, <2>6 DEF Write
<1> HIDE DEF Goal
<1>6. Goal
  BY <1>1, <1>3, <1>4, <1>5 DEF UserNext
<1> QED
  BY <1>6 DEF Goal

----------------------------------------------------------------------------
(* Steps of the processes: the wait queues *)

\* A call is on a wait queue only between the two ends of wait_event_interruptible:
\* every way out of the loop takes it off.
LEMMA UserStale == DeviceTypeOK /\ NoStaleWaiter /\ UserNext => NoStaleWaiter'
<1> SUFFICES ASSUME DeviceTypeOK, NoStaleWaiter, UserNext
             PROVE  NoStaleWaiter'
  OBVIOUS
<1> USE Constants DEF NoStaleWaiter, Goto, Return
<1>p. pc \in [Procs -> Labels] /\ waiting \subseteq Procs
  BY DEF DeviceTypeOK
<1>1. ASSUME NEW p \in Procs, Wait(p)
      PROVE  NoStaleWaiter'
  BY <1>p, <1>1 DEF Wait, WaitPrepare, WaitDone, WaitIntr, WaitSleep, WaitWoken
<1>2. ASSUME NEW r \in Readers, Read(r)
      PROVE  NoStaleWaiter'
  BY <1>p, <1>2 DEF Read, Enter, ReadLock, ReadLockIntr, ReadCopy, ReadCommit
<1>3. ASSUME NEW w \in Writers, Write(w)
      PROVE  NoStaleWaiter'
  BY <1>p, <1>3
  DEF Write, Enter, WriteLock, WriteLockIntr, WriteCopy, WriteCommit, WriteKick
<1>4. ASSUME NEW p \in Pollers, PollEnter(p)
      PROVE  NoStaleWaiter'
  BY <1>p, <1>4 DEF PollEnter
<1>5. ASSUME NEW p \in Interruptible, Signal(p)
      PROVE  NoStaleWaiter'
  BY <1>5 DEF Signal
<1> QED
  BY <1>1, <1>2, <1>3, <1>4, <1>5 DEF UserNext
----------------------------------------------------------------------------
(* A process that has its side of the device to itself *)

\* What it saw when it tested the condition still holds when it copies.
SoleInv ==
  /\ \A p \in Readers \cup Writers : pc[p] # "idle" => count[p] >= 1
  /\ (\A r, s \in Readers : r = s) =>
       \A r \in Readers :
         /\ pc[r] \in {"lock", "copy"} => ~kfifo_is_empty(in_fifo)
         /\ pc[r] = "commit" => ret[r] # 0
  /\ (\A v, w \in Writers : v = w) =>
       \A w \in Writers :
         /\ pc[w] \in {"lock", "copy"} => ~kfifo_is_full(out_fifo)
         /\ pc[w] = "commit" => ret[w] # 0

\* Nobody is inside a call at first.
LEMMA SoleInit == DeviceInit => SoleInv
BY Constants DEF DeviceInit, SoleInv

\* The invariant says that a sole reader or writer is served.
LEMMA SoleServed == SoleInv => SoleUserServed
BY DEF SoleInv, SoleUserServed, ReadReturnsData

\* The tasklet puts bytes into in_fifo and takes them from out_fifo, which
\* spoils neither condition.
LEMMA TaskletSole ==
  ASSUME SoleInv, UNCHANGED user,
         kfifo_is_empty(in_fifo') => kfifo_is_empty(in_fifo),
         kfifo_is_full(out_fifo') => kfifo_is_full(out_fifo)
  PROVE  SoleInv'
BY DEF SoleInv, user

\* A queue from which a byte was taken has room.
LEMMA TakeKeepsRoom ==
  ASSUME DeviceTypeOK, out_fifo' = AdvanceOut(out_fifo, 1)
  PROVE  ~kfifo_is_full(out_fifo')
<1>1. /\ out_fifo \in Kfifo /\ out_fifo.in \in Nat /\ out_fifo.out \in Nat
      /\ out_fifo.in - out_fifo.out <= FifoSize /\ FifoSize \in Nat
  BY FifoTypes
<1>2. out_fifo'.in = out_fifo.in /\ out_fifo'.out = out_fifo.out + 1
  BY <1>1, AdvanceFacts
<1> QED
  BY <1>1, <1>2 DEF kfifo_is_full, kfifo_len

\* A queue into which a byte was put has one.
LEMMA PushKeepsBytes ==
  ASSUME DeviceTypeOK, NEW b \in Byte, in_fifo' = Push(in_fifo, b)
  PROVE  ~kfifo_is_empty(in_fifo')
<1>1. /\ in_fifo \in Kfifo /\ in_fifo.in \in Nat /\ in_fifo.out \in Nat
      /\ in_fifo.in - in_fifo.out >= 0
  BY FifoTypes
<1>2. in_fifo'.in = in_fifo.in + 1 /\ in_fifo'.out = in_fifo.out
  BY <1>1, PushFacts
<1> QED
  BY <1>1, <1>2 DEF kfifo_is_empty

\* A process goes on: to the mutex only if it saw the condition, and to the
\* copy only from there.
LEMMA SoleGoto ==
  ASSUME DeviceTypeOK, SoleInv, NEW p \in Procs, NEW l \in Labels, Goto(p, l),
         UNCHANGED in_fifo, UNCHANGED out_fifo \/ (p \in Writers /\ l = "kick"),
         p \in Pollers \/ pc[p] # "idle",
         l = "lock" => Ready(p), l = "copy" => pc[p] = "lock", l # "commit"
  PROVE  SoleInv'
<1>1. /\ pc \in [Procs -> Labels] /\ count' = count /\ ret' = ret
      /\ pc' = [pc EXCEPT ![p] = l]
  BY DEF DeviceTypeOK, Goto
<1>2. \A q \in Procs : pc'[q] = IF q = p THEN l ELSE pc[q]
  BY <1>1
<1>3. \A q \in Readers \cup Writers : pc'[q] # "idle" => count'[q] >= 1
  BY <1>1, <1>2, Constants DEF SoleInv
<1>4. ASSUME \A r, s \in Readers : r = s, NEW r \in Readers
      PROVE  /\ pc'[r] \in {"lock", "copy"} => ~kfifo_is_empty(in_fifo')
             /\ pc'[r] = "commit" => ret'[r] # 0
  BY <1>1, <1>2, <1>4, Constants DEF SoleInv, Ready
<1>5. ASSUME \A v, w \in Writers : v = w, NEW w \in Writers
      PROVE  /\ pc'[w] \in {"lock", "copy"} => ~kfifo_is_full(out_fifo')
             /\ pc'[w] = "commit" => ret'[w] # 0
  BY <1>1, <1>2, <1>5, Constants DEF SoleInv, Ready
<1> QED
  BY <1>3, <1>4, <1>5 DEF SoleInv

\* A call returns; what it did to its own queue concerns nobody else.
LEMMA SoleReturn ==
  ASSUME DeviceTypeOK, SoleInv, NEW p \in Procs, Return(p),
         UNCHANGED in_fifo \/ p \in Readers, UNCHANGED out_fifo
  PROVE  SoleInv'
<1>1. /\ pc \in [Procs -> Labels] /\ count \in [Procs -> Nat]
      /\ ret \in [Procs -> Int]
  BY DEF DeviceTypeOK
<1>2. \A q \in Procs : IF q = p THEN pc'[q] = "idle"
                        ELSE /\ pc'[q] = pc[q] /\ count'[q] = count[q]
                             /\ ret'[q] = ret[q]
  BY <1>1 DEF Return
<1>3. \A q \in Readers \cup Writers : pc'[q] # "idle" => count'[q] >= 1
  BY <1>2, Constants DEF SoleInv
<1>4. ASSUME \A r, s \in Readers : r = s, NEW r \in Readers
      PROVE  /\ pc'[r] \in {"lock", "copy"} => ~kfifo_is_empty(in_fifo')
             /\ pc'[r] = "commit" => ret'[r] # 0
  BY <1>2, <1>4, Constants DEF SoleInv
<1>5. ASSUME \A v, w \in Writers : v = w, NEW w \in Writers
      PROVE  /\ pc'[w] \in {"lock", "copy"} => ~kfifo_is_full(out_fifo')
             /\ pc'[w] = "commit" => ret'[w] # 0
  BY <1>2, <1>5, Constants DEF SoleInv
<1> QED
  BY <1>3, <1>4, <1>5 DEF SoleInv

\* A call begins.
LEMMA SoleEnter ==
  ASSUME DeviceTypeOK, SoleInv, NEW p \in Readers \cup Writers, Enter(p)
  PROVE  SoleInv'
<1>1. /\ pc \in [Procs -> Labels] /\ count \in [Procs -> Nat] /\ p \in Procs
      /\ UNCHANGED <<in_fifo, out_fifo, ret>>
  BY Constants DEF DeviceTypeOK, Enter, queues
<1>2. \A q \in Procs :
        IF q = p THEN /\ pc'[q] = IF Ready(p) THEN "lock" ELSE "wait"
                      /\ count'[q] >= 1
                 ELSE pc'[q] = pc[q] /\ count'[q] = count[q]
  BY <1>1, Constants DEF Enter
<1>3. \A q \in Readers \cup Writers : pc'[q] # "idle" => count'[q] >= 1
  BY <1>2, Constants DEF SoleInv
<1>4. ASSUME \A r, s \in Readers : r = s, NEW r \in Readers
      PROVE  /\ pc'[r] \in {"lock", "copy"} => ~kfifo_is_empty(in_fifo')
             /\ pc'[r] = "commit" => ret'[r] # 0
  BY <1>1, <1>2, <1>4, Constants DEF SoleInv, Ready
<1>5. ASSUME \A v, w \in Writers : v = w, NEW w \in Writers
      PROVE  /\ pc'[w] \in {"lock", "copy"} => ~kfifo_is_full(out_fifo')
             /\ pc'[w] = "commit" => ret'[w] # 0
  BY <1>1, <1>2, <1>5, Constants DEF SoleInv, Ready
<1> QED
  BY <1>3, <1>4, <1>5 DEF SoleInv

\* A copy gives a result: not zero if at least one byte was asked for and
\* there is one, or room for one.
LEMMA SoleCopy ==
  ASSUME DeviceTypeOK, SoleInv, NEW p \in Readers \cup Writers, pc[p] = "copy",
         pc' = [pc EXCEPT ![p] = "commit"], UNCHANGED <<in_fifo, count>>,
         kfifo_is_full(out_fifo') = kfifo_is_full(out_fifo),
         NEW room \in Int, NEW c,
         c \in 0 .. AtMost(count[p], room),
         p \in Readers /\ ~kfifo_is_empty(in_fifo) => room >= 1,
         p \in Writers /\ ~kfifo_is_full(out_fifo) => room >= 1,
         ret' = [ret EXCEPT ![p] = IF c < AtMost(count[p], room) THEN EFAULT ELSE c]
  PROVE  SoleInv'
<1>1. /\ pc \in [Procs -> Labels] /\ count \in [Procs -> Nat] /\ p \in Procs
      /\ ret \in [Procs -> Int]
  BY Constants DEF DeviceTypeOK
<1>2. /\ \A q \in Procs : q # p => pc'[q] = pc[q] /\ ret'[q] = ret[q]
      /\ pc'[p] = "commit"
      /\ ret'[p] = IF c < AtMost(count[p], room) THEN EFAULT ELSE c
  BY <1>1
<1>3. count[p] >= 1 /\ count[p] \in Nat
  BY <1>1 DEF SoleInv
<1>4. room >= 1 => ret'[p] # 0
  <2>1. room >= 1 => AtMost(count[p], room) \in Nat /\ AtMost(count[p], room) >= 1
    BY <1>3 DEF AtMost
  <2> DEFINE l == AtMost(count[p], room)
  <2> HIDE DEF l
  <2> SUFFICES ASSUME room >= 1
               PROVE  (IF c < l THEN EFAULT ELSE c) # 0
    BY <1>2 DEF l
  <2>2. l \in Nat /\ l >= 1 /\ c \in 0 .. l
    BY <2>1 DEF l
  <2> QED
    BY <2>2 DEF EFAULT
<1>5. \A q \in Readers \cup Writers : pc'[q] # "idle" => count'[q] >= 1
  BY <1>2, Constants DEF SoleInv
<1>6. ASSUME \A r, s \in Readers : r = s, NEW r \in Readers
      PROVE  /\ pc'[r] \in {"lock", "copy"} => ~kfifo_is_empty(in_fifo')
             /\ pc'[r] = "commit" => ret'[r] # 0
  BY <1>2, <1>4, <1>6, Constants DEF SoleInv
<1>7. ASSUME \A v, w \in Writers : v = w, NEW w \in Writers
      PROVE  /\ pc'[w] \in {"lock", "copy"} => ~kfifo_is_full(out_fifo')
             /\ pc'[w] = "commit" => ret'[w] # 0
  BY <1>2, <1>4, <1>7, Constants DEF SoleInv
<1> QED
  BY <1>5, <1>6, <1>7 DEF SoleInv

\* No other process can spoil it, for there is none on the same side.
LEMMA UserSole == DeviceInv /\ SoleInv /\ UserNext => SoleInv'
<1> SUFFICES ASSUME DeviceInv, SoleInv, UserNext
             PROVE  SoleInv'
  OBVIOUS
<1>t. DeviceTypeOK
  BY DEF DeviceInv
<1>n. /\ in_fifo \in Kfifo /\ in_fifo.in \in Nat /\ in_fifo.out \in Nat
      /\ in_fifo.in - in_fifo.out \in 0 .. FifoSize
      /\ out_fifo \in Kfifo /\ out_fifo.in \in Nat /\ out_fifo.out \in Nat
      /\ out_fifo.in - out_fifo.out \in 0 .. FifoSize
      /\ FifoSize \in Nat
  BY <1>t, FifoTypes
<1>1. ASSUME NEW p \in Procs, Wait(p)
      PROVE  SoleInv'
  <2>1. UNCHANGED <<in_fifo, out_fifo>> /\ pc[p] # "idle"
    BY <1>1 DEF Wait, WaitPrepare, WaitDone, WaitIntr, WaitSleep, WaitWoken,
                queues
  <2>2. \/ \E l \in {"check", "sleep", "wait"} : Goto(p, l)
        \/ Return(p)
        \/ Goto(p, "lock") /\ Ready(p)
    BY <1>1 DEF Wait, WaitPrepare, WaitDone, WaitIntr, WaitSleep, WaitWoken
  <2>3. ASSUME NEW l \in {"check", "sleep", "wait"}, Goto(p, l)
        PROVE  SoleInv'
    BY <1>t, <2>1, <2>3, SoleGoto DEF Labels
  <2>4. CASE Return(p)
    BY <1>t, <2>1, <2>4, SoleReturn
  <2>5. CASE Goto(p, "lock") /\ Ready(p)
    BY <1>t, <2>1, <2>5, SoleGoto DEF Labels
  <2> QED
    BY <2>2, <2>3, <2>4, <2>5
<1>2. ASSUME NEW r \in Readers, Read(r)
      PROVE  SoleInv'
  <2>1. CASE Enter(r)
    BY <1>t, <2>1, SoleEnter
  <2>2. CASE ReadLock(r)
    BY <1>t, <2>2, SoleGoto, Constants DEF Labels, ReadLock, queues
  <2>3. CASE ReadLockIntr(r)
    BY <1>t, <2>3, SoleReturn, Constants DEF ReadLockIntr, queues
  <2>4. CASE ReadCopy(r)
    <3> DEFINE l == AtMost(count[r], kfifo_len(in_fifo))
    <3>1. PICK c \in 0 .. l : ret' = [ret EXCEPT ![r] = IF c < l THEN EFAULT ELSE c]
      BY <2>4 DEF ReadCopy
    <3>2. /\ kfifo_len(in_fifo) \in Int
          /\ ~kfifo_is_empty(in_fifo) => kfifo_len(in_fifo) >= 1
      <4>1. \A i, j \in Nat : i - j >= 0 /\ i # j => i - j >= 1
        OBVIOUS
      <4>2. /\ in_fifo.in \in Nat /\ in_fifo.out \in Nat
            /\ in_fifo.in - in_fifo.out >= 0 /\ in_fifo.in - in_fifo.out \in Int
        BY <1>n
      <4> QED
        BY <4>1, <4>2 DEF kfifo_len, kfifo_is_empty
    <3>3. /\ pc[r] = "copy" /\ pc' = [pc EXCEPT ![r] = "commit"]
          /\ UNCHANGED <<in_fifo, count, out_fifo>> /\ r \notin Writers
      BY <2>4, Constants DEF ReadCopy, queues
    <3> QED
      BY <1>t, <3>1, <3>2, <3>3, SoleCopy
  <2>5. CASE ReadCommit(r)
    BY <1>t, <2>5, SoleReturn, Constants DEF ReadCommit
  <2> QED
    BY <1>2, <2>1, <2>2, <2>3, <2>4, <2>5 DEF Read
<1>3. ASSUME NEW w \in Writers, Write(w)
      PROVE  SoleInv'
  <2>1. CASE Enter(w)
    BY <1>t, <2>1, SoleEnter
  <2>2. CASE WriteLock(w)
    BY <1>t, <2>2, SoleGoto, Constants DEF Labels, WriteLock, queues
  <2>3. CASE WriteLockIntr(w)
    BY <1>t, <2>3, SoleReturn, Constants DEF WriteLockIntr, queues
  <2>4. CASE WriteCopy(w)
    <3> DEFINE l == AtMost(count[w], kfifo_avail(out_fifo))
    <3>1. PICK c \in 0 .. l : \E data \in [1 .. c -> Byte] :
            /\ out_fifo' = CopyIn(out_fifo, data)
            /\ ret' = [ret EXCEPT ![w] = IF c < l THEN EFAULT ELSE c]
      BY <2>4 DEF WriteCopy
    <3>2. PICK data \in [1 .. c -> Byte] :
            /\ out_fifo' = CopyIn(out_fifo, data)
            /\ ret' = [ret EXCEPT ![w] = IF c < l THEN EFAULT ELSE c]
      BY <3>1
    <3>3. data \in Seq(Byte)
      OBVIOUS
    <3>4. kfifo_is_full(out_fifo') = kfifo_is_full(out_fifo)
      BY <3>2, <3>3, <1>n, CopyInFacts DEF kfifo_is_full, kfifo_len
    <3>5. /\ kfifo_avail(out_fifo) \in Int
          /\ ~kfifo_is_full(out_fifo) => kfifo_avail(out_fifo) >= 1
      BY <1>n DEF kfifo_avail, kfifo_is_full, kfifo_len
    <3>6. /\ pc[w] = "copy" /\ pc' = [pc EXCEPT ![w] = "commit"]
          /\ UNCHANGED <<in_fifo, count>> /\ w \notin Readers
      BY <2>4, Constants DEF WriteCopy
    <3> QED
      BY <1>t, <3>2, <3>4, <3>5, <3>6, SoleCopy
  <2>5. CASE WriteCommit(w)
    BY <1>t, <2>5, SoleGoto, Constants DEF Labels, WriteCommit
  <2>6. CASE WriteKick(w)
    BY <1>t, <2>6, SoleReturn, Constants DEF WriteKick, queues
  <2> QED
    BY <1>3, <2>1, <2>2, <2>3, <2>4, <2>5, <2>6 DEF Write
<1>4. ASSUME NEW p \in Pollers, PollEnter(p)
      PROVE  SoleInv'
  BY <1>t, <1>4, SoleGoto, Constants DEF Labels, PollEnter, queues
<1>5. ASSUME NEW p \in Interruptible, Signal(p)
      PROVE  SoleInv'
  BY <1>5 DEF Signal, SoleInv, queues
<1> QED
  BY <1>1, <1>2, <1>3, <1>4, <1>5 DEF UserNext

----------------------------------------------------------------------------
(* The device as a channel: in_fifo, the bytes h in the tasklet's hands, and *)
(* out_fifo, one after the other.  ChannelStep is a step of module           *)
(* LoopChannel, or none: the channel goes from x to y, losing a byte only    *)
(* behind k others, k in K, and the bytes delivered go from d to e.          *)

Line(h) == Contents(in_fifo) \o h \o Contents(out_fifo)

ChannelStep(x, y, d, e, K) ==
  \/ y = x /\ e = d
  \/ \E s \in Seq(Byte) : Len(s) <= FifoSize /\ y = x \o s /\ e = d
  \/ \E n \in 1 .. FifoSize : /\ n <= Len(x)
                              /\ y = SubSeq(x, n + 1, Len(x))
                              /\ e = d \o SubSeq(x, 1, n)
  \/ \E k \in K : /\ k < Len(x)
                   /\ y = SubSeq(x, 1, k) \o SubSeq(x, k + 2, Len(x))
                   /\ e = d

\* A concatenation is cut where it was joined.
LEMMA Cut ==
  ASSUME NEW h \in Seq(Byte), NEW u \in Seq(Byte)
  PROVE  /\ SubSeq(h \o u, 1, Len(h)) = h
         /\ SubSeq(h \o u, Len(h) + 1, Len(h \o u)) = u
<1> DEFINE x == h \o u
           k == Len(h)
           n == Len(u)
           a == SubSeq(x, 1, k)
           b == SubSeq(x, k + 1, k + n)
<1>1. k \in Nat /\ n \in Nat
  OBVIOUS
<1>2. /\ x \in Seq(Byte) /\ Len(x) = k + n
      /\ \A i \in 1 .. k + n : x[i] = IF i <= k THEN h[i] ELSE u[i - k]
  BY ConcatProperties
<1>3. \A i \in 1 .. (k + n) : x[i] \in Byte
  BY <1>2, ElementOfSeq
<1> HIDE DEF x
<1>4. a = h
  <2>1. \A i \in 1 .. k : x[i] \in Byte /\ x[i] = h[i]
    BY <1>1, <1>2, <1>3
  <2>2. /\ a \in Seq(Byte)
        /\ Len(a) = IF 1 <= k THEN k - 1 + 1 ELSE 0
        /\ \A i \in 1 .. (k - 1 + 1) : a[i] = x[1 + i - 1]
    BY <1>1, <2>1, SubSeqProperties
  <2> HIDE DEF a
  <2>3. Len(a) = k /\ \A i \in 1 .. k : a[i] = h[i]
    <3>1. /\ k - 1 + 1 = k
          /\ (IF 1 <= k THEN k - 1 + 1 ELSE 0) = k
          /\ \A i \in Int : 1 + i - 1 = i
      BY <1>1
    <3> QED
      BY <2>1, <2>2, <3>1
  <2> QED
    BY <2>2, <2>3, SeqEqual
<1>5. b = u
  <2>1. \A i \in (k + 1) .. (k + n) : x[i] \in Byte
    BY <1>1, <1>3
  <2>2. /\ b \in Seq(Byte)
        /\ Len(b) = IF k + 1 <= k + n THEN k + n - (k + 1) + 1 ELSE 0
        /\ \A i \in 1 .. (k + n - (k + 1) + 1) : b[i] = x[k + 1 + i - 1]
    <3>1. k + 1 \in Int /\ k + n \in Int
      BY <1>1
    <3> QED
      BY <2>1, <3>1, SubSeqProperties
  <2>3. /\ k + n - (k + 1) + 1 = n
        /\ (IF k + 1 <= k + n THEN k + n - (k + 1) + 1 ELSE 0) = n
        /\ \A i \in Int : k + 1 + i - 1 = k + i
    BY <1>1
  <2>4. \A i \in 1 .. n : x[k + i] = u[i]
    <3> SUFFICES ASSUME NEW i \in 1 .. n
                 PROVE  x[k + i] = u[i]
      OBVIOUS
    <3>1. k + i \in 1 .. k + n /\ ~(k + i <= k) /\ k + i - k = i
      BY <1>1
    <3> QED
      BY <3>1, <1>2
  <2> HIDE DEF b
  <2>5. b \in Seq(Byte) /\ Len(b) = n
    BY ONLY <2>2, <2>3
  <2>6. ASSUME NEW i \in 1 .. n
        PROVE  b[i] = u[i]
    <3>1. b[i] = x[k + 1 + i - 1]
      BY ONLY <2>2, <2>3, i \in 1 .. n
    <3>2. k + 1 + i - 1 = k + i
      BY ONLY <1>1, i \in 1 .. n
    <3> QED
      BY <2>4, <3>1, <3>2
  <2> QED
    BY <2>5, <2>6, SeqEqual
<1> QED
  BY <1>2, <1>4, <1>5 DEF x

\* Bytes that join at the far end of the line are accepted by the channel.
LEMMA LineAccept ==
  ASSUME NEW a \in Seq(Byte), NEW h \in Seq(Byte), NEW o \in Seq(Byte),
         NEW s \in Seq(Byte), Len(s) <= FifoSize, NEW d, NEW K
  PROVE  ChannelStep(a \o h \o o, a \o h \o (o \o s), d, d, K)
<1>1. a \o h \in Seq(Byte)
  BY ConcatProperties
<1>2. (a \o h) \o (o \o s) = ((a \o h) \o o) \o s
  BY <1>1, ConcatAssociative, SMTT(40)
<1> QED
  BY <1>2 DEF ChannelStep

\* Bytes that leave at the near end are delivered.
LEMMA LineDeliver ==
  ASSUME NEW a \in Seq(Byte), NEW h \in Seq(Byte), NEW o \in Seq(Byte), NEW d,
         NEW K, NEW n \in 1 .. FifoSize, n <= Len(a)
  PROVE  ChannelStep(a \o h \o o, SubSeq(a, n + 1, Len(a)) \o h \o o,
                     d, d \o SubSeq(a, 1, n), K)
<1> DEFINE f == SubSeq(a, 1, n)
           t == SubSeq(a, n + 1, Len(a))
           r == h \o o
           x == a \o h \o o
<1>0. n \in Nat /\ FifoSize \in Nat /\ Len(a) \in Nat
  BY Constants
<1>1. \A i \in 1 .. Len(a) : a[i] \in Byte
  BY ElementOfSeq
<1>2. f \in Seq(Byte) /\ Len(f) = n
  <2>1. \A i \in 1 .. n : a[i] \in Byte
    BY <1>0, <1>1
  <2>2. f \in Seq(Byte) /\ Len(f) = IF 1 <= n THEN n - 1 + 1 ELSE 0
    BY <1>0, <2>1, SubSeqProperties
  <2> QED
    BY <2>2, <1>0
<1>3. t \in Seq(Byte)
  <2>1. \A i \in (n + 1) .. Len(a) : a[i] \in Byte
    BY <1>0, <1>1
  <2>2. n + 1 \in Int /\ Len(a) \in Int
    BY <1>0
  <2> QED
    BY <2>1, <2>2, SubSeqProperties
<1>4. f \o t = a
  <2>1. 1 \in 1 .. Len(a) + 1 /\ n \in (1 - 1) .. Len(a) /\ Len(a) \in n .. Len(a)
    BY <1>0
  <2>2. f \o t = SubSeq(a, 1, Len(a))
    BY <2>1, ConcatAdjacentSubSeq
  <2> QED
    BY <2>2, SubSeqFull
<1> HIDE DEF f, t
<1>5. r \in Seq(Byte) /\ t \o r \in Seq(Byte)
  BY <1>3, ConcatProperties
<1>a. (a \o h) \o o = a \o (h \o o)
  BY ConcatAssociative, SMTT(30)
<1>b. (t \o h) \o o = t \o (h \o o)
  BY ONLY t \in Seq(Byte), h \in Seq(Byte), o \in Seq(Byte), ConcatAssociative, SMTT(40)
<1>6. x = a \o r /\ (t \o h) \o o = t \o r
  BY <1>a, <1>b
<1> HIDE DEF x, r
<1>7. x = f \o (t \o r)
  <2>0. f \in Seq(Byte) /\ t \in Seq(Byte) /\ r \in Seq(Byte)
    BY <1>2, <1>3, <1>5
  <2>1. (f \o t) \o r = f \o (t \o r)
    BY ONLY <2>0, ConcatAssociative, SMTT(90)
  <2> QED
    BY <1>4, <1>6, <2>1
<1>8. Len(x) = n + Len(t \o r) /\ Len(t \o r) \in Nat
  <2>1. Len(f \o (t \o r)) = Len(f) + Len(t \o r)
    BY <1>2, <1>5, ConcatProperties
  <2> QED
    BY <1>2, <1>5, <1>7, <2>1, LenProperties
<1>9. SubSeq(x, 1, n) = f /\ SubSeq(x, n + 1, Len(x)) = t \o r
  BY <1>2, <1>5, <1>7, Cut
<1>10. n <= Len(x)
  BY <1>0, <1>8
<1> QED
  BY <1>6, <1>9, <1>10 DEF ChannelStep, x, f, t

Regrouped(a, b, c, d) ==
  /\ a \o (b \o c) \o d = (a \o b) \o c \o d
  /\ a \o (b \o c) \o d = (a \o b) \o (c \o d)

\* Four pieces of a line may be joined in any order.
LEMMA Regroup ==
  ASSUME NEW a \in Seq(Byte), NEW b \in Seq(Byte), NEW c \in Seq(Byte),
         NEW d \in Seq(Byte)
  PROVE  Regrouped(a, b, c, d)
<1>1. a \o b \in Seq(Byte)
  BY ConcatProperties
<1>2. a \o (b \o c) = (a \o b) \o c
  BY ConcatAssociative, SMTT(40)
<1> DEFINE e == a \o b
<1>3. e \in Seq(Byte)
  BY <1>1
<1> HIDE DEF e
<1>4. (e \o c) \o d = e \o (c \o d)
  BY <1>3, ConcatAssociative, SMTT(40)
<1> QED
  BY <1>2, <1>4 DEF e, Regrouped

\* A byte that reaches a full queue is dropped.
LEMMA LineDrop ==
  ASSUME NEW a \in Seq(Byte), NEW b \in Byte, NEW o \in Seq(Byte), NEW d,
         NEW K, Len(a) \in K
  PROVE  ChannelStep(a \o <<b>> \o o, a \o o, d, d, K)
<1> DEFINE h == <<b>>
           x == a \o h \o o
           k == Len(a)
<1>0. k \in Nat /\ k + 1 + 1 = k + 2
  OBVIOUS
<1>1. h \in Seq(Byte) /\ Len(h) = 1
  OBVIOUS
<1> HIDE DEF h
<1>2. /\ a \o h \in Seq(Byte) /\ Len(a \o h) = k + 1
      /\ h \o o \in Seq(Byte)
  <2>1. h \in Seq(Byte)
    BY <1>1
  <2>2. h \o o \in Seq(Byte)
    BY ONLY <2>1, o \in Seq(Byte), ConcatProperties, SMTT(40)
  <2>3. a \o h \in Seq(Byte) /\ Len(a \o h) = Len(a) + Len(h)
    BY ONLY <2>1, a \in Seq(Byte), ConcatProperties, SMTT(40)
  <2> QED
    BY <1>1, <2>2, <2>3
<1>3. x = a \o (h \o o)
  BY <1>1, ConcatAssociative, SMTT(40)
<1>4. SubSeq(x, 1, k) = a
  BY <1>2, <1>3, Cut
<1>5. SubSeq(x, k + 1 + 1, Len(x)) = o
  BY <1>2, Cut
<1>6. k < Len(x)
  <2> DEFINE e == a \o h
  <2>0. e \in Seq(Byte) /\ Len(e) = k + 1
    BY <1>2
  <2> HIDE DEF e, k
  <2>1. e \in Seq(Byte)
    BY <2>0
  <2>2. Len(e \o o) = Len(e) + Len(o) /\ Len(o) \in Nat
    BY ONLY <2>1, o \in Seq(Byte), ConcatProperties, LenProperties, SMTT(40)
  <2> QED
    BY <2>0, <2>2, <1>0 DEF e
<1> HIDE DEF x, k
<1>8. a \o o = SubSeq(x, 1, k) \o SubSeq(x, k + 2, Len(x))
  BY <1>0, <1>4, <1>5
<1>9. k \in K
  BY DEF k
<1>10. ChannelStep(x, a \o o, d, d, K)
  BY <1>6, <1>8, <1>9 DEF ChannelStep
<1> QED
  BY <1>10 DEF x, h

\* The waiting bytes of the two queues are sequences.
LEMMA LineTypes ==
  ASSUME DeviceTypeOK
  PROVE  /\ Contents(in_fifo) \in Seq(Byte)
         /\ Len(Contents(in_fifo)) = in_fifo.in - in_fifo.out
         /\ Contents(out_fifo) \in Seq(Byte)
         /\ Len(Contents(out_fifo)) = out_fifo.in - out_fifo.out
<1>1. in_fifo.in - in_fifo.out >= 0 /\ out_fifo.in - out_fifo.out >= 0
  BY FifoTypes
<1> QED
  BY <1>1, FifoTypes, ContentsType

\* To the channel, a process writes, reads or does nothing.
LEMMA UserLine ==
  ASSUME DeviceInv, UserNext, NEW h \in Seq(Byte), NEW K
  PROVE  ChannelStep(Line(h), Contents(in_fifo') \o h \o Contents(out_fifo'),
                     received, received', K)
<1> DEFINE a == Contents(in_fifo)
           o == Contents(out_fifo)
           Goal == ChannelStep(Line(h),
                               Contents(in_fifo') \o h \o Contents(out_fifo'),
                               received, received', K)
<1>t. /\ buf \in [Procs -> Seq(Byte)] /\ received \in Seq(Byte)
      /\ count \in [Procs -> Nat]
      /\ a \in Seq(Byte) /\ o \in Seq(Byte)
      /\ Len(a) = in_fifo.in - in_fifo.out
  BY LineTypes DEF DeviceInv, DeviceTypeOK
<1>f. /\ in_fifo \in Kfifo /\ in_fifo.in - in_fifo.out \in 0 .. FifoSize
      /\ out_fifo \in Kfifo /\ out_fifo.in - out_fifo.out \in 0 .. FifoSize
      /\ FifoSize \in Nat
      /\ in_fifo.in - in_fifo.out >= 0 /\ out_fifo.in - out_fifo.out >= 0
  BY FifoTypes DEF DeviceInv
<1>0. ASSUME UNCHANGED <<queues, received>>
      PROVE  Goal
  BY <1>0 DEF ChannelStep, Line, queues
<1>1. ASSUME NEW p \in Procs, Wait(p)
      PROVE  UNCHANGED <<queues, received>>
  BY <1>1 DEF Wait, WaitPrepare, WaitDone, WaitIntr, WaitSleep, WaitWoken,
              history
<1>2. ASSUME NEW r \in Readers, Read(r), ~ReadCommit(r)
      PROVE  UNCHANGED <<queues, received>>
  BY <1>2 DEF Read, Enter, ReadLock, ReadLockIntr, ReadCopy, history
<1>3. ASSUME NEW r \in Readers, ReadCommit(r)
      PROVE  Goal
  <2> DEFINE s == buf[r]
             n == Len(s)
  <2>1. s \in Seq(Byte) /\ n \in Nat
    BY <1>t, Constants
  <2>2. /\ n <= in_fifo.in - in_fifo.out
        /\ \A k \in 1 .. n : s[k] = ByteAt(in_fifo, in_fifo.out + k - 1)
    BY <1>3 DEF ReadCommit, DeviceInv, DataInv, StagedInv, kfifo_len
  <2>3. /\ in_fifo' = AdvanceOut(in_fifo, n) /\ UNCHANGED out_fifo
        /\ received' = received \o s
    BY <1>3 DEF ReadCommit
  <2> HIDE DEF s
  <2>4. Contents(in_fifo') = SubSeq(a, n + 1, Len(a)) /\ s = SubSeq(a, 1, n)
    BY <2>1, <2>2, <2>3, <1>f, ContentsOut, ContentsFront
  <2>5. CASE n = 0
    <3>1. s = <<>>
      BY <2>1, <2>5
    <3>2. SubSeq(a, n + 1, Len(a)) = a
      <4>1. n + 1 = 1
        BY <2>5
      <4> QED
        BY <4>1, <1>t, SubSeqFull
    <3>3. received' = received
      BY <2>3, <3>1, <1>t, ConcatEmptySeq
    <3> QED
      BY <2>3, <2>4, <3>2, <3>3 DEF ChannelStep, Line
  <2>6. CASE n # 0
    <3>1. n \in 1 .. FifoSize /\ n <= Len(a)
      BY <2>1, <2>2, <2>6, <1>t, <1>f
    <3>2. ChannelStep(a \o h \o o, SubSeq(a, n + 1, Len(a)) \o h \o o,
                      received, received \o SubSeq(a, 1, n), K)
      BY <3>1, <1>t, LineDeliver
    <3> QED
      BY <3>2, <2>3, <2>4 DEF Line
  <2> QED
    BY <2>5, <2>6
<1>4. ASSUME NEW w \in Writers, Write(w), ~WriteCopy(w), ~WriteCommit(w)
      PROVE  UNCHANGED <<queues, received>>
  BY <1>4 DEF Write, Enter, WriteLock, WriteLockIntr, WriteKick, history
<1>5. ASSUME NEW w \in Writers, WriteCopy(w)
      PROVE  Goal
  <2> DEFINE l == AtMost(count[w], kfifo_avail(out_fifo))
  <2>1. PICK c \in 0 .. l :
          \E data \in [1 .. c -> Byte] : out_fifo' = CopyIn(out_fifo, data)
    BY <1>5 DEF WriteCopy
  <2>2. PICK data \in [1 .. c -> Byte] : out_fifo' = CopyIn(out_fifo, data)
    BY <2>1
  <2>3. count[w] \in Nat /\ kfifo_avail(out_fifo) \in Int
    BY <1>t, <1>f, Constants DEF kfifo_avail, kfifo_len
  <2>4. c \in Nat /\ c <= kfifo_avail(out_fifo)
    BY <2>3 DEF AtMost
  <2>5. data \in Seq(Byte) /\ Len(data) <= kfifo_avail(out_fifo)
    BY <2>4
  <2>6. Contents(out_fifo') = o
    BY <2>2, <2>5, <1>f, ContentsCopy
  <2>7. UNCHANGED <<in_fifo, received>>
    BY <1>5 DEF WriteCopy, history
  <2> QED
    BY <2>6, <2>7 DEF ChannelStep, Line
<1>6. ASSUME NEW w \in Writers, WriteCommit(w)
      PROVE  Goal
  <2> DEFINE s == buf[w]
  <2>1. s \in Seq(Byte) /\ Len(s) \in Nat
    BY <1>t, Constants
  <2>2. /\ Len(s) <= kfifo_avail(out_fifo)
        /\ \A k \in 1 .. Len(s) : s[k] = ByteAt(out_fifo, out_fifo.in + k - 1)
    BY <1>6 DEF WriteCommit, DeviceInv, DataInv, StagedInv
  <2>3. /\ out_fifo' = AdvanceIn(out_fifo, Len(s))
        /\ UNCHANGED <<in_fifo, received>>
    BY <1>6 DEF WriteCommit
  <2> HIDE DEF s
  <2>4. Contents(out_fifo') = o \o s
    BY <2>1, <2>2, <2>3, <1>f, ContentsIn
  <2>5. Len(s) <= FifoSize
    BY <2>1, <2>2, <1>f DEF kfifo_avail, kfifo_len
  <2>6. ChannelStep(a \o h \o o, a \o h \o (o \o s), received, received, K)
    BY <2>1, <2>5, <1>t, LineAccept
  <2> QED
    BY <2>3, <2>4, <2>6 DEF Line
<1>7. ASSUME NEW p \in Procs, PollEnter(p) \/ Signal(p)
      PROVE  UNCHANGED <<queues, received>>
  BY <1>7 DEF PollEnter, Signal, history
<1> QED
  BY <1>0, <1>1, <1>2, <1>3, <1>4, <1>5, <1>6, <1>7, Constants DEF UserNext

\* A byte taken from out_fifo by the tasklet stays in the line, behind the
\* bytes the tasklet and the device have already.
LEMMA TakeLine ==
  ASSUME DeviceTypeOK, ~kfifo_is_empty(out_fifo), NEW g \in Seq(Byte),
         out_fifo' = AdvanceOut(out_fifo, 1), UNCHANGED in_fifo
  PROVE  Contents(in_fifo') \o (g \o <<ByteAt(out_fifo, out_fifo.out)>>)
           \o Contents(out_fifo')
           = Line(g)
<1> DEFINE a == Contents(in_fifo)
           b == ByteAt(out_fifo, out_fifo.out)
           h == <<b>>
           u == Contents(out_fifo')
<1>0. /\ out_fifo \in Kfifo /\ out_fifo.in \in Nat /\ out_fifo.out \in Nat
      /\ out_fifo.in - out_fifo.out >= 0 /\ out_fifo.in # out_fifo.out
  BY FifoTypes DEF kfifo_is_empty
<1>1. out_fifo \in Kfifo /\ out_fifo.in - out_fifo.out >= 1
  BY <1>0
<1>2. a \in Seq(Byte)
  BY LineTypes
<1>3. u \in Seq(Byte) /\ Contents(out_fifo) = h \o u
  BY <1>1, ContentsTake
<1>4. h \in Seq(Byte)
  <2>1. out_fifo.out \in Nat
    BY FifoTypes
  <2>2. b \in Byte
    BY <1>1, <2>1, SlotInRange DEF ByteAt, Kfifo
  <2> QED
    BY <2>2
<1>5. Line(g) = (a \o g) \o (h \o u)
  BY <1>3 DEF Line
<1> HIDE DEF a, h, u
<1>6. a \o (g \o h) \o u = (a \o g) \o (h \o u)
  <2>1. Regrouped(a, g, h, u)
    BY <1>2, <1>3, <1>4, Regroup
  <2> QED
    BY <2>1 DEF Regrouped
<1> QED
  BY <1>5, <1>6 DEF a, h, u

\* The oldest of the bytes between the queues is stored into in_fifo and stays
\* in the line, or finds in_fifo full and is dropped.
LEMMA StoreLine ==
  ASSUME DeviceTypeOK, NEW b \in Byte, NEW g \in Seq(Byte),
         UNCHANGED <<out_fifo, received>>,
         IF kfifo_is_full(in_fifo) THEN UNCHANGED in_fifo
                                   ELSE in_fifo' = Push(in_fifo, b),
         NEW K, FifoSize \in K
  PROVE  ChannelStep(Line(<<b>> \o g),
                     Contents(in_fifo') \o g \o Contents(out_fifo'),
                     received, received', K)
<1> DEFINE a == Contents(in_fifo)
           o == Contents(out_fifo)
           h == <<b>>
<1>1. /\ in_fifo \in Kfifo /\ in_fifo.in - in_fifo.out >= 0
      /\ in_fifo.in - in_fifo.out <= FifoSize /\ FifoSize \in Nat
      /\ in_fifo.in \in Nat /\ in_fifo.out \in Nat
  BY FifoTypes
<1>2. a \in Seq(Byte) /\ o \in Seq(Byte) /\ Len(a) = in_fifo.in - in_fifo.out
  BY LineTypes
<1>5. h \in Seq(Byte) /\ Line(h \o g) = a \o (h \o g) \o o
  BY DEF Line
<1>3. CASE kfifo_is_full(in_fifo)
  <2>1. Len(a) = FifoSize
    BY <1>1, <1>2, <1>3 DEF kfifo_is_full, kfifo_len
  <2> HIDE DEF a, o, h
  <2>2. g \o o \in Seq(Byte)
    BY <1>2, ConcatProperties
  <2>3. ChannelStep(a \o <<b>> \o (g \o o), a \o (g \o o), received, received, K)
    BY <2>1, <2>2, <1>2, LineDrop
  <2>4. a \o (h \o g) \o o = (a \o h) \o (g \o o)
    <3>1. Regrouped(a, h, g, o)
      BY <1>2, <1>5, Regroup
    <3> QED
      BY <3>1 DEF Regrouped
  <2>5. a \o (g \o o) = (a \o g) \o o
    BY <1>2, ConcatAssociative, SMTT(40)
  <2>6. ChannelStep(Line(h \o g), a \o g \o o, received, received, K)
    BY <1>5, <2>3, <2>4, <2>5 DEF h
  <2> QED
    BY <1>3, <2>6 DEF a, o, h
<1>4. CASE ~kfifo_is_full(in_fifo)
  <2>1. Contents(in_fifo') = a \o h
    BY <1>1, <1>4, ContentsPush
  <2> HIDE DEF a, o, h
  <2>2. a \o (h \o g) \o o = (a \o h) \o g \o o
    <3>1. Regrouped(a, h, g, o)
      BY <1>2, <1>5, Regroup
    <3> QED
      BY <3>1 DEF Regrouped
  <2>3. Contents(in_fifo') \o g \o Contents(out_fifo') = Line(h \o g)
    BY <1>5, <2>1, <2>2 DEF o
  <2> QED
    BY <2>3 DEF ChannelStep, h
<1> QED
  BY <1>3, <1>4
=============================================================================
