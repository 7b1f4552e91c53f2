----------------------------- MODULE LdtProofs -----------------------------
(***************************************************************************)
(* Machine-checked proofs about the data path of ldt/ldt.c, with and       *)
(* without a UART, in loopback mode or not, for every number of processes, *)
(* every queue size, every receive depth of the UART and all data.  The    *)
(* process side is dealt with in FifoDeviceProofs.                         *)
(***************************************************************************)
EXTENDS Ldt, FifoDeviceProofs

\* Byte d was accepted as number n, was taken from out_fifo and is not stored.
Fresh(d, n) ==
  /\ n \in 1 .. out_fifo.out
  /\ d = accepted[n]
  /\ \A i \in 1 .. Len(kept) : kept[i] < n

\* The characters inside the UART are on their way once, and in order.
UartInv ==
  /\ \A i \in 1 .. Len(rx) : Fresh(rx[i].data, rx[i].num)
  /\ \A i, j \in 1 .. Len(rx) : i < j => rx[i].num < rx[j].num
  /\ ~tx_ready => /\ Fresh(thr[1].data, thr[1].num)
                  /\ \A i \in 1 .. Len(rx) : rx[i].num < thr[1].num

\* The byte in the tasklet's hand comes after all of them, and the UART is not
\* touched when there is none.
HandInv ==
  /\ ~Uart => thr = <<>> /\ rx = <<>> /\ ~irq /\ tpc # "rx"
  /\ tpc = "recv" => ~Uart /\ Loopback
  /\ tpc = "send" => tx_ready
  /\ tpc \in {"send", "recv"} =>
       /\ Fresh(data_out, out_fifo.out)
       /\ \A i \in 1 .. Len(rx) : rx[i].num < out_fifo.out

IInv == TypeOK /\ DeviceInv /\ UartInv /\ HandInv

----------------------------------------------------------------------------
(* The inductive invariant *)

\* Initially nothing is on its way.
LEMMA InitIInv == Init => IInv
<1> SUFFICES ASSUME Init
             PROVE  IInv
  OBVIOUS
<1>1. DeviceInv
  BY DeviceInitInv DEF Init
<1>2. TypeOK
  <2>1. /\ thr \in Seq(Char) /\ Len(thr) = 0 /\ rx \in Seq(Char) /\ Len(rx) = 0
    BY DEF Init
  <2>2. 0 <= RxDepth /\ 0 <= 1
    BY LdtAssumption
  <2> QED
    BY <1>1, <2>1, <2>2, KfifoAssumption DEF Init, TypeOK, DeviceInv
<1>3. UartInv /\ HandInv
  BY DEF Init, UartInv, HandInv, tx_ready
<1> QED
  BY <1>1, <1>2, <1>3 DEF IInv

\* The same of the next state.
FreshNext(d, n) ==
  /\ n \in 1 .. out_fifo'.out
  /\ d = accepted'[n]
  /\ \A i \in 1 .. Len(kept') : kept'[i] < n

\* What was on its way stays so when out_fifo moves on and accepted grows.
LEMMA FreshKept ==
  ASSUME NEW d, NEW n, Fresh(d, n), DeviceInv, kept' = kept,
         out_fifo'.out = out_fifo.out \/ out_fifo'.out = out_fifo.out + 1,
         \A i \in 1 .. Len(accepted) : accepted'[i] = accepted[i]
  PROVE  FreshNext(d, n)
<1>1. /\ out_fifo.out \in Nat /\ out_fifo.out <= Len(accepted)
      /\ Len(accepted) \in Nat
  BY FifoTypes DEF DeviceInv, DataInv, CounterInv, DeviceTypeOK
<1> QED
  BY <1>1 DEF Fresh, FreshNext

\* A step of a process does not disturb the bytes on their way.
LEMMA UserStepIInv == IInv /\ UserNext /\ UNCHANGED bh => IInv'
<1> SUFFICES ASSUME IInv, UserNext, UNCHANGED bh
             PROVE  IInv'
  OBVIOUS
<1>1. DeviceInv'
  BY UserInv DEF IInv
<1>2. UNCHANGED <<tpc, data_out, thr, rx, irq, armed>>
  BY DEF bh, uart, events
<1>3. TypeOK'
  BY <1>1, <1>2 DEF IInv, TypeOK, DeviceInv
<1>4. /\ out_fifo'.out = out_fifo.out /\ kept' = kept
      /\ \A i \in 1 .. Len(accepted) : accepted'[i] = accepted[i]
  BY UserHistory DEF IInv
<1>5. ASSUME NEW d, NEW n, Fresh(d, n)
      PROVE  FreshNext(d, n)
  BY <1>4, <1>5, FreshKept DEF IInv
<1>6. UartInv'
  <2>1. \A i \in 1 .. Len(rx) : FreshNext(rx[i].data, rx[i].num)
    BY <1>5 DEF IInv, UartInv
  <2>2. ~tx_ready => FreshNext(thr[1].data, thr[1].num)
    BY <1>5 DEF IInv, UartInv
  <2> QED
    BY <1>2, <2>1, <2>2 DEF IInv, UartInv, tx_ready, Fresh, FreshNext
<1>7. HandInv'
  <2>1. tpc \in {"send", "recv"} => FreshNext(data_out, out_fifo.out)
    BY <1>5 DEF IInv, HandInv
  <2> QED
    BY <1>2, <1>4, <2>1 DEF IInv, HandInv, tx_ready, Fresh, FreshNext
<1> QED
  BY <1>1, <1>3, <1>6, <1>7 DEF IInv

\* A step that leaves the queues and the UART alone, and gives the tasklet no
\* byte.
LEMMA QuietIInv ==
  ASSUME IInv, TaskletFrame, UNCHANGED <<queues, kept, uart>>,
         data_out' = data_out, irq' \in BOOLEAN, armed' \in BOOLEAN, ~Uart => ~irq',
         tpc' \in {"idle", "tx", "recv", "rx", "wake", tpc},
         tpc' = "rx" => Uart,
         tpc' = "recv" => tpc \in {"send", "recv"} /\ ~Uart /\ Loopback
  PROVE  IInv'
<1>1. DeviceInv'
  BY QuietStep DEF IInv
<1>2. UNCHANGED <<out_fifo, accepted, kept, thr, rx>>
  BY DEF TaskletFrame, queues, uart
<1>3. TypeOK'
  BY <1>1, <1>2 DEF IInv, TypeOK, DeviceInv
<1>4. UartInv'
  BY <1>2 DEF IInv, UartInv, tx_ready, Fresh
<1>5. HandInv'
  BY <1>2 DEF IInv, HandInv, tx_ready, Fresh
<1> QED
  BY <1>1, <1>3, <1>4, <1>5 DEF IInv

\* The UART moves a character from the holding register to the receive queue.
LEMMA UartShiftIInv == IInv /\ UartShift => IInv'
<1> SUFFICES ASSUME IInv, UartShift
             PROVE  IInv'
  OBVIOUS
<1>s. /\ rx \in Seq(Char) /\ thr \in Seq(Char) /\ Len(thr) <= 1 /\ thr # <<>>
      /\ RxDepth \in Nat /\ DeviceInv
  BY LdtAssumption DEF IInv, TypeOK, UartShift, tx_ready
<1>t. /\ rx \in Seq(Char) /\ thr \in Seq(Char) /\ Len(thr) = 1
      /\ RxDepth \in Nat /\ Len(rx) \in Nat /\ DeviceInv
  <2>1. Len(thr) # 0 /\ Len(thr) \in Nat /\ Len(rx) \in Nat
    BY <1>s, EmptySeq
  <2>2. Len(thr) <= 1
    BY <1>s
  <2>3. \A k \in Nat : k # 0 /\ k <= 1 => k = 1
    BY ONLY TRUE
  <2>4. Len(thr) = 1
    BY <2>1, <2>2, <2>3, Zenon
  <2> QED
    BY <1>s, <2>1, <2>4
<1>1. /\ TaskletFrame /\ UNCHANGED <<queues, kept>>
      /\ UNCHANGED <<out_fifo, accepted, kept, tpc, data_out>>
      /\ thr' = <<>> /\ irq' \in BOOLEAN /\ armed' = armed
  BY DEF UartShift, dvars, history, queues, TaskletFrame, IInv, DeviceInv,
         DeviceTypeOK
<1>2. DeviceInv'
  BY <1>1, <1>t, QuietStep
<1>u. Uart
  BY DEF IInv, HandInv, UartShift, tx_ready
<1>h. tpc \notin {"send", "recv"}
  BY <1>u DEF IInv, HandInv, UartShift, tx_ready
<1>3. CASE Len(rx) < RxDepth
  <2>1. rx' = rx \o thr
    BY <1>3 DEF UartShift
  <2>2. /\ rx' \in Seq(Char) /\ Len(rx') = Len(rx) + 1
        /\ \A i \in 1 .. Len(rx) : rx'[i] = rx[i]
        /\ rx'[Len(rx) + 1] = thr[1]
    <3>1. rx \o thr \in Seq(Char) /\ Len(rx \o thr) = Len(rx) + 1
      BY <1>t, ConcatProperties, SMTT(40)
    <3>2. \A i \in 1 .. Len(rx) : (rx \o thr)[i] = rx[i]
      BY <1>t
    <3>3. (rx \o thr)[Len(rx) + 1] = thr[1]
      <4> DEFINE k == Len(rx) + 1
      <4>1. \A i \in 1 .. Len(rx) + Len(thr) :
              (rx \o thr)[i] = IF i <= Len(rx) THEN rx[i] ELSE thr[i - Len(rx)]
        BY <1>t, ConcatProperties
      <4>2. k \in 1 .. Len(rx) + Len(thr) /\ ~(k <= Len(rx)) /\ k - Len(rx) = 1
        BY <1>t
      <4> HIDE DEF k
      <4>3. (rx \o thr)[k] = thr[1]
        BY <4>1, <4>2
      <4> QED
        BY <4>3 DEF k
    <3> QED
      BY <2>1, <3>1, <3>2, <3>3
  <2>3. TypeOK'
    <3>1. thr' \in Seq(Char) /\ Len(thr') <= 1
      BY <1>1
    <3> QED
      BY <1>1, <1>2, <1>3, <1>t, <2>2, <3>1 DEF IInv, TypeOK, DeviceInv
  <2>4. \A i \in 1 .. Len(rx') : i \in 1 .. Len(rx) \/ i = Len(rx) + 1
    BY <1>t, <2>2
  <2>5. UartInv'
    <3>1. /\ Fresh(thr[1].data, thr[1].num)
          /\ \A i \in 1 .. Len(rx) : rx[i].num < thr[1].num
      BY DEF IInv, UartInv, UartShift
    <3>2. ASSUME NEW i \in 1 .. Len(rx')
          PROVE  Fresh(rx'[i].data, rx'[i].num)
      BY <2>2, <2>4, <3>1 DEF IInv, UartInv
    <3>3. ASSUME NEW i \in 1 .. Len(rx'), NEW j \in 1 .. Len(rx'), i < j
          PROVE  rx'[i].num < rx'[j].num
      <4>1. i \in 1 .. Len(rx)
        BY <1>t, <2>2, <3>3
      <4>2. CASE j \in 1 .. Len(rx)
        BY <2>2, <3>3, <4>1, <4>2 DEF IInv, UartInv
      <4>3. CASE j = Len(rx) + 1
        BY <2>2, <3>1, <4>1, <4>3
      <4> QED
        BY <2>4, <4>2, <4>3
    <3>4. tx_ready'
      BY <1>1 DEF tx_ready
    <3> QED
      BY <1>1, <3>2, <3>3, <3>4 DEF UartInv, Fresh
  <2>6. HandInv'
    BY <1>1, <1>u, <1>h DEF HandInv, IInv
  <2> QED
    BY <1>2, <2>3, <2>5, <2>6 DEF IInv
<1>4. CASE ~(Len(rx) < RxDepth)
  <2>1. rx' = rx
    BY <1>4 DEF UartShift
  <2>2. TypeOK'
    <3>1. thr' \in Seq(Char) /\ Len(thr') <= 1
      BY <1>1
    <3> QED
      BY <1>1, <1>2, <2>1, <3>1 DEF IInv, TypeOK, DeviceInv
  <2>3. UartInv'
    BY <1>1, <2>1 DEF IInv, UartInv, tx_ready, Fresh
  <2>4. HandInv'
    BY <1>1, <1>u, <1>h DEF HandInv, IInv
  <2> QED
    BY <1>2, <2>2, <2>3, <2>4 DEF IInv
<1> QED
  BY <1>3, <1>4

\* A byte leaves out_fifo for the tasklet's hand.
LEMMA TaskletTxIInv == IInv /\ TaskletTx => IInv'
<1> SUFFICES ASSUME IInv, TaskletTx
             PROVE  IInv'
  OBVIOUS
<1>1. /\ TaskletFrame /\ UNCHANGED <<in_fifo, kept, thr, rx, irq, armed, accepted>>
      /\ tpc' = "send"
  BY DEF TaskletTx, history, TaskletFrame, uart, events, IInv, DeviceInv, DeviceTypeOK
<1>2. DeviceInv /\ out_fifo.out \in Nat
  BY FifoTypes DEF IInv, DeviceInv
<1>3. /\ DeviceInv' /\ out_fifo'.out = out_fifo.out + 1
      /\ ByteAt(out_fifo, out_fifo.out) \in Byte
      /\ ByteAt(out_fifo, out_fifo.out) = accepted[out_fifo.out + 1]
  BY <1>1, <1>2, TakeStep DEF TaskletTx
<1>4. TypeOK'
  BY <1>1, <1>3 DEF TaskletTx, IInv, TypeOK, DeviceInv
<1>5. ASSUME NEW d, NEW n, Fresh(d, n)
      PROVE  FreshNext(d, n) /\ n < out_fifo'.out
  <2>1. FreshNext(d, n)
    BY <1>1, <1>2, <1>3, <1>5, FreshKept
  <2>2. n < out_fifo'.out
    BY <1>2, <1>3, <1>5 DEF Fresh
  <2> QED
    BY <2>1, <2>2
<1>6. UartInv'
  <2>1. \A i \in 1 .. Len(rx) : FreshNext(rx[i].data, rx[i].num)
    BY <1>5 DEF IInv, UartInv
  <2>2. ~tx_ready => FreshNext(thr[1].data, thr[1].num)
    BY <1>5 DEF IInv, UartInv
  <2> QED
    BY <1>1, <2>1, <2>2 DEF IInv, UartInv, tx_ready, Fresh, FreshNext
<1>7. FreshNext(data_out', out_fifo'.out)
  <2>1. \A i \in 1 .. Len(kept) : kept[i] \in 1 .. out_fifo.out
    BY <1>2 DEF DeviceInv, DataInv, KeptInv
  <2>2. data_out' = accepted[out_fifo.out + 1]
    BY <1>3 DEF TaskletTx
  <2>3. /\ out_fifo.out + 1 \in 1 .. (out_fifo.out + 1)
        /\ \A i \in 1 .. Len(kept) : kept[i] < out_fifo.out + 1
    BY <1>2, <2>1
  <2> QED
    BY <1>1, <1>3, <2>2, <2>3 DEF FreshNext
<1>8. HandInv'
  <2>1. \A i \in 1 .. Len(rx) : rx[i].num < out_fifo'.out
    BY <1>5 DEF IInv, UartInv
  <2>2. tx_ready'
    BY <1>1 DEF IInv, HandInv, TaskletTx, tx_ready
  <2> QED
    BY <1>1, <1>7, <2>1, <2>2 DEF IInv, HandInv, Fresh, FreshNext
<1> QED
  BY <1>3, <1>4, <1>6, <1>8 DEF IInv

\* The byte in the tasklet's hand goes to the UART, or on to ldt_received, or
\* away.
LEMMA TaskletSendIInv == IInv /\ TaskletSend => IInv'
<1> SUFFICES ASSUME IInv, TaskletSend
             PROVE  IInv'
  OBVIOUS
<1>1. /\ TaskletFrame /\ UNCHANGED <<queues, kept, rx, irq, armed, data_out>>
      /\ UNCHANGED <<out_fifo, accepted>>
  BY DEF TaskletSend, events, history, queues, TaskletFrame, WakeWriteable, IInv,
         DeviceInv, DeviceTypeOK
<1>2. irq' \in BOOLEAN /\ armed' \in BOOLEAN /\ (~Uart => ~irq')
  BY <1>1 DEF IInv, TypeOK, HandInv
<1>3. CASE ~Uart
  <2>1. thr' = thr /\ tpc' \in {"recv", "tx"} /\ (tpc' = "recv" => Loopback)
        /\ tpc = "send"
    BY <1>3 DEF TaskletSend
  <2> QED
    BY <1>1, <1>2, <1>3, <2>1, QuietIInv DEF uart
<1>4. CASE Uart
  <2>1. /\ thr' = <<[data |-> data_out, num |-> out_fifo.out]>>
        /\ tpc = "send" /\ tpc' = "tx"
    BY <1>4 DEF TaskletSend
  <2>2. DeviceInv'
    BY <1>1, QuietStep DEF IInv
  <2>3. /\ Fresh(data_out, out_fifo.out)
        /\ \A i \in 1 .. Len(rx) : rx[i].num < out_fifo.out
    BY <2>1 DEF IInv, HandInv
  <2>4. [data |-> data_out, num |-> out_fifo.out] \in Char
    BY FifoTypes DEF Char, IInv, TypeOK, DeviceInv
  <2>5. TypeOK'
    <3>1. thr' \in Seq(Char) /\ Len(thr') <= 1
      BY <2>1, <2>4
    <3> QED
      BY <1>1, <2>1, <2>2, <3>1 DEF IInv, TypeOK, DeviceInv
  <2>6. thr'[1].data = data_out /\ thr'[1].num = out_fifo.out
    BY <2>1
  <2>7. UartInv'
    BY <1>1, <2>3, <2>6 DEF IInv, UartInv, Fresh
  <2>8. HandInv'
    BY <1>4, <2>1 DEF HandInv
  <2> QED
    BY <2>2, <2>5, <2>7, <2>8 DEF IInv
<1> QED
  BY <1>3, <1>4

\* ldt_received stores a fresh byte, or drops it.
LEMMA StoreDevice ==
  ASSUME IInv, TaskletFrame, UNCHANGED out_fifo, NEW c \in Char,
         Fresh(c.data, c.num), Store(c)
  PROVE  /\ DeviceInv'
         /\ \A n \in Nat : c.num < n /\ (\A i \in 1 .. Len(kept) : kept[i] < n)
              => \A i \in 1 .. Len(kept') : kept'[i] < n
<1>t. DeviceInv /\ kept \in Seq(Nat) /\ c.data \in Byte /\ c.num \in Nat
  BY DEF IInv, DeviceInv, DeviceTypeOK, Char
<1>1. CASE kfifo_is_full(in_fifo)
  <2>1. UNCHANGED <<in_fifo, kept>>
    BY <1>1 DEF Store
  <2> QED
    BY <2>1, <1>t, QuietStep DEF queues
<1>2. CASE ~kfifo_is_full(in_fifo)
  <2>1. in_fifo' = Push(in_fifo, c.data) /\ kept' = Append(kept, c.num)
    BY <1>2 DEF Store
  <2>2. DeviceInv'
    BY <1>2, <1>t, <2>1, StoreStep DEF Fresh
  <2>3. /\ Len(kept') = Len(kept) + 1 /\ kept'[Len(kept) + 1] = c.num
        /\ \A i \in 1 .. Len(kept) : kept'[i] = kept[i]
        /\ \A i \in 1 .. Len(kept') : i \in 1 .. Len(kept) \/ i = Len(kept) + 1
    BY <1>t, <2>1
  <2> QED
    BY <2>2, <2>3
<1> QED
  BY <1>1, <1>2

\* The emulation stores the byte in the tasklet's hand.
LEMMA TaskletEchoIInv == IInv /\ TaskletEcho => IInv'
<1> SUFFICES ASSUME IInv, TaskletEcho
             PROVE  IInv'
  OBVIOUS
<1> DEFINE c == [data |-> data_out, num |-> out_fifo.out]
<1>1. /\ TaskletFrame /\ UNCHANGED <<out_fifo, thr, rx, irq, armed, data_out, accepted>>
      /\ tpc = "recv" /\ tpc' = "wake"
  BY DEF TaskletEcho, TaskletFrame, uart, events, IInv, DeviceInv, DeviceTypeOK
<1>2. c \in Char /\ Store(c) /\ Fresh(c.data, c.num)
  <2>1. c \in Char
    BY FifoTypes DEF Char, IInv, TypeOK, DeviceInv
  <2>2. Fresh(data_out, out_fifo.out)
    BY <1>1 DEF IInv, HandInv
  <2> QED
    BY <2>1, <2>2 DEF TaskletEcho
<1> HIDE DEF c
<1>3. DeviceInv'
  BY <1>1, <1>2, StoreDevice
<1>4. TypeOK'
  BY <1>1, <1>3 DEF IInv, TypeOK, DeviceInv
<1>5. ~Uart /\ thr = <<>> /\ rx = <<>>
  BY <1>1 DEF IInv, HandInv
<1>6. UartInv' /\ HandInv'
  BY <1>1, <1>5 DEF IInv, UartInv, HandInv, tx_ready
<1> QED
  BY <1>3, <1>4, <1>6 DEF IInv

\* The receive loop stores the oldest character of the UART.
LEMMA TaskletRxIInv == IInv /\ TaskletRx => IInv'
<1> SUFFICES ASSUME IInv, TaskletRx
             PROVE  IInv'
  OBVIOUS
<1>t. /\ rx \in Seq(Char) /\ Len(rx) >= 1 /\ rx # <<>> /\ thr \in Seq(Char)
      /\ Len(rx) \in Nat /\ RxDepth \in Nat
  BY LdtAssumption DEF IInv, TypeOK, TaskletRx, rx_ready
<1>1. /\ TaskletFrame /\ UNCHANGED <<out_fifo, thr, irq, armed, data_out, accepted>>
      /\ tpc = "rx" /\ tpc' = "wake"
  BY DEF TaskletRx, events, TaskletFrame, IInv, DeviceInv, DeviceTypeOK
<1>2. /\ Head(rx) = rx[1] /\ rx[1] \in Char
      /\ rx' \in Seq(Char) /\ Len(rx') = Len(rx) - 1
      /\ \A i \in 1 .. Len(rx') : rx'[i] = rx[i + 1]
  BY <1>t DEF TaskletRx
<1>3. Fresh(rx[1].data, rx[1].num) /\ Store(rx[1])
  BY <1>t, <1>2 DEF IInv, UartInv, TaskletRx
<1>4. /\ DeviceInv'
      /\ \A n \in Nat :
           rx[1].num < n /\ (\A i \in 1 .. Len(kept) : kept[i] < n)
             => \A i \in 1 .. Len(kept') : kept'[i] < n
  BY <1>1, <1>2, <1>3, StoreDevice
<1>5. TypeOK'
  BY <1>1, <1>2, <1>4, <1>t DEF IInv, TypeOK, DeviceInv
<1>6. ASSUME NEW d, NEW n \in Nat, Fresh(d, n), rx[1].num < n
      PROVE  FreshNext(d, n)
  BY <1>1, <1>4, <1>6 DEF Fresh, FreshNext
<1>7. \A i \in 1 .. Len(rx') : i + 1 \in 1 .. Len(rx) /\ 1 < i + 1
  BY <1>t, <1>2
<1>8. UartInv'
  <2>1. ASSUME NEW i \in 1 .. Len(rx')
        PROVE  FreshNext(rx'[i].data, rx'[i].num)
    <3>1. Fresh(rx[i + 1].data, rx[i + 1].num) /\ rx[1].num < rx[i + 1].num
      BY <1>7, <1>t DEF IInv, UartInv
    <3>2. rx[i + 1].num \in Nat
      <4>1. rx[i + 1] \in Char
        BY <1>7, <1>t
      <4> QED
        BY <4>1 DEF Char
    <3> QED
      BY <1>2, <1>6, <3>1, <3>2
  <2>2. ASSUME NEW i \in 1 .. Len(rx'), NEW j \in 1 .. Len(rx'), i < j
        PROVE  rx'[i].num < rx'[j].num
    <3>1. i + 1 < j + 1
      BY <2>2, <1>2, <1>t
    <3> QED
      BY <1>2, <1>7, <3>1 DEF IInv, UartInv
  <2>3. ASSUME ~tx_ready'
        PROVE  /\ FreshNext(thr[1].data, thr[1].num)
               /\ \A i \in 1 .. Len(rx') : rx'[i].num < thr[1].num
    <3>1. /\ Fresh(thr[1].data, thr[1].num)
          /\ \A i \in 1 .. Len(rx) : rx[i].num < thr[1].num
      BY <1>1, <2>3 DEF IInv, UartInv, tx_ready
    <3>2. thr[1].num \in Nat /\ rx[1].num < thr[1].num
      <4>1. thr[1] \in Char
        BY <1>1, <1>t, <2>3 DEF tx_ready
      <4> QED
        BY <3>1, <4>1, <1>t DEF Char
    <3> QED
      BY <1>2, <1>6, <1>7, <3>1, <3>2
  <2> QED
    BY <1>1, <2>1, <2>2, <2>3 DEF UartInv, Fresh, FreshNext
<1>9. HandInv'
  <2>1. Uart
    BY <1>1 DEF IInv, HandInv
  <2> QED
    BY <1>1, <2>1 DEF HandInv
<1> QED
  BY <1>4, <1>5, <1>8, <1>9 DEF IInv

\* The steps that move no byte.
LEMMA IdleIInv ==
  IInv /\ (Isr \/ Timer \/ TaskletStart \/ TaskletTxEnd \/ TaskletWake
             \/ TaskletEnd \/ UNCHANGED vars) => IInv'
<1>t. ASSUME IInv
      PROVE  /\ waiting \subseteq Procs /\ sched \in BOOLEAN /\ irq \in BOOLEAN
             /\ armed \in BOOLEAN
             /\ ~Uart => ~irq
             /\ tpc = "rx" => Uart
             /\ tpc = "recv" => ~Uart /\ Loopback
  BY <1>t DEF IInv, TypeOK, DeviceTypeOK, HandInv
<1> USE DEF TaskletFrame, history, queues, uart, events, dvars, bh
<1>1. ASSUME IInv, Isr PROVE IInv'
  BY <1>1, <1>t, QuietIInv DEF Isr
<1>2. ASSUME IInv, Timer PROVE IInv'
  BY <1>2, <1>t, QuietIInv DEF Timer
<1>3. ASSUME IInv, TaskletStart PROVE IInv'
  BY <1>3, <1>t, QuietIInv DEF TaskletStart
<1>4. ASSUME IInv, TaskletTxEnd PROVE IInv'
  BY <1>4, <1>t, QuietIInv DEF TaskletTxEnd
<1>5. ASSUME IInv, TaskletWake PROVE IInv'
  BY <1>5, <1>t, QuietIInv DEF TaskletWake, WakeReadable
<1>6. ASSUME IInv, TaskletEnd PROVE IInv'
  BY <1>6, <1>t, QuietIInv DEF TaskletEnd
<1>7. ASSUME IInv, UNCHANGED vars PROVE IInv'
  BY <1>7, <1>t, QuietIInv DEF vars
<1> QED
  BY <1>1, <1>2, <1>3, <1>4, <1>5, <1>6, <1>7

\* The inductive invariant holds in every execution of ldt.c.
THEOREM Invariance == Spec => []IInv
<1>1. IInv /\ [Next]_vars => IInv'
  BY UserStepIInv, UartShiftIInv, TaskletTxIInv, TaskletSendIInv,
     TaskletEchoIInv, TaskletRxIInv, IdleIInv DEF Next, Tasklet
<1> QED
  BY <1>1, InitIInv, PTL DEF Spec

\* The variables keep their types, the queues and the UART their bounds.
THEOREM TypeCorrect == Spec => []TypeOK
<1>1. IInv => TypeOK
  BY DEF IInv
<1> QED
  BY <1>1, Invariance, PTL

\* Readers of ldt.c get accepted bytes, unaltered, in order and at most once,
\* whatever the UART loses.
THEOREM Faithful == Spec => []FaithfulLoop
<1>1. IInv => FaithfulLoop
  BY DeviceFaithful DEF IInv
<1> QED
  BY <1>1, Invariance, PTL

\* The tasklet of ldt.c never overwrites a character the UART still has to
\* send, although tx_ready was tested two steps before the write.
THEOREM TransmitSafe == Spec => NoTransmitOverrun
<1>1. IInv /\ [Next]_vars => [~tx_ready => thr' \in {thr, <<>>}]_vars
  <2> SUFFICES ASSUME IInv, Next, ~tx_ready
               PROVE  thr' \in {thr, <<>>}
    OBVIOUS
  <2>1. CASE TaskletSend
    BY <2>1 DEF TaskletSend, IInv, HandInv
  <2>2. CASE UartShift
    BY <2>2 DEF UartShift
  <2>3. CASE ~TaskletSend /\ ~UartShift
    BY <2>3 DEF Next, bh, uart, dvars, Isr, Timer, Tasklet, TaskletStart,
                TaskletTx, TaskletTxEnd, TaskletEcho, TaskletRx, TaskletWake,
                TaskletEnd
  <2> QED
    BY <2>1, <2>2, <2>3
<1> QED
  BY <1>1, Invariance, PTL DEF Spec, NoTransmitOverrun

----------------------------------------------------------------------------
(* Nothing stalls *)

\* Outside loopback mode every step keeps somebody in charge.
LEMMA NextNoStall == IInv /\ NoStall /\ [Next]_vars => NoStall'
<1> SUFFICES ASSUME IInv, NoStall, [Next]_vars, ~Loopback
             PROVE  NoStall'
  BY DEF NoStall
<1>h. DeviceTypeOK /\ HandInv
  BY DEF IInv, TypeOK
<1> USE DEF NoStall, tx_ready, rx_ready
<1>1. CASE UserNext /\ UNCHANGED bh
  <2>1. UNCHANGED <<tpc, thr, rx, irq, armed>>
    BY <1>1 DEF bh, uart, events
  <2>2. /\ sched => sched'
        /\ InCharge => InCharge'
        /\ kfifo_is_empty(out_fifo) => kfifo_is_empty(out_fifo') \/ InCharge'
    BY <1>1, <1>h, UserCharge
  <2> QED
    BY <2>1, <2>2 DEF InCharge
<1>2. CASE Isr \/ UartShift
  BY <1>2 DEF Isr, UartShift
<1>5. CASE Timer
  <2>1. UNCHANGED <<queues, user, tpc, thr, rx, irq>> /\ (sched => sched')
    BY <1>5, Zenon DEF Timer, uart
  <2> QED
    BY <2>1 DEF queues, user
<1>3. CASE Tasklet
  <2> USE DEF user, queues, uart, events, dvars
  <2>1. CASE TaskletStart
    BY <2>1 DEF TaskletStart
  <2>2. CASE TaskletTx
    BY <2>2 DEF TaskletTx
  <2>3. CASE TaskletTxEnd
    BY <1>h, <2>3 DEF TaskletTxEnd, HandInv
  <2>4. CASE TaskletSend
    BY <2>4 DEF TaskletSend
  <2>5. CASE TaskletEcho
    BY <1>h, <2>5 DEF TaskletEcho, HandInv
  <2>6. CASE TaskletRx
    BY <2>6 DEF TaskletRx
  <2>7. CASE TaskletWake
    BY <2>7 DEF TaskletWake
  <2>8. CASE TaskletEnd
    BY <2>8 DEF TaskletEnd
  <2> QED
    BY <1>3, <2>1, <2>2, <2>3, <2>4, <2>5, <2>6, <2>7, <2>8 DEF Tasklet
<1>4. CASE UNCHANGED vars
  BY <1>4 DEF vars, dvars, user, queues, bh, uart, events
<1> QED
  BY <1>1, <1>2, <1>3, <1>4, <1>5 DEF Next

\* With interrupts only, that is outside loopback mode, ldt.c forgets neither
\* bytes in out_fifo nor characters in the UART.
THEOREM NeverStalls == Spec => []NoStall
<1>1. Init => NoStall
  BY DEF Init, DeviceInit, NoStall, INIT_KFIFO, kfifo_is_empty, tx_ready, rx_ready
<1> QED
  BY <1>1, NextNoStall, Invariance, PTL DEF Spec

----------------------------------------------------------------------------
(* Nobody sleeps through the event awaited *)

\* A step that makes a condition true is one that goes on to wake, and a
\* wake-up finds every sleeper.
LEMMA NextNoLostWakeup == IInv /\ NoLostWakeup /\ [Next]_vars => NoLostWakeup'
<1> SUFFICES ASSUME IInv, NoLostWakeup, [Next]_vars
             PROVE  NoLostWakeup'
  OBVIOUS
<1>p. waiting \subseteq Procs
  BY DEF IInv, TypeOK, DeviceTypeOK
<1>1. CASE UserNext /\ UNCHANGED bh
  <2> SUFFICES ASSUME NEW p \in waiting', pc'[p] = "sleep", Ready(p)'
               PROVE  tpc' = (IF p \in Writers THEN "send" ELSE "wake")
    BY DEF NoLostWakeup
  <2>1. p \in Procs
    BY <1>1, UserInv DEF IInv, DeviceInv, DeviceTypeOK
  <2>2. Asleep(p) /\ Ready(p)
    <3>1. Asleep(p)'
      BY DEF Asleep
    <3> QED
      BY <1>1, <2>1, <3>1, UserSleep DEF IInv
  <2> QED
    BY <1>1, <2>2 DEF NoLostWakeup, Asleep, bh
<1> USE DEF NoLostWakeup, Ready, user, queues, dvars
<1>2. CASE Isr \/ Timer \/ UartShift
  BY <1>2 DEF Isr, Timer, UartShift, bh
<1>3. CASE Tasklet
  <2>1. CASE TaskletStart
    BY <1>p, <2>1 DEF TaskletStart
  <2>2. CASE TaskletTx
    BY <1>p, <2>2 DEF TaskletTx
  <2>3. CASE TaskletTxEnd
    BY <1>p, <2>3 DEF TaskletTxEnd
  <2>4. CASE TaskletSend
    BY <1>p, <2>4, Constants DEF TaskletSend, WakeWriteable, Procs
  <2>5. CASE TaskletEcho
    BY <1>p, <2>5 DEF TaskletEcho
  <2>6. CASE TaskletRx
    BY <1>p, <2>6 DEF TaskletRx
  <2>7. CASE TaskletWake
    BY <1>p, <2>7, Constants DEF TaskletWake, WakeReadable, Procs
  <2>8. CASE TaskletEnd
    BY <1>p, <2>8 DEF TaskletEnd
  <2> QED
    BY <1>3, <2>1, <2>2, <2>3, <2>4, <2>5, <2>6, <2>7, <2>8 DEF Tasklet
<1>4. CASE UNCHANGED vars
  BY <1>4 DEF vars, bh
<1> QED
  BY <1>1, <1>2, <1>3, <1>4 DEF Next

\* No process sleeps in read, write or poll of ldt.c while its condition holds,
\* except in the window before the wake-up that is already on its way.
THEOREM WakeupsKept == Spec => []NoLostWakeup
<1>1. Init => NoLostWakeup
  BY DEF Init, DeviceInit, NoLostWakeup
<1> QED
  BY <1>1, NextNoLostWakeup, Invariance, PTL DEF Spec

\* No call of ldt.c leaves an entry on a wait queue behind, interrupted or not;
\* the tasklet only takes entries off.
THEOREM NothingStale == Spec => []NoStaleWaiter
<1>1. Init => NoStaleWaiter
  BY DEF Init, DeviceInit, NoStaleWaiter
<1>2. TypeOK /\ NoStaleWaiter /\ [Next]_vars => NoStaleWaiter'
  <2> SUFFICES ASSUME TypeOK, NoStaleWaiter, [Next]_vars
               PROVE  NoStaleWaiter'
    OBVIOUS
  <2>1. CASE UserNext
    BY <2>1, UserStale DEF TypeOK
  <2>2. CASE Tasklet \/ Isr \/ Timer \/ UartShift \/ UNCHANGED vars
    <3>1. pc' = pc /\ waiting' \subseteq waiting
      BY <2>2 DEF Tasklet, TaskletStart, TaskletTx, TaskletTxEnd, TaskletSend,
                  TaskletEcho, TaskletRx, TaskletWake, TaskletEnd, Isr, Timer,
                  UartShift, vars, dvars, user, WakeReadable, WakeWriteable
    <3> QED
      BY <3>1 DEF NoStaleWaiter
  <2> QED
    BY <2>1, <2>2 DEF Next
<1> QED
  BY <1>1, <1>2, TypeCorrect, PTL DEF Spec

\* Of ldt.c: a reader that is the only one gets at least one byte or an error,
\* and a writer that is the only one has at least one byte accepted or gets an
\* error, whatever the tasklet does between the test of the condition and the
\* copy.
THEOREM SoleUsersServed == Spec => []SoleUserServed
<1>1. Init => SoleInv
  BY SoleInit DEF Init
<1>2. IInv /\ SoleInv /\ [Next]_vars => SoleInv'
  <2> SUFFICES ASSUME IInv, SoleInv, [Next]_vars
               PROVE  SoleInv'
    OBVIOUS
  <2>1. CASE UserNext
    BY <2>1, UserSole DEF IInv
  <2>2. CASE Tasklet \/ Isr \/ Timer \/ UartShift \/ UNCHANGED vars
    <3>1. UNCHANGED user
      BY <2>2 DEF Tasklet, TaskletStart, TaskletTx, TaskletTxEnd, TaskletSend,
                  TaskletEcho, TaskletRx, TaskletWake, TaskletEnd, Isr, Timer,
                  UartShift, vars, dvars
    <3>2. CASE TaskletTx
      <4>1. in_fifo' = in_fifo /\ out_fifo' = AdvanceOut(out_fifo, 1)
        BY <3>2 DEF TaskletTx
      <4> QED
        BY <3>1, <4>1, TakeKeepsRoom, TaskletSole DEF IInv, TypeOK
    <3>3. CASE TaskletEcho \/ TaskletRx
      <4>1. PICK c \in Char : Store(c) /\ out_fifo' = out_fifo
        <5>1. CASE TaskletEcho
          <6>1. [data |-> data_out, num |-> out_fifo.out] \in Char
            BY FifoTypes DEF Char, IInv, TypeOK
          <6> QED
            BY <5>1, <6>1 DEF TaskletEcho
        <5>2. CASE TaskletRx
          <6>1. rx \in Seq(Char) /\ rx # <<>>
            BY <5>2 DEF IInv, TypeOK, TaskletRx, rx_ready
          <6>2. Head(rx) \in Char
            BY <6>1
          <6> QED
            BY <5>2, <6>2 DEF TaskletRx
        <5> QED
          BY <3>3, <5>1, <5>2
      <4>2. c.data \in Byte
        BY DEF Char
      <4>3. CASE in_fifo' = in_fifo
        BY <3>1, <4>1, <4>3, TaskletSole
      <4>4. CASE in_fifo' = Push(in_fifo, c.data)
        BY <3>1, <4>1, <4>2, <4>4, PushKeepsBytes, TaskletSole DEF IInv, TypeOK
      <4> QED
        BY <4>1, <4>3, <4>4 DEF Store
    <3>4. CASE ~TaskletTx /\ ~TaskletEcho /\ ~TaskletRx
      <4>1. UNCHANGED <<in_fifo, out_fifo>>
        BY <2>2, <3>4 DEF Tasklet, TaskletStart, TaskletTxEnd, TaskletSend,
                          TaskletWake, TaskletEnd, Isr, Timer, UartShift, vars,
                          dvars, queues
      <4> QED
        BY <3>1, <4>1, TaskletSole
    <3> QED
      BY <3>2, <3>3, <3>4
  <2> QED
    BY <2>1, <2>2 DEF Next
<1> QED
  BY <1>1, <1>2, SoleServed, Invariance, PTL DEF Spec
----------------------------------------------------------------------------
(* The driver implements module LoopChannel *)

\* The byte the tasklet has in hand.
Hand == IF tpc \in {"send", "recv"} THEN <<data_out>> ELSE <<>>

\* The bytes of the characters of s, and all bytes between the queues.
DataOf(s) == [i \in 1 .. Len(s) |-> s[i].data]
Middle == DataOf(rx \o thr) \o Hand

\* ChannelStep is a step of LoopChannel under the refinement mapping.
LEMMA ChannelNext ==
  ASSUME ChannelStep(InTransit, InTransit', received, received', LossPoints)
  PROVE  [Channel!CNext]_(Channel!cvars)
<1> DEFINE x == InTransit
           y == InTransit'
<1> USE DEF Channel!CNext, Channel!cvars
<1>0. /\ FifoSize \in Nat /\ LossPoints \subseteq Nat
  BY Constants, LdtAssumption DEF LossPoints
<1>1. CASE y = x /\ received' = received
  BY <1>1
<1>2. CASE \E s \in Seq(Byte) : /\ Len(s) <= FifoSize
                                /\ y = x \o s /\ received' = received
  <2>1. PICK s \in Seq(Byte) : /\ Len(s) <= FifoSize
                               /\ y = x \o s /\ received' = received
    BY <1>2
  <2>2. s \in [1 .. Len(s) -> Byte] /\ Len(s) \in 0 .. FifoSize
    BY <1>0, <2>1, LenProperties
  <2>3. s \in Channel!BoundedSeq(Byte, FifoSize)
    BY <2>2 DEF Channel!BoundedSeq, Channel!SeqOf
  <2>4. Channel!Accept
    BY <2>1, <2>3 DEF Channel!Accept
  <2> QED
    BY <2>4
<1>3. CASE \E n \in 1 .. FifoSize : /\ n <= Len(x)
                                    /\ y = SubSeq(x, n + 1, Len(x))
                                    /\ received' = received \o SubSeq(x, 1, n)
  BY <1>3 DEF Channel!Deliver
<1>4. CASE \E k \in LossPoints :
             /\ k < Len(x)
             /\ y = SubSeq(x, 1, k) \o SubSeq(x, k + 2, Len(x))
             /\ received' = received
  <2>1. PICK k \in LossPoints :
          /\ k < Len(x)
          /\ y = SubSeq(x, 1, k) \o SubSeq(x, k + 2, Len(x))
          /\ received' = received
    BY <1>4
  <2>2. k \in Nat
    BY <1>0
  <2>3. Channel!RemoveAt(x, k + 1) = SubSeq(x, 1, k) \o SubSeq(x, k + 2, Len(x))
    <3> DEFINE j == k + 1
    <3>1. j - 1 = k /\ j + 1 = k + 2
      BY <2>2
    <3>2. Channel!RemoveAt(x, j) = SubSeq(x, 1, j - 1) \o SubSeq(x, j + 1, Len(x))
      BY DEF Channel!RemoveAt
    <3> HIDE DEF j, x
    <3>3. Channel!RemoveAt(x, j)
            = SubSeq(x, 1, k) \o SubSeq(x, k + 2, Len(x))
      BY <3>1, <3>2
    <3> QED
      BY <3>3 DEF j
  <2>4. Channel!Drop
    BY <2>1, <2>3 DEF Channel!Drop
  <2> QED
    BY <2>4
<1> QED
  BY <1>1, <1>2, <1>3, <1>4 DEF ChannelStep

\* DataOf keeps length and order.
LEMMA DataOfType ==
  ASSUME NEW s \in Seq(Char)
  PROVE  /\ DataOf(s) \in Seq(Byte) /\ Len(DataOf(s)) = Len(s)
         /\ \A i \in 1 .. Len(s) : DataOf(s)[i] = s[i].data
<1>1. \A i \in 1 .. Len(s) : s[i].data \in Byte
  <2>1. \A i \in 1 .. Len(s) : s[i] \in Char
    BY ElementOfSeq
  <2>2. \A c \in Char : c.data \in Byte
    BY DEF Char
  <2> QED
    BY <2>1, <2>2
<1> DEFINE n == Len(s)
           u == [i \in 1 .. n |-> s[i].data]
<1>2. n \in Nat
  OBVIOUS
<1>3. u \in [1 .. n -> Byte] /\ \A i \in 1 .. n : u[i] = s[i].data
  BY <1>1
<1> HIDE DEF n, u
<1>4. u \in Seq(Byte) /\ Len(u) = n
  BY <1>2, <1>3
<1> QED
  BY <1>3, <1>4 DEF DataOf, u, n

\* No character, no byte.
LEMMA DataOfEmpty == DataOf(<<>>) = <<>>
<1>1. <<>> \in Seq(Char)
  OBVIOUS
<1>2. DataOf(<<>>) \in Seq(Byte) /\ Len(DataOf(<<>>)) = 0
  BY <1>1, DataOfType
<1> QED
  BY <1>2

\* One character, one byte.
LEMMA DataOfOne ==
  ASSUME NEW c \in Char
  PROVE  DataOf(<<c>>) = <<c.data>>
<1> DEFINE u == DataOf(<<c>>)
           v == <<c.data>>
<1>1. <<c>> \in Seq(Char) /\ Len(<<c>>) = 1 /\ <<c>>[1] = c
  OBVIOUS
<1>2. u \in Seq(Byte) /\ Len(u) = 1 /\ u[1] = c.data
  <2> DEFINE s == <<c>>
  <2>1. s \in Seq(Char) /\ Len(s) = 1 /\ s[1] = c
    BY <1>1
  <2> HIDE DEF s
  <2>2. /\ DataOf(s) \in Seq(Byte) /\ Len(DataOf(s)) = Len(s)
        /\ \A i \in 1 .. Len(s) : DataOf(s)[i] = s[i].data
    BY <2>1, DataOfType
  <2>3. DataOf(s) \in Seq(Byte) /\ Len(DataOf(s)) = 1 /\ DataOf(s)[1] = c.data
    BY <2>1, <2>2
  <2> QED
    BY <2>3 DEF s
<1>3. v \in Seq(Byte) /\ Len(v) = 1 /\ v[1] = c.data
  <2>1. c.data \in Byte
    BY DEF Char
  <2> QED
    BY <2>1
<1> HIDE DEF u, v
<1>4. u = v
  BY <1>2, <1>3, SeqEqual
<1> QED
  BY <1>4 DEF u, v

\* A character joins at the far end.
LEMMA DataOfConcat ==
  ASSUME NEW s \in Seq(Char), NEW t \in Seq(Char)
  PROVE  DataOf(s \o t) = DataOf(s) \o DataOf(t)
<1> DEFINE u == DataOf(s \o t)
           a == DataOf(s)
           b == DataOf(t)
           v == a \o b
           m == Len(s)
           n == Len(t)
<1>1. /\ s \o t \in Seq(Char) /\ Len(s \o t) = m + n
      /\ \A i \in 1 .. m + n : (s \o t)[i] = IF i <= m THEN s[i] ELSE t[i - m]
  BY ConcatProperties
<1>2. /\ u \in Seq(Byte) /\ Len(u) = m + n
      /\ \A i \in 1 .. m + n : u[i] = (s \o t)[i].data
  BY <1>1, DataOfType
<1>3. /\ a \in Seq(Byte) /\ Len(a) = m /\ \A i \in 1 .. m : a[i] = s[i].data
      /\ b \in Seq(Byte) /\ Len(b) = n /\ \A i \in 1 .. n : b[i] = t[i].data
  BY DataOfType
<1>m. m \in Nat /\ n \in Nat
  OBVIOUS
<1> HIDE DEF u, a, b, m, n
<1>4. /\ v \in Seq(Byte) /\ Len(v) = m + n
      /\ \A i \in 1 .. m + n : v[i] = IF i <= m THEN a[i] ELSE b[i - m]
  <2>1. a \in Seq(Byte) /\ b \in Seq(Byte)
    BY <1>3
  <2>2. /\ v \in Seq(Byte) /\ Len(v) = Len(a) + Len(b)
        /\ \A i \in 1 .. Len(a) + Len(b) :
             v[i] = IF i <= Len(a) THEN a[i] ELSE b[i - Len(a)]
    BY ONLY <2>1, ConcatProperties
  <2> QED
    BY <1>3, <2>2
<1> HIDE DEF v
<1>5. ASSUME NEW i \in 1 .. m + n
      PROVE  u[i] = v[i]
  <2>1. CASE i <= m
    <3>1. i \in 1 .. m
      BY <1>m, <2>1
    <3>2. u[i] = (s \o t)[i].data /\ (s \o t)[i] = s[i]
      BY <1>1, <1>2, <2>1
    <3>3. v[i] = a[i] /\ a[i] = s[i].data
      BY <1>3, <1>4, <2>1, <3>1
    <3> QED
      BY <3>2, <3>3
  <2>2. CASE ~(i <= m)
    <3>1. i - m \in 1 .. n
      BY <1>m, <2>2
    <3>2. u[i] = (s \o t)[i].data /\ (s \o t)[i] = t[i - m]
      BY <1>1, <1>2, <2>2
    <3>3. v[i] = b[i - m] /\ b[i - m] = t[i - m].data
      BY <1>3, <1>4, <2>2, <3>1
    <3> QED
      BY <3>2, <3>3
  <2> QED
    BY <2>1, <2>2
<1>6. u = v
  BY <1>2, <1>4, <1>5, SeqEqual
<1> QED
  BY <1>6 DEF u, v, a, b

\* The oldest character leaves.
LEMMA DataOfHead ==
  ASSUME NEW s \in Seq(Char), s # <<>>
  PROVE  /\ Head(s) \in Char /\ Tail(s) \in Seq(Char)
         /\ DataOf(s) = <<Head(s).data>> \o DataOf(Tail(s))
<1>1. Head(s) \in Char /\ Tail(s) \in Seq(Char)
  OBVIOUS
<1> DEFINE h == Head(s)
           t == Tail(s)
           g == <<h>>
           v == g \o t
           n == Len(s)
<1>2. /\ n \in Nat /\ n >= 1 /\ Len(t) = n - 1 /\ h = s[1]
      /\ \A i \in 1 .. n - 1 : t[i] = s[i + 1]
  OBVIOUS
<1>4. g \in Seq(Char) /\ Len(g) = 1 /\ g[1] = h
  BY <1>1
<1> HIDE DEF h, t, g, n
<1>3. h \in Char /\ t \in Seq(Char) /\ s = g \o t
  <2>1. h \in Char /\ t \in Seq(Char) /\ g \in Seq(Char)
    BY <1>1, <1>4 DEF h, t
  <2>2. /\ v \in Seq(Char) /\ Len(v) = Len(g) + Len(t)
        /\ \A i \in 1 .. Len(g) + Len(t) :
             v[i] = IF i <= Len(g) THEN g[i] ELSE t[i - Len(g)]
    BY ONLY <2>1, ConcatProperties
  <2>3. Len(v) = n
    BY <1>2, <1>4, <2>2
  <2>4. ASSUME NEW i \in 1 .. n
        PROVE  v[i] = s[i]
    <3>1. CASE i = 1
      BY <1>2, <1>4, <2>2, <3>1
    <3>2. CASE i # 1
      <4>1. i - 1 \in 1 .. n - 1 /\ ~(i <= 1) /\ (i - 1) + 1 = i
        BY <1>2, <3>2
      <4> QED
        BY <1>2, <1>4, <2>2, <4>1, SMTT(30)
    <3> QED
      BY <3>1, <3>2
  <2>5. s = v
    BY <2>2, <2>3, <2>4, SeqEqual DEF n
  <2> QED
    BY <2>1, <2>5
<1>5. DataOf(g \o t) = DataOf(g) \o DataOf(t)
  BY <1>3, <1>4, DataOfConcat
<1>6. DataOf(g) = <<h.data>>
  BY <1>3, DataOfOne DEF g
<1> QED
  BY <1>1, <1>3, <1>5, <1>6 DEF h, t

TransitFormed(a, s, h, o) ==
  /\ DataOf(s) \o h \in Seq(Byte)
  /\ a \o DataOf(s) \o h \o o = a \o (DataOf(s) \o h) \o o

\* The parts of the line between the queues may be joined first.
LEMMA TransitForm ==
  ASSUME NEW a \in Seq(Byte), NEW s \in Seq(Char), NEW h \in Seq(Byte),
         NEW o \in Seq(Byte)
  PROVE  TransitFormed(a, s, h, o)
<1> DEFINE d == DataOf(s)
<1>1. d \in Seq(Byte)
  BY DataOfType
<1> HIDE DEF d
<1>2. d \o h \in Seq(Byte)
  BY <1>1, ConcatProperties
<1>3. Regrouped(a, d, h, o)
  BY <1>1, Regroup
<1> QED
  BY <1>2, <1>3 DEF Regrouped, TransitFormed, d

\* InTransit is the line of FifoDeviceProofs, with Middle between the queues.
LEMMA TransitLine ==
  ASSUME IInv, IInv'
  PROVE  /\ Middle \in Seq(Byte) /\ Middle' \in Seq(Byte)
         /\ InTransit = Line(Middle)
         /\ InTransit' = Contents(in_fifo') \o Middle' \o Contents(out_fifo')
<1>1. /\ Contents(in_fifo) \in Seq(Byte) /\ Contents(out_fifo) \in Seq(Byte)
      /\ rx \o thr \in Seq(Char) /\ Hand \in Seq(Byte)
  <2>1. rx \in Seq(Char) /\ thr \in Seq(Char) /\ data_out \in Byte
    BY DEF IInv, TypeOK
  <2> QED
    BY <2>1, LineTypes, ConcatProperties DEF IInv, TypeOK, Hand
<1>2. /\ Contents(in_fifo') \in Seq(Byte) /\ Contents(out_fifo') \in Seq(Byte)
      /\ rx' \o thr' \in Seq(Char) /\ Hand' \in Seq(Byte)
  <2>1. rx' \in Seq(Char) /\ thr' \in Seq(Char) /\ data_out' \in Byte
    BY DEF IInv, TypeOK
  <2>2. /\ in_fifo' \in Kfifo /\ in_fifo'.in - in_fifo'.out >= 0
        /\ out_fifo' \in Kfifo /\ out_fifo'.in - out_fifo'.out >= 0
    BY DEF IInv, TypeOK, DeviceTypeOK, kfifo_len
  <2> QED
    BY <2>1, <2>2, ContentsType, ConcatProperties DEF Hand
<1>3. InTransit = Contents(in_fifo) \o DataOf(rx \o thr) \o Hand
                    \o Contents(out_fifo)
  BY DEF InTransit, DataOf, Hand
<1>4. InTransit' = Contents(in_fifo') \o DataOf(rx' \o thr') \o Hand'
                     \o Contents(out_fifo')
  BY DEF InTransit, DataOf, Hand
<1>5. Middle \in Seq(Byte) /\ InTransit = Line(Middle)
  <2>1. TransitFormed(Contents(in_fifo), rx \o thr, Hand, Contents(out_fifo))
    BY <1>1, TransitForm
  <2> QED
    BY <1>3, <2>1 DEF Middle, Line, TransitFormed
<1>6. /\ Middle' \in Seq(Byte)
      /\ InTransit' = Contents(in_fifo') \o Middle' \o Contents(out_fifo')
  <2>1. TransitFormed(Contents(in_fifo'), rx' \o thr', Hand', Contents(out_fifo'))
    BY <1>2, TransitForm
  <2> QED
    BY <1>4, <2>1 DEF Middle, TransitFormed
<1> QED
  BY <1>5, <1>6

\* The UART passes a character on, or loses the youngest one.
LEMMA UartShiftChannel ==
  ASSUME IInv, IInv', UartShift
  PROVE  ChannelStep(InTransit, InTransit', received, received', LossPoints)
<1> DEFINE a == Contents(in_fifo)
           o == Contents(out_fifo)
<1>t. /\ rx \in Seq(Char) /\ thr \in Seq(Char) /\ Uart /\ Hand = <<>>
      /\ Len(rx) <= RxDepth /\ RxDepth \in Nat /\ FifoSize \in Nat
  BY LdtAssumption, Constants
  DEF IInv, TypeOK, HandInv, UartShift, tx_ready, Hand
<1>1. /\ Hand' = <<>> /\ UNCHANGED <<in_fifo, out_fifo, received>>
      /\ rx' = (IF Len(rx) < RxDepth THEN rx \o thr ELSE rx) /\ thr' = <<>>
  BY <1>t DEF UartShift, dvars, queues, history, Hand
<1>2. rx' \in Seq(Char) /\ rx' \o thr' = rx'
  <2>1. rx' \in Seq(Char)
    BY DEF IInv, TypeOK
  <2> QED
    BY <1>1, <2>1, ConcatEmptySeq
<1>l. /\ Middle \in Seq(Byte) /\ InTransit = a \o Middle \o o
      /\ InTransit' = a \o Middle' \o o
  BY <1>1, TransitLine DEF Line
<1>3. CASE Len(rx) < RxDepth
  <2>1. rx' \o thr' = rx \o thr
    BY <1>1, <1>2, <1>3
  <2>2. Middle' = Middle
    BY <1>1, <1>t, <2>1 DEF Middle
  <2> QED
    BY <1>1, <1>l, <2>2 DEF ChannelStep
<1>4. CASE ~(Len(rx) < RxDepth)
  <2> DEFINE c == thr[1]
             d == DataOf(rx)
             h == <<c.data>>
  <2>1. thr = <<c>> /\ c \in Char
    <3>1. Len(thr) = 1
      <4>1. thr # <<>> /\ Len(thr) <= 1
        BY DEF IInv, TypeOK, UartShift, tx_ready
      <4>2. Len(thr) # 0 /\ Len(thr) \in Nat
        BY <1>t, <4>1, EmptySeq
      <4> QED
        BY <4>1, <4>2
    <3>2. c \in Char
      BY <1>t, <3>1, ElementOfSeq
    <3> DEFINE g == <<c>>
    <3>3. g \in Seq(Char) /\ Len(g) = 1 /\ g[1] = thr[1]
      BY <3>2
    <3> HIDE DEF g
    <3>4. thr = g
      BY <1>t, <3>1, <3>3, SeqEqual
    <3> QED
      BY <3>2, <3>4 DEF g
  <2>2. DataOf(thr) = h /\ c.data \in Byte
    <3>1. DataOf(<<c>>) = <<c.data>>
      BY <2>1, DataOfOne
    <3>2. c.data \in Byte
      BY <2>1 DEF Char
    <3> QED
      BY <2>1, <3>1, <3>2
  <2>3. d \in Seq(Byte) /\ Len(d) = RxDepth
    BY <1>t, <1>4, DataOfType
  <2>4. Middle = d \o h
    <3>1. DataOf(rx \o thr) = d \o h
      BY <1>t, <2>2, DataOfConcat
    <3>2. DataOf(rx \o thr) \in Seq(Byte)
      BY <1>t, ConcatProperties, DataOfType
    <3> QED
      BY <1>t, <3>1, <3>2, ConcatEmptySeq DEF Middle
  <2>5. Middle' = d
    <3>1. Middle' = DataOf(rx) \o <<>>
      BY <1>1, <1>2, <1>4 DEF Middle
    <3> QED
      BY <2>3, <3>1, ConcatEmptySeq
  <2>6. a \in Seq(Byte) /\ o \in Seq(Byte) /\ Len(a) \in 0 .. FifoSize
    BY LineTypes, FifoTypes DEF IInv, TypeOK
  <2>7. h \in Seq(Byte)
    BY <2>2
  <2> HIDE DEF a, o, c, d, h
  <2> DEFINE e == a \o d
  <2>8. e \in Seq(Byte) /\ Len(e) = Len(a) + Len(d)
    <3>1. a \in Seq(Byte) /\ d \in Seq(Byte)
      BY <2>3, <2>6
    <3> QED
      BY ONLY <3>1, ConcatProperties
  <2>9. Len(e) \in LossPoints
    BY <1>t, <2>3, <2>6, <2>8 DEF LossPoints
  <2> HIDE DEF e
  <2>10. ChannelStep(e \o <<c.data>> \o o, e \o o, received, received, LossPoints)
    BY <2>2, <2>6, <2>8, <2>9, LineDrop
  <2>11. Regrouped(a, d, h, o)
    BY <2>3, <2>6, <2>7, Regroup
  <2>12. InTransit = e \o h \o o /\ InTransit' = e \o o
    BY <1>l, <2>4, <2>5, <2>11 DEF Regrouped, e
  <2> QED
    BY <1>1, <2>10, <2>12 DEF h
<1> QED
  BY <1>3, <1>4

\* The byte in the tasklet's hand goes to the holding register of the UART,
\* which is empty, or stays in the hand.
LEMMA TaskletSendChannel ==
  ASSUME Uart \/ Loopback, IInv, IInv', TaskletSend
  PROVE  ChannelStep(InTransit, InTransit', received, received', LossPoints)
<1>t. /\ rx \in Seq(Char) /\ thr = <<>> /\ data_out \in Byte
      /\ out_fifo.out \in Nat /\ Hand = <<data_out>>
      /\ UNCHANGED <<in_fifo, out_fifo, received, rx, data_out>>
  BY FifoTypes DEF IInv, TypeOK, HandInv, TaskletSend, tx_ready, queues, history,
                   Hand
<1>1. Middle' = Middle
  <2>1. CASE ~Uart
    BY <1>t, <2>1 DEF TaskletSend, Middle, Hand
  <2>2. CASE Uart
    <3> DEFINE c == [data |-> data_out, num |-> out_fifo.out]
    <3>1. c \in Char /\ c.data = data_out
      BY <1>t DEF Char
    <3>2. thr' = <<c>> /\ Hand' = <<>>
      BY <2>2 DEF TaskletSend, Hand
    <3> HIDE DEF c
    <3>3. <<c>> \in Seq(Char)
      BY <3>1
    <3>4. DataOf(rx \o <<c>>) = DataOf(rx) \o <<data_out>>
      <4>1. DataOf(rx \o <<c>>) = DataOf(rx) \o DataOf(<<c>>)
        BY <1>t, <3>3, DataOfConcat
      <4>2. DataOf(<<c>>) = <<data_out>>
        BY <3>1, DataOfOne
      <4> QED
        BY <4>1, <4>2
    <3>5. Middle' = DataOf(rx \o <<c>>)
      <4>1. Middle' = DataOf(rx \o <<c>>) \o <<>>
        BY <1>t, <3>2 DEF Middle
      <4>2. DataOf(rx \o <<c>>) \in Seq(Byte)
        BY <1>t, <3>3, ConcatProperties, DataOfType
      <4> QED
        BY <4>1, <4>2, ConcatEmptySeq
    <3>6. Middle = DataOf(rx) \o <<data_out>>
      <4>1. rx \o <<>> = rx
        BY <1>t, ConcatEmptySeq
      <4> QED
        BY <1>t, <4>1 DEF Middle
    <3> QED
      BY <3>4, <3>5, <3>6
  <2> QED
    BY <2>1, <2>2
<1> QED
  BY <1>t, <1>1, TransitLine DEF ChannelStep, Line

\* A byte joins the others between the queues.
LEMMA TaskletTxChannel ==
  ASSUME IInv, IInv', TaskletTx
  PROVE  ChannelStep(InTransit, InTransit', received, received', LossPoints)
<1> DEFINE b == ByteAt(out_fifo, out_fifo.out)
<1>1. /\ ~kfifo_is_empty(out_fifo) /\ out_fifo' = AdvanceOut(out_fifo, 1)
      /\ UNCHANGED <<in_fifo, received, rx, thr>>
      /\ Hand = <<>> /\ Hand' = <<b>>
  BY DEF TaskletTx, history, uart, Hand
<1>2. DeviceTypeOK /\ DataOf(rx \o thr) \in Seq(Byte)
  <2>1. rx \in Seq(Char) /\ thr \in Seq(Char)
    BY DEF IInv, TypeOK
  <2> QED
    BY <2>1, ConcatProperties, DataOfType DEF IInv, TypeOK
<1>3. Middle = DataOf(rx \o thr) /\ Middle' = DataOf(rx \o thr) \o <<b>>
  BY <1>1, <1>2, ConcatEmptySeq DEF Middle
<1>4. Contents(in_fifo') \o Middle' \o Contents(out_fifo') = Line(Middle)
  BY <1>1, <1>2, <1>3, TakeLine
<1> QED
  BY <1>1, <1>4, TransitLine DEF ChannelStep

\* The oldest byte between the queues is stored, or finds in_fifo full: it
\* comes from the tasklet's hand in emulation ...
LEMMA TaskletEchoChannel ==
  ASSUME IInv, IInv', TaskletEcho
  PROVE  ChannelStep(InTransit, InTransit', received, received', LossPoints)
<1>1. /\ rx = <<>> /\ thr = <<>> /\ data_out \in Byte /\ DeviceTypeOK
      /\ Hand = <<data_out>> /\ Hand' = <<>>
      /\ UNCHANGED <<out_fifo, received, rx, thr>>
      /\ IF kfifo_is_full(in_fifo) THEN UNCHANGED in_fifo
                                   ELSE in_fifo' = Push(in_fifo, data_out)
  BY DEF IInv, TypeOK, HandInv, TaskletEcho, Store, uart, Hand
<1>2. Middle = <<data_out>> \o <<>> /\ Middle' = <<>> /\ <<>> \in Seq(Byte)
  <2>1. DataOf(rx \o thr) = <<>>
    BY <1>1, DataOfEmpty
  <2>2. <<>> \o <<data_out>> = <<data_out>> /\ <<data_out>> \o <<>> = <<data_out>>
    BY <1>1
  <2>3. Middle = <<>> \o <<data_out>>
    BY <1>1, <2>1 DEF Middle
  <2>4. Middle' = <<>> \o <<>>
    BY <1>1, <2>1 DEF Middle
  <2> QED
    BY <2>2, <2>3, <2>4
<1>3. FifoSize \in LossPoints
  BY DEF LossPoints
<1>4. ChannelStep(Line(<<data_out>> \o <<>>),
                  Contents(in_fifo') \o <<>> \o Contents(out_fifo'),
                  received, received', LossPoints)
  BY <1>1, <1>2, <1>3, StoreLine
<1> QED
  BY <1>2, <1>4, TransitLine

\* ... and from the UART with one.
LEMMA TaskletRxChannel ==
  ASSUME IInv, IInv', TaskletRx
  PROVE  ChannelStep(InTransit, InTransit', received, received', LossPoints)
<1> DEFINE c == Head(rx)
           d == DataOf(Tail(rx) \o thr)
<1>t. rx \in Seq(Char) /\ rx # <<>> /\ thr \in Seq(Char) /\ DeviceTypeOK
  BY DEF IInv, TypeOK, TaskletRx, rx_ready
<1>h. c \in Char /\ Tail(rx) \in Seq(Char) /\ c.data \in Byte
  BY <1>t, DataOfHead DEF Char
<1>1. /\ rx' = Tail(rx) /\ thr' = thr /\ Hand = <<>> /\ Hand' = <<>>
      /\ UNCHANGED <<out_fifo, received>>
      /\ IF kfifo_is_full(in_fifo) THEN UNCHANGED in_fifo
                                   ELSE in_fifo' = Push(in_fifo, c.data)
  BY DEF TaskletRx, Store, Hand
<1>2. d \in Seq(Byte)
  BY <1>t, <1>h, ConcatProperties, DataOfType
<1>3. Middle' = d
  BY <1>1, <1>2, ConcatEmptySeq DEF Middle
<1>4. Middle = <<c.data>> \o d
  <2>1. rx \o thr \in Seq(Char) /\ DataOf(rx \o thr) \in Seq(Byte)
    BY <1>t, ConcatProperties, DataOfType
  <2>2. Middle = DataOf(rx \o thr)
    BY <1>1, <2>1, ConcatEmptySeq DEF Middle
  <2>3. DataOf(rx \o thr) = DataOf(rx) \o DataOf(thr)
    BY <1>t, DataOfConcat
  <2>4. d = DataOf(Tail(rx)) \o DataOf(thr)
    BY <1>t, <1>h, DataOfConcat
  <2>5. DataOf(rx) = <<c.data>> \o DataOf(Tail(rx))
    BY <1>t, DataOfHead
  <2> DEFINE u == DataOf(Tail(rx))
             v == DataOf(thr)
             h == <<c.data>>
  <2>6. u \in Seq(Byte) /\ v \in Seq(Byte) /\ h \in Seq(Byte)
    <3>1. u \in Seq(Byte) /\ v \in Seq(Byte)
      BY <1>t, <1>h, DataOfType
    <3>2. h \in Seq(Byte)
      BY <1>h
    <3> QED
      BY <3>1, <3>2
  <2> HIDE DEF u, v, h
  <2>7. (h \o u) \o v = h \o (u \o v)
    BY ONLY <2>6, ConcatAssociative, SMTT(40)
  <2> QED
    BY <2>2, <2>3, <2>4, <2>5, <2>7 DEF u, v, h
<1>5. FifoSize \in LossPoints
  BY DEF LossPoints
<1> HIDE DEF c, d
<1>6. ChannelStep(Line(<<c.data>> \o d),
                  Contents(in_fifo') \o d \o Contents(out_fifo'),
                  received, received', LossPoints)
  BY <1>t, <1>h, <1>1, <1>2, <1>5, StoreLine
<1> QED
  BY <1>3, <1>4, <1>6, TransitLine

\* A step of the driver is a step of the channel, or none.
LEMMA ChannelSimulation ==
  ASSUME Uart \/ Loopback, IInv, IInv', [Next]_vars
  PROVE  ChannelStep(InTransit, InTransit', received, received', LossPoints)
<1>q. ASSUME UNCHANGED <<in_fifo, out_fifo, received, rx, thr>>, Hand' = Hand
      PROVE  ChannelStep(InTransit, InTransit', received, received', LossPoints)
  <2>1. Middle' = Middle
    BY <1>q DEF Middle
  <2> QED
    BY <1>q, <2>1, TransitLine DEF ChannelStep, Line
<1>1. CASE UserNext /\ UNCHANGED bh
  <2>1. Middle \in Seq(Byte) /\ Middle' = Middle
    BY <1>1, TransitLine DEF Middle, Hand, bh, uart
  <2>2. ChannelStep(Line(Middle),
                    Contents(in_fifo') \o Middle \o Contents(out_fifo'),
                    received, received', LossPoints)
    BY <1>1, <2>1, UserLine DEF IInv
  <2> QED
    BY <2>1, <2>2, TransitLine
<1>2. CASE Isr \/ Timer
  BY <1>2, <1>q DEF Isr, Timer, queues, history, uart, bh, Hand
<1>3. CASE TaskletStart \/ TaskletTxEnd \/ TaskletWake \/ TaskletEnd
  BY <1>3, <1>q DEF TaskletStart, TaskletTxEnd, TaskletWake, TaskletEnd,
                    queues, history, dvars, uart, Hand
<1>4. CASE UNCHANGED vars
  BY <1>4, <1>q DEF vars, dvars, bh, queues, history, uart, Hand
<1> QED
  BY <1>1, <1>2, <1>3, <1>4, UartShiftChannel, TaskletTxChannel,
     TaskletSendChannel, TaskletEchoChannel, TaskletRxChannel DEF Next, Tasklet

\* On a UART and in emulation with the loopback parameter set, ldt.c implements
\* the loopback channel for any number of processes, any queue size, any
\* receive depth and all data: bytes come back in the order in which write(2)
\* accepted them, and a byte is lost only where in_fifo or the receive queue is
\* full.  (In the remaining configuration ldt_send discards every byte.)
THEOREM ChannelImplemented ==
  ASSUME Uart \/ Loopback
  PROVE  Spec => ImplementsChannel
<1>1. Init => Channel!CInit
  <2> SUFFICES ASSUME Init
               PROVE  InTransit = <<>> /\ received = <<>>
    BY DEF Channel!CInit
  <2>1. /\ DeviceTypeOK /\ in_fifo.in - in_fifo.out = 0
        /\ out_fifo.in - out_fifo.out = 0
        /\ rx = <<>> /\ thr = <<>> /\ Hand = <<>> /\ received = <<>>
    BY InitIInv DEF Init, DeviceInit, INIT_KFIFO, IInv, TypeOK, Hand
  <2>2. Contents(in_fifo) = <<>> /\ Contents(out_fifo) = <<>>
    BY <2>1, LineTypes
  <2>3. DataOf(rx \o thr) = <<>>
    BY <2>1, DataOfEmpty
  <2>4. InTransit = <<>> \o <<>> \o <<>> \o <<>>
    BY <2>1, <2>2, <2>3 DEF InTransit, DataOf, Hand
  <2> QED
    BY <2>1, <2>4
<1>2. IInv /\ IInv' /\ [Next]_vars => [Channel!CNext]_(Channel!cvars)
  BY ChannelSimulation, ChannelNext
<1> QED
  BY <1>1, <1>2, Invariance, PTL DEF Spec, ImplementsChannel, Channel!CSpec
=============================================================================
