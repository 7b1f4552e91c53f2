--------------------------- MODULE MiscLoopProofs ---------------------------
(***************************************************************************)
(* Machine-checked proofs about the data path of ldt/misc_loop_drv.c, for  *)
(* every number of processes and CPUs, every queue size and all data.  The *)
(* process side is dealt with in FifoDeviceProofs; here come the tasklet   *)
(* and the interrupt.                                                      *)
(***************************************************************************)
EXTENDS MiscLoop, FifoDeviceProofs

\* The tasklet has a byte in hand, or in the port register.
Pending == tpc = "put" \/ (port.full /\ tpc # "rxdone")

\* The flag of the port follows the place of the tasklet; the byte in hand is
\* the one taken from out_fifo last, and it is not stored yet.
PortInv ==
  /\ tpc \in {"idle", "put"} => ~port.full
  /\ tpc = "rxdone" => port.full
  /\ Pending => /\ out_fifo.out >= 1
                /\ (IF tpc = "put" THEN data_out ELSE port.data)
                      = accepted[out_fifo.out]
                /\ \A i \in 1 .. Len(kept) : kept[i] < out_fifo.out

IInv == TypeOK /\ DeviceInv /\ PortInv

\* A set flag means that the interrupt sent with it still has to schedule the
\* tasklet, or that the tasklet is scheduled again.
KickInv ==
  /\ tpc \in {"idle", "put"} => ~port.full
  /\ port.full => sched \/ irq # {}
  /\ NoStall

----------------------------------------------------------------------------
(* The inductive invariant *)

\* The driver just loaded: queues, port register and interrupts are clear.
LEMMA InitIInv == Init => IInv
<1> SUFFICES ASSUME Init
             PROVE  IInv
  OBVIOUS
<1>1. DeviceInv
  BY DeviceInitInv DEF Init
<1>2. TypeOK
  BY <1>1, KfifoAssumption DEF Init, TypeOK, DeviceInv
<1>3. PortInv
  BY DEF Init, PortInv, Pending
<1> QED
  BY <1>1, <1>2, <1>3 DEF IInv

\* A step of a process does not disturb the byte in the tasklet's hand.
LEMMA UserStepIInv == IInv /\ UserNext /\ UNCHANGED bh => IInv'
<1> SUFFICES ASSUME IInv, UserNext, UNCHANGED bh
             PROVE  IInv'
  OBVIOUS
<1>1. DeviceInv'
  BY UserInv DEF IInv
<1>2. UNCHANGED <<port, tpc, data_out, irq>>
  BY DEF bh
<1>3. TypeOK'
  BY <1>1, <1>2 DEF IInv, TypeOK, DeviceInv
<1>4. /\ out_fifo'.out = out_fifo.out /\ kept' = kept
      /\ \A i \in 1 .. Len(accepted) : accepted'[i] = accepted[i]
  BY UserHistory DEF IInv
<1>5. out_fifo.out \in Nat /\ out_fifo.out <= Len(accepted)
  BY FifoTypes DEF IInv, DeviceInv, DataInv, CounterInv
<1>6. out_fifo.out >= 1 => accepted'[out_fifo.out] = accepted[out_fifo.out]
  <2>1. Len(accepted) \in Nat
    BY DEF IInv, DeviceInv, DeviceTypeOK
  <2> QED
    BY <1>4, <1>5, <2>1
<1>7. PortInv'
  BY <1>2, <1>4, <1>6 DEF IInv, PortInv, Pending
<1> QED
  BY <1>1, <1>3, <1>7 DEF IInv

\* The interrupt handler only schedules the tasklet.
LEMMA IsrIInv == ASSUME IInv, NEW c \in Cpus, Isr(c) PROVE IInv'
<1>1. TaskletFrame /\ UNCHANGED <<queues, kept>>
  BY DEF Isr, TaskletFrame, history, IInv, DeviceInv, DeviceTypeOK
<1>2. DeviceInv'
  BY <1>1, QuietStep DEF IInv
<1>3. UNCHANGED <<port, tpc, data_out, out_fifo, accepted, kept>>
  BY DEF Isr, queues, history
<1>4. TypeOK' /\ PortInv'
  BY <1>2, <1>3 DEF Isr, IInv, TypeOK, PortInv, Pending, DeviceInv
<1> QED
  BY <1>2, <1>4 DEF IInv

\* Every step of the tasklet keeps the invariant: it alone takes from out_fifo,
\* uses the port register and stores into in_fifo.
LEMMA TaskletIInv == IInv /\ Tasklet => IInv'
<1> SUFFICES ASSUME IInv, Tasklet
             PROVE  IInv'
  OBVIOUS
<1>t. /\ DeviceInv /\ PortInv
      /\ waiting \subseteq Procs /\ sched \in BOOLEAN
      /\ port \in [data : Byte, full : BOOLEAN] /\ data_out \in Byte
      /\ irq \subseteq Cpus /\ out_fifo.out \in Nat
  BY FifoTypes DEF IInv, TypeOK, DeviceInv, DeviceTypeOK
<1>f. /\ TaskletFrame
      /\ \/ tpc' = tpc
         \/ tpc' \in {"idle", "tx", "put", "rx", "rxdone"}
  BY <1>t DEF Tasklet, TaskletStart, TaskletTx, TaskletTxEnd, TaskletPut,
              TaskletRx, TaskletRxDrop, TaskletRxDone, TaskletEnd, history,
              TaskletFrame, WakeWriteable, WakeReadable
<1>q. ASSUME UNCHANGED <<queues, kept>>
      PROVE  DeviceInv'
  BY <1>t, <1>f, <1>q, QuietStep
<1>a. UNCHANGED accepted
  BY <1>f DEF TaskletFrame
<1> USE DEF history, queues
<1>1. CASE TaskletStart
  <2>1. DeviceInv'
    BY <1>1, <1>q DEF TaskletStart
  <2>2. TypeOK' /\ PortInv'
    BY <1>1, <1>t, <2>1 DEF TaskletStart, TypeOK, PortInv, Pending, DeviceInv
  <2> QED
    BY <2>1, <2>2 DEF IInv
<1>2. CASE TaskletTx
  <2>1. /\ DeviceInv' /\ out_fifo'.out = out_fifo.out + 1
        /\ ByteAt(out_fifo, out_fifo.out) \in Byte
        /\ ByteAt(out_fifo, out_fifo.out) = accepted[out_fifo.out + 1]
    BY <1>2, <1>t, <1>f, TakeStep DEF TaskletTx
  <2>2. TypeOK'
    BY <1>2, <1>t, <2>1 DEF TaskletTx, TypeOK, DeviceInv
  <2>3. \A i \in 1 .. Len(kept) : kept[i] < out_fifo.out + 1
    BY <1>t DEF DeviceInv, DataInv, KeptInv
  <2>4. PortInv'
    BY <1>2, <1>a, <1>t, <2>1, <2>3 DEF TaskletTx, PortInv
  <2> QED
    BY <2>1, <2>2, <2>4 DEF IInv
<1>3. CASE TaskletTxEnd
  <2>1. DeviceInv'
    BY <1>3, <1>q DEF TaskletTxEnd
  <2>2. TypeOK' /\ PortInv'
    BY <1>3, <1>t, <2>1 DEF TaskletTxEnd, TypeOK, PortInv, Pending, DeviceInv
  <2> QED
    BY <2>1, <2>2 DEF IInv
<1>4. CASE TaskletPut
  <2>1. DeviceInv'
    BY <1>4, <1>q DEF TaskletPut
  <2>2. TypeOK'
    BY <1>4, <1>t, <2>1 DEF TaskletPut, TypeOK, DeviceInv
  <2>3. PortInv'
    BY <1>4, <1>t DEF TaskletPut, PortInv, Pending
  <2> QED
    BY <2>1, <2>2, <2>3 DEF IInv
<1>5. CASE TaskletRx
  <2>1. /\ tpc = "rx" /\ port.full /\ tpc' = "rxdone" /\ Pending
        /\ UNCHANGED <<port, data_out, irq, out_fifo>>
    BY <1>5 DEF TaskletRx, Pending
  <2>2. /\ out_fifo.out \in 1 .. out_fifo.out
        /\ port.data \in Byte /\ port.data = accepted[out_fifo.out]
        /\ \A i \in 1 .. Len(kept) : kept[i] < out_fifo.out
    BY <1>t, <2>1 DEF PortInv
  <2>3. DeviceInv'
    BY <1>5, <1>t, <1>f, <2>1, <2>2, StoreStep DEF TaskletRx
  <2>4. TypeOK' /\ PortInv'
    BY <1>t, <2>1, <2>3 DEF TypeOK, PortInv, Pending, DeviceInv
  <2> QED
    BY <2>3, <2>4 DEF IInv
<1>6. CASE TaskletRxDrop
  <2>1. DeviceInv'
    BY <1>6, <1>q DEF TaskletRxDrop
  <2>2. TypeOK' /\ PortInv'
    BY <1>6, <1>t, <2>1 DEF TaskletRxDrop, TypeOK, PortInv, Pending, DeviceInv
  <2> QED
    BY <2>1, <2>2 DEF IInv
<1>7. CASE TaskletRxDone
  <2>1. DeviceInv'
    BY <1>7, <1>q DEF TaskletRxDone
  <2>2. port' \in [data : Byte, full : BOOLEAN] /\ port'.full = FALSE
    BY <1>7, <1>t DEF TaskletRxDone
  <2>3. TypeOK' /\ PortInv'
    BY <1>7, <1>t, <2>1, <2>2
       DEF TaskletRxDone, TypeOK, PortInv, Pending, DeviceInv
  <2> QED
    BY <2>1, <2>3 DEF IInv
<1>8. CASE TaskletEnd
  <2>1. DeviceInv'
    BY <1>8, <1>q DEF TaskletEnd
  <2>2. TypeOK' /\ PortInv'
    BY <1>8, <1>t, <2>1 DEF TaskletEnd, TypeOK, PortInv, Pending, DeviceInv
  <2> QED
    BY <2>1, <2>2 DEF IInv
<1> QED
  BY <1>1, <1>2, <1>3, <1>4, <1>5, <1>6, <1>7, <1>8 DEF Tasklet

\* Nothing happens: the invariant stays.
LEMMA StutterIInv == IInv /\ UNCHANGED vars => IInv'
<1> SUFFICES ASSUME IInv, UNCHANGED vars
             PROVE  IInv'
  OBVIOUS
<1>1. TaskletFrame /\ UNCHANGED <<queues, kept>>
  BY DEF vars, dvars, TaskletFrame, history, IInv, DeviceInv, DeviceTypeOK
<1>2. DeviceInv'
  BY <1>1, QuietStep DEF IInv
<1>3. UNCHANGED <<port, tpc, data_out, irq, out_fifo, accepted, kept>>
  BY DEF vars, dvars, bh, queues, history
<1>4. TypeOK' /\ PortInv'
  BY <1>2, <1>3 DEF IInv, TypeOK, PortInv, Pending, DeviceInv
<1> QED
  BY <1>2, <1>4 DEF IInv

\* The inductive invariant holds in every execution.
THEOREM Invariance == Spec => []IInv
<1>1. IInv /\ [Next]_vars => IInv'
  BY UserStepIInv, IsrIInv, TaskletIInv, StutterIInv DEF Next
<1> QED
  BY <1>1, InitIInv, PTL DEF Spec

\* The variables keep their types and the queues their bounds, for any number
\* of concurrent readers and writers of misc_loop_drv.c.
THEOREM TypeCorrect == Spec => []TypeOK
<1>1. IInv => TypeOK
  BY DEF IInv
<1> QED
  BY <1>1, Invariance, PTL

\* Readers of misc_loop_drv.c get accepted bytes, unaltered, in order and at
\* most once, for any number of readers and writers and any size of the queues.
THEOREM Faithful == Spec => []FaithfulLoop
<1>1. IInv => FaithfulLoop
  BY DeviceFaithful DEF IInv
<1> QED
  BY <1>1, Invariance, PTL

----------------------------------------------------------------------------
(* Nothing stalls *)

\* Every step keeps somebody in charge of the bytes in out_fifo.
LEMMA NextKickInv == TypeOK /\ KickInv /\ [Next]_vars => KickInv'
<1> SUFFICES ASSUME TypeOK, KickInv, [Next]_vars
             PROVE  KickInv'
  OBVIOUS
<1>1. CASE UserNext /\ UNCHANGED bh
  <2>1. UNCHANGED <<tpc, port, irq>>
    BY <1>1 DEF bh
  <2>2. /\ sched => sched'
        /\ InCharge => InCharge'
        /\ kfifo_is_empty(out_fifo) => kfifo_is_empty(out_fifo') \/ InCharge'
    BY <1>1, UserCharge DEF TypeOK
  <2> QED
    BY <2>1, <2>2 DEF KickInv, NoStall, InCharge
<1>2. ASSUME NEW c \in Cpus, Isr(c)
      PROVE  KickInv'
  <2>1. sched' = TRUE /\ UNCHANGED <<out_fifo, tpc, port>>
    BY <1>2 DEF Isr, queues
  <2> QED
    BY <2>1 DEF KickInv, NoStall
<1>3. CASE Tasklet
  <2> USE DEF KickInv, NoStall, user, queues
  <2>1. CASE TaskletStart
    BY <2>1 DEF TaskletStart
  <2>2. CASE TaskletTx
    BY <2>2 DEF TaskletTx
  <2>3. CASE TaskletTxEnd
    BY <2>3 DEF TaskletTxEnd
  <2>4. CASE TaskletPut
    BY <2>4, MiscLoopAssumption DEF TaskletPut
  <2>5. CASE TaskletRx
    BY <2>5 DEF TaskletRx
  <2>6. CASE TaskletRxDrop
    BY <2>6 DEF TaskletRxDrop
  <2>7. CASE TaskletRxDone
    <3>1. port'.full = FALSE
      BY <2>7 DEF TaskletRxDone, TypeOK
    <3> QED
      BY <2>7, <3>1 DEF TaskletRxDone
  <2>8. CASE TaskletEnd
    BY <2>8 DEF TaskletEnd
  <2> QED
    BY <1>3, <2>1, <2>2, <2>3, <2>4, <2>5, <2>6, <2>7, <2>8 DEF Tasklet
<1>4. CASE UNCHANGED vars
  BY <1>4 DEF vars, dvars, user, queues, bh, KickInv, NoStall
<1> QED
  BY <1>1, <1>2, <1>3, <1>4 DEF Next

\* Bytes in out_fifo always have somebody left who will send them: a run of
\* misc_loop_drv_tasklet_func that sends one byte and stops cannot strand the
\* rest.
THEOREM NeverStalls == Spec => []NoStall
<1>1. Init => KickInv
  BY DEF Init, DeviceInit, KickInv, NoStall, INIT_KFIFO, kfifo_is_empty
<1>2. IInv /\ KickInv /\ [Next]_vars => KickInv'
  BY NextKickInv DEF IInv
<1>3. KickInv => NoStall
  BY DEF KickInv
<1> QED
  BY <1>1, <1>2, <1>3, Invariance, PTL DEF Spec

----------------------------------------------------------------------------
(* Nobody sleeps through the event awaited *)

\* A step that makes a condition true is one that goes on to wake, and a
\* wake-up finds every sleeper.
LEMMA NextNoLostWakeup == IInv /\ NoLostWakeup /\ [Next]_vars => NoLostWakeup'
<1> SUFFICES ASSUME IInv, NoLostWakeup, [Next]_vars
             PROVE  NoLostWakeup'
  OBVIOUS
<1>p. waiting \subseteq Procs
  BY DEF IInv, TypeOK, DeviceTypeOK
<1>1. CASE UserNext /\ UNCHANGED bh
  <2> SUFFICES ASSUME NEW p \in waiting', pc'[p] = "sleep", Ready(p)'
               PROVE  tpc' = (IF p \in Writers THEN "put" ELSE "rxdone")
    BY DEF NoLostWakeup
  <2>1. p \in Procs
    BY <1>1, UserInv DEF IInv, DeviceInv, DeviceTypeOK
  <2>2. Asleep(p) /\ Ready(p)
    <3>1. Asleep(p)'
      BY DEF Asleep
    <3> QED
      BY <1>1, <2>1, <3>1, UserSleep DEF IInv
  <2> QED
    BY <1>1, <2>2 DEF NoLostWakeup, Asleep, bh
<1>2. ASSUME NEW c \in Cpus, Isr(c)
      PROVE  NoLostWakeup'
  BY <1>2 DEF Isr, user, queues, NoLostWakeup, Ready
<1>3. CASE Tasklet
  <2> USE DEF NoLostWakeup, Ready, user, queues
  <2>1. CASE TaskletStart
    BY <1>p, <2>1 DEF TaskletStart
  <2>2. CASE TaskletTx
    BY <1>p, <2>2 DEF TaskletTx
  <2>3. CASE TaskletTxEnd
    BY <1>p, <2>3 DEF TaskletTxEnd
  <2>4. CASE TaskletPut
    BY <1>p, <2>4, Constants DEF TaskletPut, WakeWriteable, Procs
  <2>5. CASE TaskletRx
    BY <1>p, <2>5 DEF TaskletRx
  <2>6. CASE TaskletRxDrop
    BY <1>p, <2>6 DEF TaskletRxDrop
  <2>7. CASE TaskletRxDone
    BY <1>p, <2>7, Constants DEF TaskletRxDone, WakeReadable, Procs
  <2>8. CASE TaskletEnd
    BY <1>p, <2>8 DEF TaskletEnd
  <2> QED
    BY <1>3, <2>1, <2>2, <2>3, <2>4, <2>5, <2>6, <2>7, <2>8 DEF Tasklet
<1>4. CASE UNCHANGED vars
  BY <1>4 DEF vars, dvars, user, queues, bh, NoLostWakeup, Ready
<1> QED
  BY <1>1, <1>2, <1>3, <1>4 DEF Next

\* No process sleeps in read, write or poll of misc_loop_drv.c while its
\* condition holds, except in the window before the wake-up that is already on
\* its way.
THEOREM WakeupsKept == Spec => []NoLostWakeup
<1>1. Init => NoLostWakeup
  BY DEF Init, DeviceInit, NoLostWakeup
<1>2. IInv /\ NoLostWakeup /\ [Next]_vars => NoLostWakeup'
  BY NextNoLostWakeup
<1> QED
  BY <1>1, <1>2, Invariance, PTL DEF Spec

\* No call of misc_loop_drv.c leaves an entry on a wait queue behind, interrupted
\* or not; the tasklet only takes entries off.
THEOREM NothingStale == Spec => []NoStaleWaiter
<1>1. Init => NoStaleWaiter
  BY DEF Init, DeviceInit, NoStaleWaiter
<1>2. TypeOK /\ NoStaleWaiter /\ [Next]_vars => NoStaleWaiter'
  <2> SUFFICES ASSUME TypeOK, NoStaleWaiter, [Next]_vars
               PROVE  NoStaleWaiter'
    OBVIOUS
  <2>1. CASE UserNext
    BY <2>1, UserStale DEF TypeOK
  <2>2. CASE Tasklet \/ (\E c \in Cpus : Isr(c)) \/ UNCHANGED vars
    <3>1. pc' = pc /\ waiting' \subseteq waiting
      BY <2>2 DEF Tasklet, TaskletStart, TaskletTx, TaskletTxEnd, TaskletPut, TaskletRx,
                  TaskletRxDrop, TaskletRxDone, TaskletEnd, Isr, vars, dvars, user,
                  WakeReadable, WakeWriteable
    <3>2. QED
      BY <3>1 DEF NoStaleWaiter
  <2>3. QED
    BY <2>1, <2>2 DEF Next
<1> QED
  BY <1>1, <1>2, TypeCorrect, PTL DEF Spec
\* Of misc_loop_drv.c: a reader that is the only one gets at least one byte or an
\* error, and a writer that is the only one has at least one byte accepted or
\* gets an error, whatever the tasklet does between the test of the condition
\* and the copy.  It takes two readers to reach the end of file of misc_eof.
THEOREM SoleUsersServed == Spec => []SoleUserServed
<1>1. Init => SoleInv
  BY SoleInit DEF Init
<1>2. IInv /\ SoleInv /\ [Next]_vars => SoleInv'
  <2> SUFFICES ASSUME IInv, SoleInv, [Next]_vars
               PROVE  SoleInv'
    OBVIOUS
  <2>1. CASE UserNext
    BY <2>1, UserSole DEF IInv
  <2>2. CASE Tasklet \/ (\E c \in Cpus : Isr(c)) \/ UNCHANGED vars
    <3>1. UNCHANGED user
      BY <2>2 DEF Tasklet, TaskletStart, TaskletTx, TaskletTxEnd, TaskletPut,
                  TaskletRx, TaskletRxDrop, TaskletRxDone, TaskletEnd, Isr, vars,
                  dvars
    <3>2. CASE TaskletTx
      <4>1. in_fifo' = in_fifo /\ out_fifo' = AdvanceOut(out_fifo, 1)
        BY <3>2 DEF TaskletTx
      <4> QED
        BY <3>1, <4>1, TakeKeepsRoom, TaskletSole DEF IInv, TypeOK
    <3>3. CASE TaskletRx
      <4>1. /\ out_fifo' = out_fifo /\ in_fifo' = Push(in_fifo, port.data)
            /\ port.data \in Byte
        BY <3>3 DEF TaskletRx, IInv, TypeOK
      <4> QED
        BY <3>1, <4>1, PushKeepsBytes, TaskletSole DEF IInv, TypeOK
    <3>4. CASE ~TaskletTx /\ ~TaskletRx
      <4>1. UNCHANGED <<in_fifo, out_fifo>>
        BY <2>2, <3>4 DEF Tasklet, TaskletStart, TaskletTxEnd, TaskletPut,
                          TaskletRxDrop, TaskletRxDone, TaskletEnd, Isr, vars,
                          dvars, queues
      <4> QED
        BY <3>1, <4>1, TaskletSole
    <3> QED
      BY <3>2, <3>3, <3>4
  <2> QED
    BY <2>1, <2>2 DEF Next
<1> QED
  BY <1>1, <1>2, SoleServed, Invariance, PTL DEF Spec
----------------------------------------------------------------------------
(* The driver implements module LoopChannel *)

\* The byte the tasklet has in hand or in the port register.
Hand ==
  IF tpc = "put" THEN <<data_out>>
    ELSE IF port.full /\ tpc # "rxdone" THEN <<port.data>> ELSE <<>>

\* ChannelStep is a step of LoopChannel under the refinement mapping.
LEMMA ChannelNext ==
  ASSUME ChannelStep(InTransit, InTransit', received, received', {FifoSize})
  PROVE  [Channel!CNext]_(Channel!cvars)
<1> DEFINE x == InTransit
           y == InTransit'
<1> USE DEF Channel!CNext, Channel!cvars
<1>0. FifoSize \in Nat
  BY Constants
<1>1. CASE y = x /\ received' = received
  BY <1>1
<1>2. CASE \E s \in Seq(Byte) : /\ Len(s) <= FifoSize
                                /\ y = x \o s /\ received' = received
  <2>1. PICK s \in Seq(Byte) : /\ Len(s) <= FifoSize
                               /\ y = x \o s /\ received' = received
    BY <1>2
  <2>2. s \in [1 .. Len(s) -> Byte] /\ Len(s) \in 0 .. FifoSize
    BY <1>0, <2>1, LenProperties
  <2>3. s \in Channel!BoundedSeq(Byte, FifoSize)
    BY <2>2 DEF Channel!BoundedSeq, Channel!SeqOf
  <2>4. Channel!Accept
    BY <2>1, <2>3 DEF Channel!Accept
  <2> QED
    BY <2>4
<1>3. CASE \E n \in 1 .. FifoSize : /\ n <= Len(x)
                                    /\ y = SubSeq(x, n + 1, Len(x))
                                    /\ received' = received \o SubSeq(x, 1, n)
  BY <1>3 DEF Channel!Deliver
<1>4. CASE \E k \in {FifoSize} : /\ k < Len(x)
                        /\ y = SubSeq(x, 1, k) \o SubSeq(x, k + 2, Len(x))
                        /\ received' = received
  <2>1. PICK k \in {FifoSize} : /\ k < Len(x)
                       /\ y = SubSeq(x, 1, k) \o SubSeq(x, k + 2, Len(x))
                       /\ received' = received
    BY <1>4
  <2>2. k \in Nat
    BY <1>0
  <2>3. Channel!RemoveAt(x, k + 1) = SubSeq(x, 1, k) \o SubSeq(x, k + 2, Len(x))
    <3> DEFINE j == k + 1
    <3>1. j - 1 = k /\ j + 1 = k + 2
      BY <2>2
    <3>2. Channel!RemoveAt(x, j) = SubSeq(x, 1, j - 1) \o SubSeq(x, j + 1, Len(x))
      BY DEF Channel!RemoveAt
    <3> HIDE DEF j, x
    <3>3. Channel!RemoveAt(x, j)
            = SubSeq(x, 1, k) \o SubSeq(x, k + 2, Len(x))
      BY <3>1, <3>2
    <3> QED
      BY <3>3 DEF j
  <2>4. Channel!Drop
    BY <2>1, <2>3 DEF Channel!Drop
  <2> QED
    BY <2>4
<1> QED
  BY <1>1, <1>2, <1>3, <1>4 DEF ChannelStep

\* A step of the driver is a step of the channel, or none: processes write and
\* read; the tasklet hands a byte from out_fifo to the port and from the port
\* to in_fifo, or drops it there.
LEMMA ChannelSimulation ==
  ASSUME IInv, [Next]_vars
  PROVE  ChannelStep(InTransit, InTransit', received, received', {FifoSize})
<1>0. InTransit = Line(Hand) /\ InTransit' = Line(Hand)'
  BY DEF InTransit, Line, Hand
<1>t. /\ DeviceTypeOK /\ DeviceInv /\ PortInv
      /\ port \in [data : Byte, full : BOOLEAN] /\ data_out \in Byte
  BY DEF IInv, TypeOK
<1>q. ASSUME UNCHANGED <<in_fifo, out_fifo, received>>, Hand' = Hand
      PROVE  ChannelStep(InTransit, InTransit', received, received', {FifoSize})
  BY <1>q, <1>0 DEF ChannelStep, Line
<1>1. CASE UserNext /\ UNCHANGED bh
  <2>1. Hand \in Seq(Byte) /\ Hand' = Hand
    BY <1>1, <1>t DEF Hand, bh
  <2>2. ChannelStep(Line(Hand),
                    Contents(in_fifo') \o Hand \o Contents(out_fifo'),
                    received, received', {FifoSize})
    BY <1>1, <1>t, <2>1, UserLine
  <2>3. Line(Hand)' = Contents(in_fifo') \o Hand \o Contents(out_fifo')
    BY <2>1 DEF Line
  <2> QED
    BY <1>0, <2>2, <2>3
<1>2. ASSUME NEW c \in Cpus, Isr(c)
      PROVE  ChannelStep(InTransit, InTransit', received, received', {FifoSize})
  BY <1>2, <1>q DEF Isr, queues, history, Hand
<1>3. CASE TaskletTx
  <2>1. Hand = <<>> /\ Hand' = <<ByteAt(out_fifo, out_fifo.out)>>
    BY <1>3 DEF TaskletTx, Hand
  <2>2. Contents(in_fifo') \o <<ByteAt(out_fifo, out_fifo.out)>>
          \o Contents(out_fifo') = Line(<<>>)
    <3>1. /\ ~kfifo_is_empty(out_fifo) /\ out_fifo' = AdvanceOut(out_fifo, 1)
          /\ UNCHANGED in_fifo /\ <<>> \in Seq(Byte)
      BY <1>3 DEF TaskletTx
    <3>2. Contents(in_fifo') \o (<<>> \o <<ByteAt(out_fifo, out_fifo.out)>>)
            \o Contents(out_fifo') = Line(<<>>)
      BY <1>t, <3>1, TakeLine
    <3>3. \A b : <<>> \o <<b>> = <<b>>
      <4> TAKE b
      <4>1. <<b>> \in Seq({b})
        OBVIOUS
      <4> QED
        BY <4>1, ConcatEmptySeq
    <3> QED
      BY <3>2, <3>3
  <2>3. Line(Hand)' = Line(Hand) /\ received' = received
    BY <1>3, <2>1, <2>2 DEF Line, TaskletTx, history
  <2> QED
    BY <1>0, <2>3 DEF ChannelStep
<1>4. CASE TaskletRx \/ TaskletRxDrop
  <2>1. /\ Hand = <<port.data>> /\ Hand' = <<>>
        /\ port.data \in Byte /\ UNCHANGED <<out_fifo, received>>
        /\ IF kfifo_is_full(in_fifo) THEN UNCHANGED in_fifo
                                     ELSE in_fifo' = Push(in_fifo, port.data)
    BY <1>4, <1>t DEF TaskletRx, TaskletRxDrop, Hand, queues, history
  <2>2. ChannelStep(Line(<<port.data>>),
                    Contents(in_fifo') \o <<>> \o Contents(out_fifo'),
                    received, received', {FifoSize})
    <3>1. <<port.data>> \o <<>> = <<port.data>> /\ <<>> \in Seq(Byte)
      BY <2>1
    <3>2. ChannelStep(Line(<<port.data>> \o <<>>),
                      Contents(in_fifo') \o <<>> \o Contents(out_fifo'),
                      received, received', {FifoSize})
      BY <1>t, <2>1, <3>1, StoreLine
    <3> QED
      BY <3>1, <3>2
  <2>3. Line(Hand)' = Contents(in_fifo') \o <<>> \o Contents(out_fifo')
    BY <2>1 DEF Line
  <2> QED
    BY <1>0, <2>1, <2>2, <2>3
<1>5. CASE TaskletStart \/ TaskletTxEnd \/ TaskletEnd
  BY <1>5, <1>q, <1>t DEF TaskletStart, TaskletTxEnd, TaskletEnd, queues,
                          history, Hand, PortInv
<1>6. CASE TaskletPut \/ TaskletRxDone
  BY <1>6, <1>q, <1>t DEF TaskletPut, TaskletRxDone, queues, history, Hand
<1>7. CASE UNCHANGED vars
  BY <1>7, <1>q DEF vars, dvars, bh, queues, history, Hand
<1> QED
  BY <1>1, <1>2, <1>3, <1>4, <1>5, <1>6, <1>7 DEF Next, Tasklet

\* misc_loop_drv.c implements the loopback channel for any number of processes
\* and CPUs, any queue size and all data: bytes come back in the order in which
\* write(2) accepted them, and a byte is lost only when in_fifo is full.
THEOREM ChannelImplemented == Spec => ImplementsChannel
<1>1. Init => Channel!CInit
  <2> SUFFICES ASSUME Init
               PROVE  InTransit = <<>> /\ received = <<>>
    BY DEF Channel!CInit
  <2>1. /\ DeviceTypeOK /\ in_fifo.in - in_fifo.out = 0
        /\ out_fifo.in - out_fifo.out = 0
    BY InitIInv DEF Init, DeviceInit, INIT_KFIFO, IInv, TypeOK
  <2>2. Contents(in_fifo) = <<>> /\ Contents(out_fifo) = <<>>
    BY <2>1, LineTypes
  <2> QED
    BY <2>2, ConcatEmptySeq DEF Init, DeviceInit, InTransit
<1>2. IInv /\ [Next]_vars => [Channel!CNext]_(Channel!cvars)
  BY ChannelSimulation, ChannelNext
<1> QED
  BY <1>1, <1>2, Invariance, PTL DEF Spec, ImplementsChannel, Channel!CSpec
=============================================================================
