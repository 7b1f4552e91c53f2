-------------------------------- MODULE Ldt --------------------------------
(***************************************************************************)
(* The data path of ldt/ldt.c, a character device on a UART.               *)
(*                                                                         *)
(*   write(2) -> out_fifo -> tasklet -> UART -> tasklet -> in_fifo         *)
(*            -> read(2)                                                   *)
(*                                                                         *)
(* The driver has two switches.  Uart: uart_probe found a UART; without    *)
(* one the driver emulates the port.  Loopback: the module parameter, the  *)
(* UART (or the emulation) sends the bytes back.  With Uart and without    *)
(* Loopback the line is taken to end in a loopback plug, which is what the *)
(* script ldt-test looks for before it loads the module.                   *)
(*                                                                         *)
(* Concurrent parties: the processes inside read, write and poll (module   *)
(* FifoDevice), the tasklet, the interrupt handler, the timer and the      *)
(* UART.  The UART is external: a transmit holding register and a receive  *)
(* queue of RxDepth bytes, and an interrupt after a character has moved    *)
(* from one to the other, which is not fired in loopback mode.             *)
(***************************************************************************)
EXTENDS FifoDevice

CONSTANTS Uart,       \* drvdata->uart_detected
          Loopback,   \* module parameter loopback
          RxDepth     \* characters the UART keeps until they are read

ASSUME LdtAssumption ==
  /\ Uart \in BOOLEAN /\ Loopback \in BOOLEAN
  /\ RxDepth \in Nat \ {0}

VARIABLES
  tpc, data_out,      \* where the tasklet is; its local variable
  thr, rx,            \* UART: holding register (a sequence of at most one
                      \* character), receive queue.  A character is a record
                      \* of the byte and its number in the order of acceptance
  irq,                \* the interrupt of the UART is pending
  armed               \* ldt_timer is pending

uart   == <<thr, rx>>
events == <<irq, armed>>
bh     == <<tpc, data_out, uart, events>>
vars == <<dvars, bh>>

Init ==
  /\ DeviceInit
  /\ tpc = "idle" /\ data_out = Zero
  /\ thr = <<>> /\ rx = <<>>
  /\ irq = FALSE /\ armed = TRUE

tx_ready == thr = <<>>
rx_ready == rx # <<>>

----------------------------------------------------------------------------
(* Interrupt handler, timer, UART *)

\* Mutated form: the interrupt is acknowledged and the tasklet not scheduled.
Isr_NoSchedule ==
  /\ irq
  /\ irq' = FALSE
  /\ UNCHANGED <<dvars, tpc, data_out, uart, armed>>

\* ldt_isr
Isr ==
  /\ irq
  /\ irq' = FALSE
  /\ sched' = TRUE
  /\ UNCHANGED <<queues, user, waiting, locks, history, tpc, data_out, uart, armed>>

\* Mutated form: the test of the module parameter is inverted.
Timer_Inverted ==
  /\ armed /\ armed' = TRUE
  /\ sched' = (sched \/ ~Loopback)
  /\ UNCHANGED <<queues, user, waiting, locks, history, tpc, data_out, uart, irq>>

\* Mutated form: mod_timer is missing.
Timer_NotRearmed ==
  /\ armed /\ armed' = FALSE
  /\ sched' = (sched \/ Loopback)
  /\ UNCHANGED <<queues, user, waiting, locks, history, tpc, data_out, uart, irq>>

\* ldt_timer expires: ldt_timer_func schedules the tasklet in loopback mode, and
\* arms the timer again in any mode.
Timer ==
  /\ armed /\ armed' = TRUE
  /\ sched' = (sched \/ Loopback)
  /\ UNCHANGED <<queues, user, waiting, locks, history, tpc, data_out, uart, irq>>

\* The UART sends the character and receives it again; a character that finds
\* the receive queue full is lost.
UartShift ==
  /\ ~tx_ready
  /\ thr' = <<>>
  /\ rx' = IF Len(rx) < RxDepth THEN rx \o thr ELSE rx
  /\ irq' = (irq \/ ~Loopback)
  /\ UNCHANGED <<dvars, tpc, data_out, armed>>

----------------------------------------------------------------------------
(* ldt_tasklet_func *)

\* The softirq takes the tasklet: it clears SCHED before the function runs.
TaskletStart ==
  /\ sched /\ tpc = "idle"
  /\ sched' = FALSE
  /\ tpc' = "tx"
  /\ UNCHANGED <<queues, user, waiting, locks, history, data_out, uart, events>>

\* Mutated form: tx_ready is not tested.
TaskletTx_NoReadyTest ==
  /\ tpc = "tx"
  /\ ~kfifo_is_empty(out_fifo)
  /\ data_out' = ByteAt(out_fifo, out_fifo.out)
  /\ out_fifo' = AdvanceOut(out_fifo, 1)
  /\ tpc' = "send"
  /\ UNCHANGED <<in_fifo, user, waiting, locks, sched, history, uart, events>>

\* The condition of the transmit loop holds: the UART, if there is one, takes
\* a character, and a byte is taken from out_fifo.
TaskletTx ==
  /\ tpc = "tx"
  /\ Uart => tx_ready
  /\ ~kfifo_is_empty(out_fifo)
  /\ data_out' = ByteAt(out_fifo, out_fifo.out)
  /\ out_fifo' = AdvanceOut(out_fifo, 1)
  /\ tpc' = "send"
  /\ UNCHANGED <<in_fifo, user, waiting, locks, sched, history, uart, events>>

\* It does not hold: on to the receive loop, which the emulation lacks.
TaskletTxEnd ==
  /\ tpc = "tx"
  /\ (Uart /\ ~tx_ready) \/ kfifo_is_empty(out_fifo)
  /\ tpc' = IF Uart THEN "rx" ELSE "idle"
  /\ UNCHANGED <<dvars, data_out, uart, events>>

\* Mutated form: the wake-up of the writers is forgotten.
TaskletSend_NoWake ==
  /\ tpc = "send"
  /\ thr' = IF Uart THEN <<[data |-> data_out, num |-> out_fifo.out]>> ELSE thr
  /\ tpc' = IF ~Uart /\ Loopback THEN "recv" ELSE "tx"
  /\ UNCHANGED <<queues, user, waiting, locks, sched, history, data_out, rx,
                 events>>

\* Body of the transmit loop: wake up writeable, then ldt_send, which writes
\* to the UART, or goes on to ldt_received, or discards the byte.
TaskletSend ==
  /\ tpc = "send"
  /\ WakeWriteable
  /\ thr' = IF Uart THEN <<[data |-> data_out, num |-> out_fifo.out]>> ELSE thr
  /\ tpc' = IF ~Uart /\ Loopback THEN "recv" ELSE "tx"
  /\ UNCHANGED <<queues, user, locks, sched, history, data_out, rx, events>>

\* Mutated form: one slot of the ring stays unused.
Store_OneSlotFree(c) ==
  IF kfifo_len(in_fifo) >= FifoSize - 1
    THEN UNCHANGED <<in_fifo, kept>>
    ELSE /\ in_fifo' = Push(in_fifo, c.data)
         /\ kept' = Append(kept, c.num)

\* First half of ldt_received: kfifo_in stores nothing when the queue is full,
\* and nobody looks at its result.
Store(c) ==
  IF kfifo_is_full(in_fifo)
    THEN UNCHANGED <<in_fifo, kept>>
    ELSE /\ in_fifo' = Push(in_fifo, c.data)
         /\ kept' = Append(kept, c.num)

\* ldt_received called from ldt_send, by the emulation ...
TaskletEcho ==
  /\ tpc = "recv"
  /\ Store([data |-> data_out, num |-> out_fifo.out])
  /\ tpc' = "wake"
  /\ UNCHANGED <<out_fifo, user, waiting, locks, sched, accepted, received,
                 data_out, uart, events>>

\* Mutated form: the character is looked at and left in the UART.
TaskletRx_NoConsume ==
  /\ tpc = "rx" /\ rx_ready
  /\ Store(Head(rx))
  /\ tpc' = "wake"
  /\ UNCHANGED <<out_fifo, user, waiting, locks, sched, accepted, received,
                 data_out, uart, events>>

\* ... and from the receive loop, which reads a character from the UART.
TaskletRx ==
  /\ tpc = "rx" /\ rx_ready
  /\ rx' = Tail(rx)
  /\ Store(Head(rx))
  /\ tpc' = "wake"
  /\ UNCHANGED <<out_fifo, user, waiting, locks, sched, accepted, received,
                 data_out, thr, events>>

\* Mutated form: the byte is stored and nobody is woken.
TaskletWake_Forgotten ==
  /\ tpc = "wake"
  /\ tpc' = IF Uart THEN "rx" ELSE "tx"
  /\ UNCHANGED <<dvars, data_out, uart, events>>

\* Second half of ldt_received: wake up readable; back to the loop.
TaskletWake ==
  /\ tpc = "wake"
  /\ WakeReadable
  /\ tpc' = IF Uart THEN "rx" ELSE "tx"
  /\ UNCHANGED <<queues, user, locks, sched, history, data_out, uart, events>>

\* The receive loop finds nothing: the tasklet function returns.
TaskletEnd ==
  /\ tpc = "rx" /\ ~rx_ready
  /\ tpc' = "idle"
  /\ UNCHANGED <<dvars, data_out, uart, events>>

----------------------------------------------------------------------------
Tasklet ==
  \/ TaskletStart \/ TaskletTx \/ TaskletTxEnd \/ TaskletSend \/ TaskletEcho
  \/ TaskletRx \/ TaskletWake \/ TaskletEnd

Next ==
  \/ UserNext /\ UNCHANGED bh
  \/ Isr \/ Timer \/ UartShift
  \/ Tasklet

Spec == Init /\ [][Next]_vars

\* A process inside a call runs until it blocks; softirqs, interrupts and the
\* timer are eventually served, and the UART sends.  Nobody has to begin a
\* call or send a signal.  A kernel mutex hands over in the order of arrival,
\* whence strong fairness.
Fairness ==
  /\ \A p \in Procs : WF_vars(Wait(p) /\ UNCHANGED bh)
  /\ \A r \in Readers :
       /\ SF_vars(ReadLock(r) /\ UNCHANGED bh)
       /\ WF_vars((ReadCopy(r) \/ ReadCommit(r)) /\ UNCHANGED bh)
  /\ \A w \in Writers :
       /\ SF_vars(WriteLock(w) /\ UNCHANGED bh)
       /\ WF_vars(/\ WriteCopy(w) \/ WriteCommit(w) \/ WriteKick(w)
                  /\ UNCHANGED bh)
  /\ WF_vars(Isr) /\ WF_vars(Timer) /\ WF_vars(UartShift) /\ WF_vars(Tasklet)

FairSpec == Spec /\ Fairness

----------------------------------------------------------------------------
(* What must hold, besides FaithfulLoop, NoStaleWaiter, Transmitted,        *)
(* SleepersWake and WritesReturn of FifoDevice                              *)

Char == [data : Byte, num : Nat]

\* Every variable has its type; the queues hold at most FifoSize bytes and the
\* UART never more characters than it has room for.
TypeOK ==
  /\ DeviceTypeOK
  /\ tpc \in {"idle", "tx", "send", "recv", "wake", "rx"}
  /\ data_out \in Byte
  /\ thr \in Seq(Char) /\ Len(thr) <= 1
  /\ rx \in Seq(Char) /\ Len(rx) <= RxDepth
  /\ irq \in BOOLEAN /\ armed \in BOOLEAN

\* A process sleeps in ldt_read, ldt_write or poll although what it waits for
\* is there only in the window between the tasklet's queue operation and the
\* wake-up that follows it.
NoLostWakeup ==
  \A p \in waiting : pc[p] = "sleep" /\ Ready(p) =>
                       tpc = (IF p \in Writers THEN "send" ELSE "wake")

\* Outside loopback mode, where no timer helps, neither bytes in out_fifo nor
\* characters in the UART are ever forgotten: the tasklet will still look at
\* them in this run, or is scheduled, or somebody who will schedule it (the
\* interrupt, the UART while it sends, the writer) is on the way.
NoStall ==
  LET Summoned == sched \/ irq \/ ~tx_ready
  IN ~Loopback =>
       /\ ~kfifo_is_empty(out_fifo) =>
            \/ Summoned \/ tpc \in {"tx", "send", "recv"}
            \/ ~Uart /\ tpc = "wake"
            \/ \E w \in Writers : pc[w] = "kick"
       /\ rx_ready => Summoned \/ tpc # "idle"

\* A character in the holding register stays there until the UART has sent it:
\* the tasklet, which may have tested tx_ready long before, does not overwrite
\* it.
NoTransmitOverrun == [][~tx_ready => thr' \in {thr, <<>>}]_vars

\* Characters do not stay in the UART, although nothing but the timer makes
\* the driver look in loopback mode.
Drained == rx_ready ~> ~rx_ready

\* The bytes on their way: in in_fifo, in the UART, with the tasklet, in
\* out_fifo.
InTransit ==
  Contents(in_fifo)
    \o [i \in 1 .. Len(rx \o thr) |-> (rx \o thr)[i].data]
    \o (IF tpc \in {"send", "recv"} THEN <<data_out>> ELSE <<>>)
    \o Contents(out_fifo)

\* Where a byte is lost: before in_fifo when that is full, and with a UART
\* before its receive queue when that is full, whatever in_fifo holds.
LossPoints ==
  {FifoSize} \cup (IF Uart THEN RxDepth .. (FifoSize + RxDepth) ELSE {})

Channel == INSTANCE LoopChannel
             WITH Data <- Byte, Capacity <- FifoSize,
                  channel <- InTransit, delivered <- received

\* With a UART and in emulation with loopback the driver is a loopback channel
\* in the sense of module LoopChannel: it keeps the order, across the two loops
\* of the tasklet and the UART between them, and loses a byte only where a
\* queue is full.  (Without both, ldt_send discards every byte.)
ImplementsChannel == Channel!CSpec
=============================================================================
