------------------------------ MODULE MiscLoop ------------------------------
(***************************************************************************)
(* The data path of ldt/misc_loop_drv.c, a character device on an emulated *)
(* loopback port.                                                          *)
(*                                                                         *)
(*   write(2) -> out_fifo -> tasklet -> port register -> tasklet           *)
(*            -> in_fifo -> read(2)                                        *)
(*                                                                         *)
(* Concurrent parties: the processes inside read, write and poll (module   *)
(* FifoDevice), the tasklet, and the interrupt handler, which runs on      *)
(* every CPU that got the inter-processor interrupt the tasklet sends.     *)
(* The port registers are touched by the tasklet only, and the kernel      *)
(* never runs a tasklet on two CPUs at once.                               *)
(***************************************************************************)
EXTENDS FifoDevice

CONSTANT Cpus       \* CPUs that receive the inter-processor interrupt

ASSUME MiscLoopAssumption == Cpus # {}

VARIABLES
  port,             \* port_emulation: data register and full/ready flag
  tpc, data_out,    \* where the tasklet is; its local variable
  irq               \* CPUs with the interrupt pending

bh   == <<port, tpc, data_out, irq>>
vars == <<dvars, bh>>

Init ==
  /\ DeviceInit
  /\ port = [data |-> Zero, full |-> FALSE]
  /\ tpc = "idle" /\ data_out = Zero
  /\ irq = {}

----------------------------------------------------------------------------
(* Interrupt handler and tasklet *)

\* misc_loop_drv_isr on CPU c.
Isr(c) ==
  /\ c \in irq
  /\ irq' = irq \ {c}
  /\ sched' = TRUE
  /\ UNCHANGED <<queues, user, waiting, locks, tpc, data_out, port, history>>

\* The softirq takes the tasklet: it clears SCHED before the function runs.
TaskletStart ==
  /\ sched /\ tpc = "idle"
  /\ sched' = FALSE
  /\ tpc' = "tx"
  /\ UNCHANGED <<queues, user, waiting, locks, data_out, irq, port, history>>

\* Mutated form: TX_FULL is not tested.
TaskletTx_NoFullTest ==
  /\ tpc = "tx"
  /\ ~kfifo_is_empty(out_fifo)
  /\ data_out' = ByteAt(out_fifo, out_fifo.out)
  /\ out_fifo' = AdvanceOut(out_fifo, 1)
  /\ tpc' = "put"
  /\ UNCHANGED <<in_fifo, user, waiting, locks, sched, irq, port, history>>

\* The condition of the transmit loop holds: TX_FULL clear and a byte taken
\* from out_fifo.
TaskletTx ==
  /\ tpc = "tx"
  /\ ~port.full /\ ~kfifo_is_empty(out_fifo)
  /\ data_out' = ByteAt(out_fifo, out_fifo.out)
  /\ out_fifo' = AdvanceOut(out_fifo, 1)
  /\ tpc' = "put"
  /\ UNCHANGED <<in_fifo, user, waiting, locks, sched, irq, port, history>>

TaskletTxEnd ==
  /\ tpc = "tx"
  /\ port.full \/ kfifo_is_empty(out_fifo)
  /\ tpc' = "rx"
  /\ UNCHANGED <<queues, user, waiting, locks, sched, data_out, irq, port,
                 history>>

\* Mutated form: no interrupt is raised.
TaskletPut_NoIPI ==
  /\ tpc = "put"
  /\ WakeWriteable
  /\ port' = [data |-> data_out, full |-> TRUE]
  /\ tpc' = "tx"
  /\ UNCHANGED <<queues, user, locks, sched, data_out, irq, history>>

\* Mutated form: the writers are not woken.
TaskletPut_NoWake ==
  /\ tpc = "put"
  /\ port' = [data |-> data_out, full |-> TRUE]
  /\ irq' = Cpus
  /\ tpc' = "tx"
  /\ UNCHANGED <<queues, user, waiting, locks, sched, data_out, history>>

\* Body of the transmit loop: wake up writeable, write the data register, set
\* the flag, raise the interrupt on every CPU.
TaskletPut ==
  /\ tpc = "put"
  /\ WakeWriteable
  /\ port' = [data |-> data_out, full |-> TRUE]
  /\ irq' = Cpus
  /\ tpc' = "tx"
  /\ UNCHANGED <<queues, user, locks, sched, data_out, history>>

\* The receive loop: RX_READY is set, the byte is read and put into in_fifo.
\* kfifo_in stores nothing when the queue is full (TaskletRxDrop), and nobody
\* looks at its result.
TaskletRx ==
  /\ tpc = "rx" /\ port.full
  /\ ~kfifo_is_full(in_fifo)
  /\ in_fifo' = Push(in_fifo, port.data)
  /\ kept' = Append(kept, out_fifo.out)
  /\ tpc' = "rxdone"
  /\ UNCHANGED <<out_fifo, user, waiting, locks, sched, data_out, irq, port,
                 accepted, received>>

TaskletRxDrop ==
  /\ tpc = "rx" /\ port.full
  /\ kfifo_is_full(in_fifo)
  /\ tpc' = "rxdone"
  /\ UNCHANGED <<queues, user, waiting, locks, sched, data_out, irq, port,
                 history>>

\* Mutated form: the wrong queue is woken.
TaskletRxDone_WrongQueue ==
  /\ tpc = "rxdone"
  /\ WakeWriteable
  /\ port' = [port EXCEPT !.full = FALSE]
  /\ tpc' = "rx"
  /\ UNCHANGED <<queues, user, locks, sched, data_out, irq, history>>

\* Rest of the receive loop: wake up readable, then clear the flag.
TaskletRxDone ==
  /\ tpc = "rxdone"
  /\ WakeReadable
  /\ port' = [port EXCEPT !.full = FALSE]
  /\ tpc' = "rx"
  /\ UNCHANGED <<queues, user, locks, sched, data_out, irq, history>>

\* RX_READY is clear: the tasklet function returns.
TaskletEnd ==
  /\ tpc = "rx" /\ ~port.full
  /\ tpc' = "idle"
  /\ UNCHANGED <<queues, user, waiting, locks, sched, data_out, irq, port,
                 history>>

----------------------------------------------------------------------------
Tasklet ==
  \/ TaskletStart \/ TaskletTx \/ TaskletTxEnd \/ TaskletPut \/ TaskletRx
  \/ TaskletRxDrop \/ TaskletRxDone \/ TaskletEnd

Next ==
  \/ UserNext /\ UNCHANGED bh
  \/ \E c \in Cpus : Isr(c)
  \/ Tasklet

Spec == Init /\ [][Next]_vars

\* A process inside a call runs until it blocks, softirqs and interrupts are
\* eventually served; nobody has to begin a call or send a signal.  A kernel
\* mutex hands over in the order of arrival, whence strong fairness.
Fairness ==
  /\ \A p \in Procs : WF_vars(Wait(p) /\ UNCHANGED bh)
  /\ \A r \in Readers :
       /\ SF_vars(ReadLock(r) /\ UNCHANGED bh)
       /\ WF_vars((ReadCopy(r) \/ ReadCommit(r)) /\ UNCHANGED bh)
  /\ \A w \in Writers :
       /\ SF_vars(WriteLock(w) /\ UNCHANGED bh)
       /\ WF_vars(/\ WriteCopy(w) \/ WriteCommit(w) \/ WriteKick(w)
                  /\ UNCHANGED bh)
  /\ \A c \in Cpus : WF_vars(Isr(c))
  /\ WF_vars(Tasklet)

FairSpec == Spec /\ Fairness

----------------------------------------------------------------------------
(* What must hold.  The liveness properties Transmitted, SleepersWake and    *)
(* WritesReturn are stated in FifoDevice: here they say that the chain       *)
(* write, tasklet, interrupt, tasklet never breaks although a run of the     *)
(* tasklet sends only one byte.                                              *)

\* Every variable has its type, and the queues hold at most FifoSize bytes.
TypeOK ==
  /\ DeviceTypeOK
  /\ port \in [data : Byte, full : BOOLEAN]
  /\ tpc \in {"idle", "tx", "put", "rx", "rxdone"}
  /\ data_out \in Byte
  /\ irq \subseteq Cpus

\* A process sleeps in read, write or poll although what it waits for is there
\* only in the window between the tasklet's queue operation and the wake-up
\* that follows it.
NoLostWakeup ==
  \A p \in waiting : pc[p] = "sleep" /\ Ready(p) =>
                       tpc = (IF p \in Writers THEN "put" ELSE "rxdone")

\* Bytes never wait in out_fifo with nobody left to send them: the tasklet is
\* still in its transmit loop, or is scheduled, or an interrupt that will
\* schedule it is pending, or the writer of the bytes is about to.
NoStall ==
  ~kfifo_is_empty(out_fifo) =>
    \/ tpc \in {"tx", "put"}
    \/ sched
    \/ irq # {}
    \/ \E w \in Writers : pc[w] = "kick"

\* The bytes on their way: in in_fifo, with the tasklet or in the port
\* register, in out_fifo.
InTransit ==
  Contents(in_fifo)
    \o (IF tpc = "put" THEN <<data_out>>
        ELSE IF port.full /\ tpc # "rxdone" THEN <<port.data>> ELSE <<>>)
    \o Contents(out_fifo)

Channel == INSTANCE LoopChannel
             WITH Data <- Byte, Capacity <- FifoSize, LossPoints <- {FifoSize},
                  channel <- InTransit, delivered <- received

\* The driver is a loopback channel in the sense of module LoopChannel: it
\* keeps the order, and loses a byte only when FifoSize bytes before it are
\* unread.
ImplementsChannel == Channel!CSpec
=============================================================================
