----------------------------- MODULE FifoDevice -----------------------------
(***************************************************************************)
(* The process side of the character devices of ldt/: read, write and poll *)
(* on two kfifos, as misc_loop_drv.c and ldt.c have it (the two files      *)
(* contain the same code).  What moves the bytes from out_fifo to in_fifo, *)
(* a tasklet, is the business of the modules that extend this one:         *)
(* MiscLoop and Ldt.                                                       *)
(*                                                                         *)
(* The actions of this module constrain its own variables only.  One       *)
(* action is one piece of code between two points where another party can  *)
(* see a difference.                                                       *)
(***************************************************************************)
EXTENDS Kfifo

CONSTANTS Readers,        \* processes that call read
          Writers,        \* processes that call write
          Pollers,        \* processes that call poll and wait for POLLIN
          Interruptible,  \* processes that may get a signal
          NoProc,         \* owner of a free mutex
          MaxCount,       \* bound: largest count passed to read or write
          MaxBytes        \* bound: no write is begun beyond this many bytes

Procs == Readers \cup Writers \cup Pollers

ASSUME FifoDeviceAssumption ==
  /\ Readers \cap Writers = {}
  /\ Readers \cap Pollers = {}
  /\ Writers \cap Pollers = {}
  /\ Interruptible \subseteq Procs
  /\ NoProc \notin Procs
  /\ MaxCount \in Nat \ {0}
  /\ MaxBytes \in Nat

VARIABLES
  in_fifo, out_fifo,        \* the two queues of drvdata
  waiting,                  \* processes on a wait queue and not yet woken:
                            \* readers on readable, writers on writeable,
                            \* pollers on both
  read_lock, write_lock,    \* owners of the two mutexes
  sched,                    \* the tasklet is scheduled (TASKLET_STATE_SCHED)
  pc, count, buf, ret,      \* per process: place, argument, bytes copied,
                            \* result of the copy
  signalled,                \* processes with a pending signal
  accepted, kept, received  \* history: bytes accepted by writes; which of
                            \* them (by number, from 1) were stored in
                            \* in_fifo; bytes handed to readers

queues == <<in_fifo, out_fifo>>
user   == <<pc, count, buf, ret, signalled>>
locks  == <<read_lock, write_lock>>
history == <<accepted, kept, received>>
dvars == <<queues, user, waiting, locks, sched, history>>

EFAULT == -14

DeviceInit ==
  /\ in_fifo = INIT_KFIFO
  /\ out_fifo = INIT_KFIFO
  /\ waiting = {}
  /\ read_lock = NoProc /\ write_lock = NoProc
  /\ sched = FALSE
  /\ pc = [p \in Procs |-> "idle"]
  /\ count = [p \in Procs |-> 0]
  /\ buf = [p \in Procs |-> <<>>]
  /\ ret = [p \in Procs |-> 0]
  /\ signalled = {}
  /\ accepted = <<>> /\ kept = <<>> /\ received = <<>>

Goto(p, label) ==
  /\ pc' = [pc EXCEPT ![p] = label]
  /\ UNCHANGED <<count, buf, ret, signalled>>

\* The call returns to user space, where pending signals are delivered.
Return(p) ==
  /\ pc' = [pc EXCEPT ![p] = "idle"]
  /\ count' = [count EXCEPT ![p] = 0]
  /\ buf' = [buf EXCEPT ![p] = <<>>]
  /\ ret' = [ret EXCEPT ![p] = 0]
  /\ signalled' = signalled \ {p}

----------------------------------------------------------------------------
(* The part read, write and poll have in common: wait for the condition.    *)

\* What the process waits for: room in out_fifo, or bytes in in_fifo.
Ready(p) ==
  IF p \in Writers THEN ~kfifo_is_full(out_fifo)
                   ELSE ~kfifo_is_empty(in_fifo)

\* Mutated form: the condition is not tested before the mutex is taken.
Enter_Untested(p) ==
  /\ pc[p] = "idle"
  /\ \E n \in 1 .. MaxCount :
       /\ p \in Writers => Len(accepted) + n <= MaxBytes
       /\ count' = [count EXCEPT ![p] = n]
  /\ pc' = [pc EXCEPT ![p] = "lock"]
  /\ UNCHANGED <<queues, buf, ret, signalled, waiting, locks, sched, history>>

\* read or write of n bytes begins.  With O_NONBLOCK and the condition false
\* it returns -EAGAIN, which changes nothing; with the condition true
\* O_NONBLOCK makes no difference.
Enter(p) ==
  /\ pc[p] = "idle"
  /\ \E n \in 1 .. MaxCount :
       /\ p \in Writers => Len(accepted) + n <= MaxBytes
       /\ count' = [count EXCEPT ![p] = n]
  /\ pc' = [pc EXCEPT ![p] = IF Ready(p) THEN "lock" ELSE "wait"]
  /\ UNCHANGED <<queues, buf, ret, signalled, waiting, locks, sched, history>>

\* poll for POLLIN begins.  POLLOUT is reported unconditionally: a process
\* that asks for it never sleeps, and is not modelled.
PollEnter(p) ==
  /\ pc[p] = "idle"
  /\ Goto(p, "wait")
  /\ UNCHANGED <<queues, waiting, locks, sched, history>>

\* Mutated form: the condition is not looked at again after joining the queue.
WaitPrepare_NoRecheck(p) ==
  /\ pc[p] = "wait"
  /\ waiting' = waiting \cup {p}
  /\ Goto(p, "sleep")
  /\ UNCHANGED <<queues, locks, sched, history>>

\* wait_event_interruptible (poll_wait): join the queue ...
WaitPrepare(p) ==
  /\ pc[p] = "wait"
  /\ waiting' = waiting \cup {p}
  /\ Goto(p, "check")
  /\ UNCHANGED <<queues, locks, sched, history>>

\* ... and look at the condition.  It holds: leave the queue.
WaitDone(p) ==
  /\ pc[p] = "check"
  /\ Ready(p)
  /\ waiting' = waiting \ {p}
  /\ IF p \in Pollers THEN Return(p) ELSE Goto(p, "lock")
  /\ UNCHANGED <<queues, locks, sched, history>>

\* Mutated form: the interrupted process stays on the queue.
WaitIntr_NoFinish(p) ==
  /\ pc[p] = "check"
  /\ ~Ready(p) /\ p \in signalled
  /\ Return(p)
  /\ UNCHANGED <<queues, waiting, locks, sched, history>>

\* It does not hold and a signal is pending: leave the queue, -EINTR.
WaitIntr(p) ==
  /\ pc[p] = "check"
  /\ ~Ready(p) /\ p \in signalled
  /\ waiting' = waiting \ {p}
  /\ Return(p)
  /\ UNCHANGED <<queues, locks, sched, history>>

\* Otherwise schedule().
WaitSleep(p) ==
  /\ pc[p] = "check"
  /\ ~Ready(p) /\ p \notin signalled
  /\ Goto(p, "sleep")
  /\ UNCHANGED <<queues, waiting, locks, sched, history>>

\* schedule() returns once the process was woken or signalled; loop.
WaitWoken(p) ==
  /\ pc[p] = "sleep"
  /\ p \notin waiting \/ p \in signalled
  /\ Goto(p, "wait")
  /\ UNCHANGED <<queues, waiting, locks, sched, history>>

\* A signal reaches a process inside a call, at a place where it matters.
Signal(p) ==
  /\ pc[p] \in {"wait", "check", "sleep", "lock"}
  /\ p \notin signalled
  /\ signalled' = signalled \cup {p}
  /\ UNCHANGED <<queues, pc, count, buf, ret, waiting, locks, sched, history>>

----------------------------------------------------------------------------
(* read(2), once in_fifo was seen not empty *)

\* Mutated form: the mutex does not exclude.
ReadLock_Shared(r) ==
  /\ pc[r] = "lock"
  /\ read_lock' = r
  /\ Goto(r, "copy")
  /\ UNCHANGED <<queues, waiting, write_lock, sched, history>>

\* mutex_lock_interruptible(&drvdata->read_lock)
ReadLock(r) ==
  /\ pc[r] = "lock"
  /\ read_lock = NoProc
  /\ read_lock' = r
  /\ Goto(r, "copy")
  /\ UNCHANGED <<queues, waiting, write_lock, sched, history>>

ReadLockIntr(r) ==
  /\ pc[r] = "lock"
  /\ read_lock # NoProc /\ r \in signalled
  /\ Return(r)
  /\ UNCHANGED <<queues, waiting, locks, sched, history>>

\* kfifo_to_user, first step: of the l bytes asked for and present, c reach
\* the user buffer; fewer than l when the buffer faults.
ReadCopy(r) ==
  /\ pc[r] = "copy"
  /\ LET l == AtMost(count[r], kfifo_len(in_fifo)) IN
       \E c \in 0 .. l :
         /\ buf' = [buf EXCEPT ![r] = Peek(in_fifo, c)]
         /\ ret' = [ret EXCEPT ![r] = IF c < l THEN EFAULT ELSE c]
  /\ pc' = [pc EXCEPT ![r] = "commit"]
  /\ UNCHANGED <<queues, count, signalled, waiting, locks, sched, history>>

\* kfifo_to_user, second step, mutex_unlock and return.
ReadCommit(r) ==
  /\ pc[r] = "commit"
  /\ in_fifo' = AdvanceOut(in_fifo, Len(buf[r]))
  /\ received' = received \o buf[r]
  /\ read_lock' = NoProc
  /\ Return(r)
  /\ UNCHANGED <<out_fifo, waiting, write_lock, sched, accepted, kept>>

----------------------------------------------------------------------------
(* write(2), once out_fifo was seen not full *)

\* Mutated form: the mutex does not exclude.
WriteLock_Shared(w) ==
  /\ pc[w] = "lock"
  /\ write_lock' = w
  /\ Goto(w, "copy")
  /\ UNCHANGED <<queues, waiting, read_lock, sched, history>>

\* mutex_lock_interruptible(&drvdata->write_lock)
WriteLock(w) ==
  /\ pc[w] = "lock"
  /\ write_lock = NoProc
  /\ write_lock' = w
  /\ Goto(w, "copy")
  /\ UNCHANGED <<queues, waiting, read_lock, sched, history>>

WriteLockIntr(w) ==
  /\ pc[w] = "lock"
  /\ write_lock # NoProc /\ w \in signalled
  /\ Return(w)
  /\ UNCHANGED <<queues, waiting, locks, sched, history>>

\* kfifo_from_user, first step: of the l bytes offered that fit, c arrive in
\* the ring; fewer than l when the user buffer faults.
WriteCopy(w) ==
  /\ pc[w] = "copy"
  /\ LET l == AtMost(count[w], kfifo_avail(out_fifo)) IN
       \E c \in 0 .. l : \E data \in [1 .. c -> Byte] :
         /\ out_fifo' = CopyIn(out_fifo, data)
         /\ buf' = [buf EXCEPT ![w] = data]
         /\ ret' = [ret EXCEPT ![w] = IF c < l THEN EFAULT ELSE c]
  /\ pc' = [pc EXCEPT ![w] = "commit"]
  /\ UNCHANGED <<in_fifo, count, signalled, waiting, locks, sched, history>>

\* kfifo_from_user, second step, and mutex_unlock.
WriteCommit(w) ==
  /\ pc[w] = "commit"
  /\ out_fifo' = AdvanceIn(out_fifo, Len(buf[w]))
  /\ accepted' = accepted \o buf[w]
  /\ write_lock' = NoProc
  /\ Goto(w, "kick")
  /\ UNCHANGED <<in_fifo, waiting, read_lock, sched, kept, received>>

\* tasklet_schedule and return.
WriteKick(w) ==
  /\ pc[w] = "kick"
  /\ sched' = TRUE
  /\ Return(w)
  /\ UNCHANGED <<queues, waiting, locks, history>>

----------------------------------------------------------------------------
Wait(p) ==
  \/ WaitPrepare(p) \/ WaitDone(p) \/ WaitIntr(p) \/ WaitSleep(p)
  \/ WaitWoken(p)

Read(r) ==
  \/ Enter(r) \/ ReadLock(r) \/ ReadLockIntr(r) \/ ReadCopy(r)
  \/ ReadCommit(r)

Write(w) ==
  \/ Enter(w) \/ WriteLock(w) \/ WriteLockIntr(w) \/ WriteCopy(w)
  \/ WriteCommit(w) \/ WriteKick(w)

\* A step of some process, or a signal for one.
UserNext ==
  \/ \E p \in Procs : Wait(p)
  \/ \E r \in Readers : Read(r)
  \/ \E w \in Writers : Write(w)
  \/ \E p \in Pollers : PollEnter(p)
  \/ \E p \in Interruptible : Signal(p)

\* wake_up_interruptible on the two wait queues.
WakeReadable  == waiting' = waiting \ (Readers \cup Pollers)
WakeWriteable == waiting' = waiting \ (Writers \cup Pollers)

----------------------------------------------------------------------------
(* What must hold *)

Labels == {"idle", "wait", "check", "sleep", "lock", "copy", "commit", "kick"}

\* The variables of the process side have their types, and the queues hold at
\* most FifoSize bytes.
DeviceTypeOK ==
  /\ in_fifo \in Kfifo /\ kfifo_len(in_fifo) \in 0 .. FifoSize
  /\ out_fifo \in Kfifo /\ kfifo_len(out_fifo) \in 0 .. FifoSize
  /\ waiting \subseteq Procs
  /\ read_lock \in Readers \cup {NoProc}
  /\ write_lock \in Writers \cup {NoProc}
  /\ sched \in BOOLEAN
  /\ pc \in [Procs -> Labels]
  /\ count \in [Procs -> Nat]
  /\ buf \in [Procs -> Seq(Byte)]
  /\ ret \in [Procs -> Int]
  /\ signalled \subseteq Procs
  /\ accepted \in Seq(Byte) /\ kept \in Seq(Nat) /\ received \in Seq(Byte)

\* The loopback is faithful: the i-th byte that read(2) ever handed out is the
\* i-th byte the tasklet stored, which is a byte accepted by some write(2);
\* bytes are stored in the order in which they were accepted, none twice.
\* This is what read_lock, write_lock and the single tasklet are for.
FaithfulLoop ==
  /\ Len(received) <= Len(kept)
  /\ \A i \in 1 .. Len(received) : /\ kept[i] \in 1 .. Len(accepted)
                                   /\ received[i] = accepted[kept[i]]
  /\ \A i, j \in 1 .. Len(kept) : i < j => kept[i] < kept[j]

\* Only processes inside a wait are on the wait queues: a call that returns,
\* interrupted or not, leaves no stale entry behind for the tasklet to wake.
NoStaleWaiter == \A p \in waiting : pc[p] \in {"wait", "check", "sleep"}

\* A blocking read that is not interrupted and does not fault returns data
\* (zero would mean end of file).
ReadReturnsData ==
  \A r \in Readers : pc[r] = "commit" => ret[r] # 0

\* A process that has its side of the device to itself is served: the sole
\* reader never gets end of file and the sole writer never has zero bytes
\* accepted, although read_lock and write_lock are taken after the test of the
\* condition, which is not repeated, and the tasklet works on the same queues.
SoleUserServed ==
  /\ (\A r, s \in Readers : r = s) => ReadReturnsData
  /\ (\A v, w \in Writers : v = w) =>
       \A w \in Writers : pc[w] = "commit" => ret[w] # 0

\* A process asleep in read, write or poll does not stay asleep when its
\* condition holds.
SleepersWake ==
  \A p \in Procs : pc[p] = "sleep" /\ Ready(p) ~> pc[p] # "sleep"

\* Every write returns: the device drains by itself, whether or not anybody
\* reads.  The runs check it for a writer without rivals: the wait for room
\* promises nothing to one of several, since another may fill out_fifo again
\* between the wake-up and the test of the condition.
WritesReturn == \A w \in Writers : pc[w] # "idle" ~> pc[w] = "idle"

\* Every byte accepted by a write leaves out_fifo.
Transmitted ==
  \A n \in 1 .. MaxBytes : Len(accepted) >= n ~> out_fifo.out >= n
=============================================================================
