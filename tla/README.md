# A TLA+ verification of the my_driver drivers

`my_driver` is a collection of Linux drivers written for training.  Its own code
that is hard to get right is where processes, interrupt handlers, tasklets and
timers work on shared state: the two character devices under `src/ldt/` (the
Linux Driver Template `ldt.c` and its smaller sibling `misc_loop_drv.c`), the
network interfaces `net/snull`, the RAM disk `015_sbull`, and the buffered write
of the cdata labs.  This directory holds TLA+ models of them, the TLC
configurations that check the models on small instances, and TLAPS proofs for
every number of processes and every queue size.

`PROJECT.json` is the index: components, runs, mutants, the map from definitions
to source lines, findings, hazards and theorems.

## 1. Inventory

### The two drivers under `src/ldt/`

Both implement a loopback: what one process writes another reads.

| part | state | operations |
|---|---|---|
| process side (the same code in both files) | `in_fifo`, `out_fifo` (kfifos of 128 bytes), wait queues `readable` and `writeable`, mutexes `read_lock` and `write_lock` | `read`, `write`, `poll` |
| `misc_loop_drv.c` bottom half | port registers (an array in memory: data register, full/ready flag), tasklet | `misc_loop_drv_tasklet_func`, `misc_loop_drv_isr` |
| `ldt.c` bottom half | UART (16550) or nothing, tasklet, timer | `ldt_tasklet_func`, `ldt_send`, `ldt_received`, `ldt_isr`, `ldt_timer_func` |
| `ldt.c` ioctl and mmap | `in_buf`, `out_buf` (pages), `ioctl_lock` | `ldt_ioctl`, `ldt_mmap` |
| loading and unloading of both | what was allocated and registered | `*_init`, `uart_probe`, `*_cleanup` |

How they interact: `write` puts bytes into `out_fifo` and schedules the tasklet.
The tasklet takes bytes from `out_fifo` while the port accepts them, wakes the
writers, gives the byte to the port, takes what the port has received, stores it
in `in_fifo` and wakes the readers.  The interrupt handler (and in the loopback
mode of `ldt.c` the timer) schedules the tasklet again.  `read` takes bytes from
`in_fifo`.  Processes synchronise among themselves with the mutexes; between a
process and the tasklet there is no lock, only the single-producer and
single-consumer discipline of the kfifo.

What is hard here, and what must be true nevertheless:

* copying to or from user space and advancing the kfifo's counter are two steps;
  only the mutex keeps a second reader (writer) from coming in between: no byte
  is lost, doubled, overwritten or reordered;
* the condition of a blocking call is tested, and then the process sleeps; the
  tasklet's wake-up may come in between: nobody sleeps through the event;
* a signal may end the wait or the attempt to take the mutex at any time: nothing
  is left behind on the wait queues;
* `misc_loop_drv.c` sends one byte per run of the tasklet and relies on an
  interrupt it sends to itself to continue; `ldt.c` relies on the UART's
  interrupt, or, in loopback mode where there is none, on a timer that re-arms
  itself: the chain must never break;
* the queues are bounded, and a byte that meets a full `in_fifo` is silently lost:
  only then may a byte be lost;
* copies to and from user space fail in the middle.

### The rest of the repository

* **cdata labs** (`005_conrr`, `Jollen/ldd-training/lab_*`): `write` fills a
  buffer; when it is full the writer arms a timer (or queues a work item) and
  sleeps until the buffer was flushed.  State: the buffer's index, a wait queue,
  the timer.  Hard: the hand-written sleep against the timer, signals, two threads
  with one file (one of which may keep the other from ever returning), closing the
  file with the timer pending.  Correct when no byte is put behind the buffer, no
  wake-up is lost, writes return and nothing runs on freed memory.
* **`015_sbull`**: RAM disk.  State: contents, number of users, `media_change`,
  timer.  A timer armed by the last `release` declares the medium removed, the next
  `open` revalidates.  Hard: the timer against `open` and unloading; requests in
  three modes, one of them without a lock.  Correct when the contents are cleared
  only while nobody uses the disk, when a block is found where it was meant to be,
  and when requests are answered.
* **`net/snull`**: two network interfaces connected back to back.  State per
  device: a pool of packets, `rx_queue`, an emulated status word, the transmit
  queue.  Hard: a packet moves between lists that share its `next` field, under two
  different locks; the status word has no lock; the watchdog.  Correct when packets
  are neither lost nor used twice, the transmit queue does not stay stopped, and
  packets are delivered.
* **`005_concurr_syscall`**: list of events which processes open, await, signal
  and close, without a lock.
* **`006_poll`, `007_poll_v2`**: a flag set by ioctl and reported by poll.
* **`004_basic_functions`, `016_dkmsTest`**: a byte array with file position.
* **`013_notifier`**: a self-re-arming timer that calls a notifier chain.
* **`014_ramblock`, `011_kthread`, `ldt/kthread_sample.c`, `001`–`003`, `009_*`,
  `ldt_plat_*`**: sequential code or registration with the kernel.
* **Vendored**: a Linux 2.4 tree and a qemu build (`Jollen/jk2410`), Intel's
  e1000, Realtek's RTL8188C, the CP210x driver, single files from the kernel
  under `Jollen/ldd-training`.  Not part of this development.

## 2. Modules

```
Kfifo ── FifoDevice ─┬─ MiscLoop ── MCMiscLoop          LdtIoctl ── MCLdtIoctl
                     └─ Ldt ─────── MCLdt                  │
LoopChannel  (abstract; MiscLoop and Ldt implement it)  Mailbox (abstract)

Lifecycle      Snull ── MCSnull      Sbull      CdataWrite

FifoDeviceProofs ─┬─ MiscLoopProofs    LdtIoctlProofs    LifecycleProofs
                  └─ LdtProofs
SnullProofs    SbullProofs    CdataWriteProofs
```

**Kfifo** (external: the kernel's kfifo as the drivers use it).  A ring of
`FifoSize` slots and two running counters.  The kernel's counters are unsigned
and wrap; the size is a power of two there, so the wrap cannot be observed, and
the model uses naturals.  The two-step transfers keep their two steps.

**FifoDevice**: the process side of both drivers.  One action is one piece of
code between two points where somebody else can see a difference:

| action | code |
|---|---|
| `Enter` | entry of `read`/`write`, test of the condition |
| `WaitPrepare`, `WaitDone`, `WaitIntr`, `WaitSleep`, `WaitWoken` | the loop of `wait_event_interruptible`: join the queue, test again, sleep, wake up, leave |
| `ReadLock`, `ReadLockIntr`, `WriteLock`, `WriteLockIntr` | `mutex_lock_interruptible` |
| `ReadCopy`, `ReadCommit` | `kfifo_to_user`: copy (possibly stopping at a fault), advance `out`; unlock |
| `WriteCopy`, `WriteCommit`, `WriteKick` | `kfifo_from_user`: copy, advance `in`; unlock; `tasklet_schedule` |
| `PollEnter` | `poll` for `POLLIN` |
| `Signal` | the environment sends a signal |

The test made in `Enter` is not repeated once the mutex is held, as in the code.
With `O_NONBLOCK` a call either returns `-EAGAIN`, which changes nothing, or goes
the same way as a blocking one; it needs no action of its own.  The variables
`accepted`, `kept` and `received` are history: what writes accepted, which of it
the tasklet stored, what readers got.

**MiscLoop** adds the tasklet, the interrupt handler per CPU and the port
registers of `misc_loop_drv.c`; **Ldt** adds the tasklet, the interrupt handler,
the timer (`armed`: `ldt_timer_func` fires only if it was started again) and the
UART of `ldt.c`.  `Uart` says whether `uart_probe` found a
UART, `Loopback` is the module parameter.  The UART is external: a holding
register, a receive queue of `RxDepth` characters that overruns, an interrupt
when a character has been sent and received.  In both modules the tasklet's
`SCHED` bit is cleared before its function runs and may be set again while it
runs, and the function never runs twice at the same time: this is what the kernel
guarantees.  Operations of the tasklet that only it can observe are one action.

**LoopChannel** is what the loopback promises to programs: order, no change, no
duplication, and a loss only of a byte with a number of unread bytes before it that is
one of `LossPoints`: for `MiscLoop` and for `ldt.c` in emulation `FifoSize` (a full
`in_fifo`), with a UART also the positions behind a full receive queue.

**LdtIoctl** models `ldt_ioctl`: the mutex, both copies with their faults, the
`memcpy` and the two `memset`s as separate steps; `copy_from_user` zeroes what it
could not copy.  **Mailbox** is the promise: a
box for one message, each call one step, and behind the message nothing but zeros
if `Exact`.

**Lifecycle**: one life of `ldt.c` or `misc_loop_drv.c`, from `module_init` to the
moment its memory is gone.  `InitSteps` and `CleanupSteps` list what the functions
acquire and release, in the order of the code; `InitStep` and `InitFails` are the
two outcomes of each step, `AfterFailure` says where the code goes from there,
`CleanupStep` is one step of the cleanup with the tests the code makes (and does
not make).  Meanwhile the timer handler (`TimerExpires`, `TimerSchedules`,
`TimerRearms`), the interrupt handler (`Isr`), the tasklet and a process that opens
the device run on other CPUs.  External, from its use: `free_irq` waits for a
running handler, `del_timer` does not; `tasklet_kill` waits until the tasklet is
idle; an open file keeps a module from being removed, but not one whose
`module_init` fails.  `misc_loop_drv.c` is loaded with an interrupt; its parameter
`irq = 0` is left out.

**Snull**: `snull.c` with its two devices.  The kernel calls `snull_tx` and
`snull_tx_timeout` of a device under that device's transmit lock, so there is one
context per device; `cpu[d].pc` is its place in the code.  Since `snull_hw_tx`
calls the interrupt handler of the *other* device and then its own, both contexts
run both handlers.

| action | code |
|---|---|
| `Open`, `Release` | `snull_open`, `snull_release` |
| `Tx`, `TxNoBuffer` | `snull_tx` up to `snull_get_tx_buffer`, with and without a packet in the pool |
| `EnqueueBuf` | `snull_enqueue_buf` |
| `StatusRead`, `StatusWrite` | the two halves of `priv->status \|= …`, then the handler is called, or not (`lockup`) |
| `IsrEnter`, `IsrAck` | `snull_regular_interrupt`, `snull_napi_interrupt`: lock and read the status; clear it, receive, free the `skb`, unlock |
| `ReleaseBuffer`, `ReleaseCheck`, `ReleaseWake` | `snull_release_buffer`: under the lock, the test after the unlock, the wake-up |
| `TxTimeout`, `TxTimeoutWake` | `snull_tx_timeout` |
| `NapiPoll` | the first poll: a call through the pointer `snull_init` has cleared |

**Sbull**: one disk of `sbull.c`.  `OpenBegin`, `OpenSync` (`del_timer_sync`),
`OpenCheck`, `OpenCount` are `sbull_open`; `Release`, `Expire`, `Invalidate`,
`Exit`; a request is sent by `Submit` and served by the function of the mode
(`SimpleRequest`, `FullRequest`, `MakeRequest`; `SkipRequest` for a request that is
not about data, which carries none here: `sbull_ioctl` offers no command that would
attach any).  A bio is its first sector, the number of its segments and where
each ends; a request has one bio.  `XferSeg` is one round of `sbull_xfer_bio`, `XferBio` all of them, with
the code's own idea of where a segment begins and how long it is.  External, from its use: the block layer serialises `open`
and `release`, sends nothing past the capacity, waits for outstanding requests
before `release`, hands out each request once and completes it when all its bytes
have been reported.

**CdataWrite**: the three versions of the buffered write (`lab`): `005_conrr`, the
labs of 2015-03 with a timer, the lab of 2015-11 with a work item.  `Write`,
`Copy`, `FindFull`, `Arm`, `SetState`, `Join`, `Awake`, `PutAfterSleep`, `End` are
`cdata_write`, in the order each version has; `FlushBegin`, `FlushWake` the timer
or work handler, `Release` the close, `Signal` a signal during the sleep;
`IoctlBegin`, `IoctlPut` are `IOCTL_WRITE` of the labs of 2015-03, which moves the
index too.
Threads call without end; only the index of the labs of 2015-03, which grows past
the end of the buffer, is bounded (`MaxIndex`: no call begins beyond it).
External, from their use: `add_timer` of a pending timer traps; a work item is
queued once; `wake_up` reaches who is in the queue, and takes entries made with
`DEFINE_WAIT` out, those made with `DECLARE_WAITQUEUE` not.

The definitions whose names have an underscore followed by a capitalised word
(`ReadLock_Shared`, `WakeDue_Inverted`, …) are mutated forms: plausible bugs, used
only to make sure that the properties would notice them.

## 3. Runs

| run | instance | what it shows |
|---|---|---|
| `misc_safety` | 2 readers that get signals, 1 writer, queues of 2, counts up to 2, 3 bytes of 2 values | `TypeOK`, `FaithfulLoop`, `NoStall`, `NoLostWakeup`, `NoStaleWaiter` of `misc_loop_drv.c` |
| `misc_live` | 1 reader, 1 writer that gets signals, 1 poller, queues of 2, 3 bytes | `SoleUserServed`, `ImplementsChannel`; under fairness `Transmitted`, `SleepersWake`, `WritesReturn` |
| `misc_eof` | 2 readers, 1 writer | violation: a blocking `read` returns 0 |
| `ldt_emulation` | no UART, loopback; 2 writers that get signals, 1 reader, queues of 1 | `TypeOK`, `ImplementsChannel` of `ldt.c` |
| `ldt_uart` | UART with a plug, receive depth 1; 1 reader, 1 writer, both get signals | `NoStall`, `NoLostWakeup`, `ImplementsChannel`, `NoTransmitOverrun`; under fairness `Transmitted`, `SleepersWake`, `WritesReturn` |
| `ldt_loop_live` | UART in loopback mode (no interrupts), 3 bytes | `Transmitted`, `Drained`: the timer alone keeps the driver going |
| `ioctl` | 2 writers, 2 readers, buffers of 2, faults | `ImplementsMailbox`, `CallsReturn` |
| `ioctl_tail` | 1 writer, 1 reader, buffers of 2, faults | violation: bytes of a failed WRITE come back |
| `lifecycle` | every combination of the parameters of `ldt.c`; `misc_loop_drv.c` with an interrupt (`irq = 0` is left out) | `CleanExit`, `NoUseAfterFree`, `CleanupEnds` |
| `snull` | 2 devices, pools of up to 2 packets, with and without NAPI and lockup | `OnePlace`, `QueueRestarts`, `StoppedWhileEmpty`, `Delivered`, `FreedOnce` |
| `sbull` | 2 processes, 3 sectors, bios of up to 2 segments of up to 2 sectors, all modes | `TimerIdleInUse`, `Placed`, `CompleteWrites`; under fairness `OpensReturn`, `RequestsComplete` |
| `cdata` | 2 threads, buffer of 2 bytes, any number of calls, writes of up to 3 bytes, all versions | `InBounds`, `NoLostWakeup`, `NoUseAfterFree`; under fairness `WritesReturn` |

**Properties.**  `FaithfulLoop`: the i-th byte ever handed out is the i-th byte
stored, which is an accepted byte; bytes are stored in the order of acceptance,
none twice.  `NoStall`: bytes in `out_fifo` always have somebody who will send
them (the running tasklet, its `SCHED` bit, a pending interrupt, a writer about to
schedule it).  `NoLostWakeup`: a process sleeps although its condition holds only
in the window between the tasklet's queue operation and its wake-up.
`NoStaleWaiter`: an interrupted call is off the wait queues.  `SoleUserServed`: a
reader (writer) without a rival finds a byte (room) when it holds the mutex, so that
its call does not return 0.  `NoTransmitOverrun`:
the tasklet, which tests `tx_ready` some steps before it writes the character,
never overwrites one.  `Transmitted`, `Drained`: every byte leaves `out_fifo`, every
character leaves the UART.  `SleepersWake`, `WritesReturn`, `CallsReturn`: sleepers
whose condition holds wake up; writes and ioctls return.  `WritesReturn` of the two
data paths is about a writer without rivals: with several, one that is woken may find
`out_fifo` filled again by another each time it tests, and those runs do not examine
how often.

Some code does not keep its promise in every case.  Where no comment or document
claims otherwise the property says exactly when it is kept, and every exception it
makes is needed: without it TLC finds a counterexample.

* `Lifecycle`.  `CleanExit`: the module gives everything back wherever loading
  fails, except after two failures of `misc_loop_drv_init` that return without
  cleaning up; unloading crashes only if `drvdata` was never allocated (`ret` is
  still 0 then, and the module stays loaded); `free_irq` is called for an interrupt
  that was not requested only after a failure before `request_irq`, or by `ldt.c`
  with an interrupt and no port.  `NoUseAfterFree`: nothing runs on freed memory
  unless `ldt_timer_func` is running when `del_timer` is called (it re-arms itself),
  a process has the device open when `module_init` fails or opens it during the
  cleanup after that, or `misc_loop_drv.c` left its device registered.  A process
  that opens the device while a successful `module_init` is still running is no
  exception.  `CleanupEnds`: `tasklet_kill` does not wait for ever, but for the first
  two of these cases.
* `Snull`.  `OnePlace`: every packet is in the pool, in `rx_queue` or with one
  context, always.  `QueueRestarts`: a stopped queue whose pool has packets was
  stopped by the simulated lockup, or somebody is about to wake it.
  `StoppedWhileEmpty`: `snull_get_tx_buffer` never meets an empty pool, unless the
  watchdog or `snull_open` started the queue of a device whose pool was empty or
  was just getting a packet back (history variable `forced`).  `Delivered`:
  without NAPI (where the first poll crashes) no packet is stranded in `rx_queue`,
  unless an update of the status word was lost (`torn`: two halves of `|=` that
  overlap, or a watchdog that overwrites an RX bit).  `FreedOnce`: the `skb` is freed
  once, unless `torn` or `lockup`, or by a watchdog that completes a transmission which
  was complete (`skb` is `"again"` until the next transmission).
* `Sbull`.  `TimerIdleInUse`: while the disk is in use the timer is idle and no
  media change is pending, and nothing is left of it after unloading.  `Placed`:
  a block is only found in its own sector, unless a bio with segments of unequal
  length was transferred (`ragged`): `sbull_xfer_bio` counts each as long as the
  first.  `CompleteWrites`: when a write is reported complete, each of its sectors
  holds a block written there by that write or by another one; which of two writers
  came last is not said, and nothing in `RM_FULL`, where no write is reported
  complete.  `OpensReturn`: no deadlock between `del_timer_sync` and the handler.
  `RequestsComplete`: in `RM_NOQUEUE` always, in `RM_SIMPLE` with one segment; a
  request of more segments is not completed there, and in `RM_FULL` none is,
  because sectors are reported where bytes are expected.
* `CdataWrite`.  `InBounds`: `cdata_write` of the lab of 2015-11 never leaves the
  buffer, that of 2015-03 only after a signal or with two threads (`disturbed`),
  whatever `IOCTL_WRITE` (which does not test) did to the index; `conrr` does not
  test.  `NoLostWakeup`: likewise never in the first; in the others
  only when the timer expires before the writer has joined the queue (`early`).
  `NoUseAfterFree`: the flush runs on the freed structure only if `disturbed`;
  `conrr` frees nothing but leaves its wait entry in the queue.  `WritesReturn`: a
  write of the lab of 2015-11 returns unless other threads starve it.  It waits until
  it sees an index of 0 itself (`lab_20151115/cdata.c:105-112`), so that a second
  thread that writes a byte between each flush and the retest keeps it in the loop for
  ever; the property allows only behaviours in which such writes (`Refills`) never
  end, and without the exception TLC finds that livelock.  In the other two versions a
  write returns unless its wake-up was missed (`early`) or `add_timer` trapped.

**The two violations** are disagreements between code and comment:

* `misc_eof`: `misc_loop_drv_read` waits until `in_fifo` is not empty, takes the
  mutex, and does not test again.  Two readers and one byte: both pass the test
  (asleep or not), and the second to get the mutex returns 0, which `read(2)` defines as end of file, although
  `misc_loop_drv.c:86` calls the queue a "waitqueue for blocking read".  `ldt.c`
  has the same code.
* `ioctl_tail`: a WRITE that faults half-way leaves its bytes in `in_buf`; the
  next, shorter WRITE copies all of `in_buf` to `out_buf` (`ldt.c:373`, "to
  emulate loopback for testing"), and a READ gets the old bytes behind the
  message.

**Bounds.**  `MaxCount` and `MaxBytes` bound the argument of a call and the number
of bytes written; the queue sizes are 1 or 2 instead of 128, the receive depth of
the UART is 1 instead of 16.  The instances are chosen so that the hard cases
happen: queues become full and wrap around, bytes are dropped, the UART overruns,
a write finds less room than it asked for, copies stop half-way, two processes
compete for each mutex, both outcomes of every race between tasklet and process
occur.  Two readers (writers) suffice for the mutexes, since a third has the same
relation to the other two; and the safety properties are proved for all sizes.
In `snull` two packets are the least with which a list has an inner link, so that
`next` can be stale, and pools of 0, 1 and 2 packets all occur (`snull_setup_pool`
may run out of memory).  In `sbull` two segments of 1 or 2 sectors on 3 sectors
give bios that are uniform, ragged, and that end at the end of the disk.  In
`cdata` a write is longer than the buffer, and with `MaxIndex = 3` a write follows
enough `IOCTL_WRITE`s to have moved the index past the end; the number of calls is not
bounded, so that liveness is examined against threads that never stop.  `lifecycle`
has no bound: its model is finite.
Symmetry (permutations of readers and of writers, of the two devices in `snull`) is
used in runs without liveness only.  Deadlock is not checked in the runs of the two
data paths, where all is quiet once `MaxBytes` bytes are written; it is checked in
`ioctl`.  Nor is it checked in `lifecycle` (the module is gone), `snull` (null pointer),
`sbull` (unloaded, requests that are never completed) and `cdata` (file closed),
where the system really may stop.

**Fairness.**  A process inside a call keeps running until it blocks, pending
interrupts are taken, a scheduled tasklet runs, an armed timer fires and the UART
sends: weak fairness for each.  Kernel mutexes hand over in the order of arrival:
strong fairness for taking one.  Nothing is assumed about processes beginning
calls, about signals, or about readers: `WritesReturn` holds with nobody reading.
In `Lifecycle` and `CdataWrite` loader, timer, tasklet and writers run when they
can (weak fairness).  In `Sbull` the parties compete for a spinlock, which the
kernel grants in the order of arrival: strong fairness for serving a request, for
the steps of `open` and for the timer handler; none for beginning anything.

## 4. Proofs

Every safety property of every passing run (invariants, action properties and the
two refinements) is a theorem.  The theorems hold for any number of processes, any
queue, buffer, pool and disk size, bios of any number of segments, any receive
depth, any set of byte values, and all four modes of `ldt.c` (the refinement of
`LoopChannel`: the three in which bytes come back, with a UART or in loopback mode).
The assumptions on the constants are those named in the modules (`KfifoAssumption`,
`FifoDeviceAssumption`, `MiscLoopAssumption`, `LdtAssumption`, `IoctlAssumption`,
`SnullAssumption`, `SbullAssumption`, `CdataAssumption`): sizes are positive
naturals, the kinds of processes are disjoint, the processes of `Sbull` are finitely
many, `snull.c` has two devices, and the constants for "nobody" and `NULL` are none
of the things they stand beside.

* **FifoDeviceProofs**, the process side of both drivers, in three parts.
  *The ring*: which slots `CopyIn` changes, that distinct bytes in the queue live in
  distinct slots, what `Peek`, `Push` and the counters return; and the ring as the
  sequence `Contents`: copying behind `in` leaves it alone, advancing `in` appends
  what was copied, advancing `out` cuts its front off.
  *The invariant*: `FaithfulLoop` is not inductive.  `DeviceInv` adds: who copies
  holds the mutex (`LockInv`); what a reader has copied is still at the head of
  `in_fifo`, and what a writer has copied is still in the slots `out_fifo` gets next
  (`StagedInv`); the counters count what the history records (`CounterInv`); the
  slots between the counters hold what the history says (`RingInv`); stored bytes
  are numbered in increasing order and were all taken from `out_fifo` (`KeptInv`,
  `ReceivedInv`).  The lemmas say that every step of a process keeps it, and which
  steps of a bottom half (take a byte, store a fresh byte, touch neither) keep it.
  *The channel*: `Line(h)` is `in_fifo`, the bytes `h` in the tasklet's hands and
  `out_fifo`, one after the other.  A committed write appends to it, a committed read
  takes its front, a byte that meets a full queue disappears from behind the unread
  ones before it, and everything else leaves it alone: each is a `ChannelStep`, a step
  of `LoopChannel` or none.
  *The sole user*: `SoleInv` says that between the test of the condition and the copy
  nobody but the user itself can take from `in_fifo` (put into `out_fifo`), so that
  what it saw is still true once it has the mutex.
* **MiscLoopProofs** adds `PortInv`: the byte in the tasklet's hand or in the port
  register is the last one taken from `out_fifo`, and is not stored yet.
  **LdtProofs** adds `UartInv` and `HandInv`: the characters inside the UART are on
  their way once and in order, and `tpc = "send"` implies `tx_ready`, which is
  `NoTransmitOverrun`.  From these: `TypeCorrect`, `Faithful`, `NeverStalls`,
  `WakeupsKept` for both drivers and `TransmitSafe` for `ldt.c`.  `NeverStalls` of
  `MiscLoop` needs a strengthening of its own (`KickInv`): the port register is
  empty between two runs of the tasklet, and while it is full the tasklet is
  scheduled or an interrupt that will schedule it is pending.  `NothingStale`: an
  interrupted call has left the wait queues.  `SoleUsersServed`: the race `misc_eof`
  shows is the only way to it; a single reader is never told end of file, a single
  writer never writes nothing.
  `ChannelImplemented`: both drivers implement `LoopChannel`; with `Hand` for the
  byte between the queues, each step of the driver is a `ChannelStep` of its `Line`,
  and the mapping of the refinement is that line.  For `ldt.c` with a UART the middle
  of the line is what is in the receive queue and in the holding register (`Middle`,
  `TransitLine`): a character the full receive queue overruns disappears from behind
  that queue's characters and whatever is in `in_fifo`, which is where `LossPoints`
  allows a loss.
* **LdtIoctlProofs**: the invariant says that whoever is inside holds `ioctl_lock`,
  that `in_buf` begins with the message of a writer before its `memcpy`, and that
  without faults `in_buf` is blank when nobody uses it.  `MailboxRefined`: the
  specification implements `Mailbox`, where WRITE takes effect at the `memcpy` and
  READ at the `copy_to_user`.  `ExactLoopback`: without faults `LoopbackExact`, which
  `ioctl_tail` refutes with them, is an invariant; `ExactInv` says that `out_buf` is the
  last message and zeros, and that a reader about to blank it has what is in it.
* **LifecycleProofs**: `ExitIsClean`, `NothingUsedAfterFree`, `KillEnds`.  The model has no
  constants and finitely many states, so that TLC's answer is complete; the proof
  says why the order of the steps is right.  Its invariant follows the loader: what
  is held at each step of loading (`Loading`), that `drvdata` and the interrupt are
  there until the steps that release them (`Loaded`), that the cleanup has released
  what its steps so far name (`Unloading`), and which of interrupt, timer, tasklet
  and process can still be active at each step (`Calm`).  `KillEnds` is the part of
  `CleanupEnds` that needs no fairness: while the cleanup waits in `tasklet_kill` no
  step schedules the tasklet again.
* **SnullProofs**: `PacketsInOnePlace`, `WakesUp`, `NeverEmpty`, `NoneStranded`,
  `NoDoubleFree`, from one invariant.  `Control` says who holds which lock where in
  the code.  `Places`: there are two disjoint sets of packets, those of the pools and
  those of the receive queues, each list runs through its set once and ends with
  `NULL`, and every other packet is in exactly one hand; the lemmas on `List` say
  what taking the head off and putting a packet in front do to a list, and that a
  change of `next` elsewhere does nothing, which is what makes the shared `next`
  field harmless.  `Restarts`: a stopped queue with packets has a context that has
  decided to wake it, or whose packet is still the last of the pool.  `Filled`: while
  one context is inside `snull_release_buffer`, the pool does not run empty under
  it.  `OnItsWay`: a packet in `rx_queue` is alone there and its interrupt is coming.
  `HeldOnce`: the TX bit stands for an `skb` that is held, or for one the watchdog
  completes once more.
* **SbullProofs**: `TimerIdleInUseHolds`, `BlocksPlaced`, `WritesComplete`,
  `OpenWaitsForNoLock`.  The
  invariant counts: `users` is the number of processes that have the disk open
  (`Counted`), so that `LastUser` is the last one; and from the moment `open` has
  stopped the timer until it has counted itself nobody can start it again, because
  `bd_mutex` is held (`Quiet`).  For the data it adds that a process with a request
  has the disk open, so that nobody clears the disk under it (`Queued`), and that the
  segments of a write that are done are on the disk, whoever writes there meanwhile
  (`Stored`).  The lemmas on `SegPos` say that with segments of one length the places
  the code computes are those the bio means, and do not overlap.  `OpenWaitsForNoLock`
  is the part of `OpensReturn` that needs no fairness: whoever holds `dev->lock` across
  steps is past `del_timer_sync` and has `bd_mutex`, so the handler another process
  waits for there finds the lock free.
* **CdataWriteProofs**: `InBoundsHolds`, `NoLostWakeupHolds`, `NoUseAfterFreeHolds`,
  for any number of threads and any buffer size.  The invariant has four parts:
  which places of the code each version reaches (`Places`), what a writer that has
  joined the queue may rely on (`Wakeups`), how far the index can go (`Bounded`),
  and that without a signal or a second thread the flush is over when a write
  returns (`Alone`).

**Only model-checked** are the liveness properties, because the prover has no rules
for fairness: `Transmitted`, `Drained`, `SleepersWake`, `WritesReturn`,
`CallsReturn`, `CleanupEnds`, `OpensReturn`, `RequestsComplete`.

## 5. Not modelled, and the plan

Not modelled:

* in `ldt/`: `mmap` (the driver promises nothing about what processes do to the
  pages), debug output, the platform wrappers.  A process that polls for `POLLOUT`
  never sleeps, since `POLLOUT` is always reported;
* in `snull.c`: `snull_poll`, which is never reached (see `NapiPoll`); unloading;
  contents of packets and their headers, statistics;
* in `sbull.c`: `setup_device` (but for the zeroed disk it leaves) and its failures,
  several disks, `ioctl`, and requests into which the block layer has merged several
  bios: in `RM_FULL` one bio already shows that the request is not completed;
* in the cdata labs: the contents of the buffer (and the `ioctl`s that only touch
  them), failing allocations;
* the event list of `005_concurr_syscall`: its functions follow pointers that are
  wrong already when called one after the other, so that there is no state to
  protect; the poll examples (a single flag), the virtual disk and `014_ramblock`
  (sequential copies), `013_notifier` (its `del_timer` race is the one `Lifecycle`
  shows), the threads of `011_kthread`, the skeletons, the user-space programs;
* the vendored kernel, emulator and drivers: not this repository's own code.

No safety property waits for a theorem.  What remains is to say more: the unloading
of `snull.c`, whose `snull_cleanup` frees one device while the other is registered,
and the failures inside `setup_device` of `sbull.c`.

The hazards without a property in `PROJECT.json` say why they have none.
