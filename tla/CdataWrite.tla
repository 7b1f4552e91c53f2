----------------------------- MODULE CdataWrite -----------------------------
(***************************************************************************)
(* The buffered write of the cdata character devices: a write that fills   *)
(* the buffer starts a deferred flush and sleeps until the flush has       *)
(* emptied the buffer.  Three versions of one idea:                        *)
(*   conrr   005_conrr/cdata.c                       timer, joined by hand *)
(*   lab14   Jollen/ldd-training/lab_20150314 (= lab_20150322)   timer     *)
(*   lab15   Jollen/ldd-training/lab_20151115                    work item *)
(*                                                                         *)
(* One open file, which threads may share; nothing serialises their        *)
(* writes.  A byte is not modelled, only where it is put.  The kernel's    *)
(* primitives are modelled from their use: add_timer of a pending timer is *)
(* a bug trap, a work item is queued at most once, wake_up sees only who   *)
(* is in the queue, and takes out entries made with DEFINE_WAIT but not    *)
(* those made with DECLARE_WAITQUEUE.                                      *)
(***************************************************************************)
EXTENDS Naturals, FiniteSets

CONSTANTS
  Writers,
  BufSize,          \* BUF_SIZE, 128 in conrr
  MaxWrite,         \* bound: bytes in one write
  MaxIndex          \* bound: no call of lab14 begins while an index is larger

ASSUME CdataAssumption ==
  /\ BufSize \in Nat \ {0} /\ MaxWrite \in Nat \ {0} /\ MaxIndex \in Nat

VARIABLES
  lab,                  \* the version
  open, index,          \* file still open; cdata->index (idx)
  pending, flush,       \* timer or work item pending; where its handler is
  wq,                   \* writers linked into the wait queue
  asleep,               \* writers in state TASK_INTERRUPTIBLE
  pc, idx, left,        \* per writer: position, local index, bytes to copy
  bug,                  \* add_timer found its timer pending
  oob, uaf,             \* who put a byte behind the buffer; freed memory was used
  early, disturbed,     \* history, see the properties
  linked                \* history: a wait entry outlived its call

local == <<idx, left>>
faults == <<bug, oob, uaf>>
history == <<early, disturbed, linked>>
vars == <<lab, open, index, pending, flush, wq, asleep, pc, local, faults,
          history>>

Init ==
  /\ lab \in {"conrr", "lab14", "lab15"}
  /\ open = TRUE /\ index = 0
  /\ pending = FALSE /\ flush = "idle"
  /\ wq = {} /\ asleep = {}
  /\ pc = [w \in Writers |-> "idle"]
  /\ idx = [w \in Writers |-> 0] /\ left = [w \in Writers |-> 0]
  /\ bug = FALSE /\ oob = {} /\ uaf = FALSE
  /\ early = FALSE /\ disturbed = FALSE /\ linked = FALSE

\* The bound on lab14, whose indices IOCTL_WRITE and interrupted writes push past
\* BufSize without end; those of the other two stay below BufSize + MaxWrite.
Begins ==
  lab = "lab14" => index <= MaxIndex /\ \A v \in Writers : idx[v] <= MaxIndex

Goto(w, from, to) == pc[w] = from /\ pc' = [pc EXCEPT ![w] = to]

----------------------------------------------------------------------------
(* cdata_write *)

\* A write of n bytes begins with a copy of the index.
Write(w, n) ==
  /\ open /\ Begins
  /\ Goto(w, "idle", "copy")
  /\ idx' = [idx EXCEPT ![w] = index]
  /\ left' = [left EXCEPT ![w] = n]
  /\ disturbed' = (disturbed \/ \E v \in Writers : pc[v] # "idle")
  /\ UNCHANGED <<lab, open, index, pending, flush, wq, asleep, faults, early, linked>>

\* The byte goes to the local index.
Put(w) ==
  /\ oob' = oob \cup {c \in {"write"} : idx[w] >= BufSize}
  /\ idx' = [idx EXCEPT ![w] = @ + 1]
  /\ left' = [left EXCEPT ![w] = @ - 1]

\* Mutated form: one byte too late.
Full_Late(i) == i > BufSize

Full(i) == i >= BufSize

\* conrr tests after the loop, lab14 before a byte and lab15 after it; the
\* first two start the timer before they join the queue, lab15 joins first.
Copy(w) ==
  /\ left[w] > 0
  /\ lab = "lab14" => ~Full(idx[w])
  /\ Put(w)
  /\ Goto(w, "copy", IF lab = "lab15" /\ Full(idx[w] + 1) THEN "join" ELSE "copy")
  /\ UNCHANGED <<lab, open, index, pending, flush, wq, asleep, bug, uaf,
                 history>>

FindFull(w) ==
  /\ Full(idx[w])
  /\ \/ lab = "lab14" /\ left[w] > 0
     \/ lab = "conrr" /\ left[w] = 0 /\ w \notin wq
  /\ Goto(w, "copy", "arm")
  /\ UNCHANGED <<lab, open, index, pending, flush, wq, asleep, local, faults,
                 history>>

\* add_timer or schedule_work.
Arm(w) ==
  /\ pc[w] = "arm"
  /\ bug' = (lab # "lab15" /\ pending)
  /\ pending' = TRUE
  /\ Goto(w, "arm", CASE lab = "conrr" -> "state" [] lab = "lab14" -> "join"
                      [] lab = "lab15" -> "sleep")
  /\ UNCHANGED <<lab, open, index, flush, wq, asleep, local, oob, uaf, history>>

\* conrr only: set_current_state, a step before add_wait_queue.
SetState(w) ==
  /\ Goto(w, "state", "join")
  /\ asleep' = asleep \cup {w}
  /\ UNCHANGED <<lab, open, index, pending, flush, wq, local, faults, history>>

\* Mutated form: lab15 sleeps without having queued the work.
AfterJoin_Sleep == "sleep"

AfterJoin == IF lab = "lab15" THEN "arm" ELSE "sleep"

\* prepare_to_wait; in conrr add_wait_queue.
Join(w) ==
  /\ Goto(w, "join", AfterJoin)
  /\ wq' = wq \cup {w}
  /\ asleep' = asleep \cup {w}
  /\ UNCHANGED <<lab, open, index, pending, flush, local, faults, history>>

\* A signal ends the sleep (or keeps schedule() from sleeping at all).
Signal(w) ==
  /\ pc[w] = "sleep" /\ w \in asleep
  /\ asleep' = asleep \ {w}
  /\ disturbed' = TRUE
  /\ UNCHANGED <<lab, open, index, pending, flush, wq, pc, local, faults,
                 early, linked>>

\* Mutated form: lab15 jumps back whatever the index is.
Again_Always == lab = "lab15"

\* lab15 goes to sleep again until the buffer is empty.
Again == lab = "lab15" /\ index # 0

\* Mutated form: the call of schedule() is missing.
Returned_AtOnce(w) == TRUE

\* schedule() returns when the task is runnable.
Returned(w) == w \notin asleep

\* schedule() has returned: the index is loaded again.  lab14 and lab15 leave
\* the queue (finish_wait), conrr does not.  lab14 then puts a byte without
\* another test.
Awake(w) ==
  /\ Returned(w)
  /\ idx' = [idx EXCEPT ![w] = index]
  /\ wq' = IF lab = "conrr" \/ Again THEN wq ELSE wq \ {w}
  /\ Goto(w, "sleep", IF Again THEN "join" ELSE IF lab = "lab14" THEN "put" ELSE "copy")
  /\ UNCHANGED <<lab, open, index, pending, flush, asleep, left, faults,
                 history>>

PutAfterSleep(w) ==
  /\ Goto(w, "put", "copy")
  /\ Put(w)
  /\ UNCHANGED <<lab, open, index, pending, flush, wq, asleep, bug, uaf,
                 history>>

\* The write returns, and its locals are gone.  In conrr its wait entry, on the stack, may still be
\* linked.  (A conrr write that slept does not test again.)
End(w) ==
  /\ left[w] = 0
  /\ lab = "conrr" => ~Full(idx[w]) \/ w \in wq
  /\ Goto(w, "copy", "idle")
  /\ index' = idx[w] /\ idx' = [idx EXCEPT ![w] = 0]
  /\ wq' = wq \ {w}
  /\ linked' = (linked \/ w \in wq)
  /\ UNCHANGED <<lab, open, pending, flush, asleep, left, faults, early,
                 disturbed>>

----------------------------------------------------------------------------
(* cdata_ioctl of lab14; those of the other two leave the index alone *)

\* IOCTL_WRITE copies the index,
IoctlBegin(w) ==
  /\ lab = "lab14" /\ open /\ Begins
  /\ Goto(w, "idle", "ioctl")
  /\ idx' = [idx EXCEPT ![w] = index]
  /\ disturbed' = (disturbed \/ \E v \in Writers : pc[v] # "idle")
  /\ UNCHANGED <<lab, open, index, pending, flush, wq, asleep, left, faults, early,
                 linked>>

\* puts one byte there, wherever that is, and stores the next index.
IoctlPut(w) ==
  /\ Goto(w, "ioctl", "idle")
  /\ oob' = oob \cup {c \in {"ioctl"} : idx[w] >= BufSize}
  /\ index' = idx[w] + 1 /\ idx' = [idx EXCEPT ![w] = 0]
  /\ UNCHANGED <<lab, open, pending, flush, wq, asleep, left, bug, uaf,
                 history>>

----------------------------------------------------------------------------
(* The flush and the close *)

\* flush_data (flush_buffer) begins: the buffer counts as empty.
FlushBegin ==
  /\ pending /\ flush = "idle"
  /\ pending' = FALSE
  /\ flush' = "wake"
  /\ index' = 0
  /\ uaf' = (uaf \/ (~open /\ lab # "conrr"))
  /\ UNCHANGED <<lab, open, wq, asleep, pc, local, bug, oob, history>>

\* wake_up(&cdata->wq).
FlushWake ==
  /\ flush = "wake"
  /\ flush' = "idle"
  /\ asleep' = asleep \ wq
  /\ wq' = IF lab = "conrr" THEN wq ELSE {}
  /\ early' = (early \/ \E w \in Writers : pc[w] \in {"state", "join"} /\ w \notin wq)
  /\ uaf' = (uaf \/ (~open /\ lab # "conrr") \/ linked)
  /\ UNCHANGED <<lab, open, index, pending, pc, local, bug, oob, disturbed,
                 linked>>

\* The last reference to the file is gone.  conrr deletes the timer and frees
\* nothing; the other two free the structure and leave the timer or the work
\* item alone.
Release ==
  /\ open /\ \A w \in Writers : pc[w] = "idle"
  /\ open' = FALSE
  /\ pending' = (pending /\ lab # "conrr")
  /\ UNCHANGED <<lab, index, flush, wq, asleep, pc, local, faults, history>>

----------------------------------------------------------------------------
Step(w) ==
  \/ Copy(w) \/ FindFull(w) \/ Arm(w) \/ SetState(w) \/ Join(w) \/ Awake(w)
  \/ PutAfterSleep(w) \/ End(w) \/ IoctlPut(w)

Next ==
  /\ ~bug
  /\ \/ \E w \in Writers : \/ \E n \in 1..MaxWrite : Write(w, n)
                           \/ IoctlBegin(w) \/ Step(w) \/ Signal(w)
     \/ FlushBegin \/ FlushWake \/ Release

\* A writer that can run does, a timer expires and a work item is executed;
\* nobody has to write, close or send a signal.
Fairness == (\A w \in Writers : WF_vars(Step(w))) /\ WF_vars(FlushBegin \/ FlushWake)

Spec == Init /\ [][Next]_vars /\ Fairness

----------------------------------------------------------------------------
(* What must hold *)

\* Every variable has its type.
TypeOK ==
  /\ lab \in {"conrr", "lab14", "lab15"}
  /\ {open, pending, bug, uaf, early, disturbed, linked} \subseteq BOOLEAN
  /\ oob \subseteq {"write", "ioctl"}
  /\ flush \in {"idle", "wake"}
  /\ wq \subseteq Writers /\ asleep \subseteq Writers
  /\ pc \in [Writers -> {"idle", "copy", "arm", "state", "join", "sleep", "put",
                        "ioctl"}]
  /\ idx \in [Writers -> Nat] /\ left \in [Writers -> 0..MaxWrite]
  /\ index \in Nat

\* cdata_write puts no byte behind the buffer: in lab15 never, however threads and
\* signals interfere; in lab14 unless a signal ended a sleep or two threads were in
\* the driver at once, and even if IOCTL_WRITE, which does not look at the size,
\* has moved the index past the end before.  conrr does not keep the bound.
InBounds == "write" \in oob => lab = "conrr" \/ (lab = "lab14" /\ disturbed)

\* Whoever sleeps will be woken: a flush is pending or about to wake the queue
\* the sleeper is in.  lab15 joins the queue first and never misses it; in the
\* other two the wake-up is missed only when the timer expires before the writer
\* has joined the queue.
NoLostWakeup ==
  /\ TypeOK
  /\ \A w \in Writers : pc[w] = "sleep" /\ w \in asleep =>
       \/ w \in wq /\ (pending \/ flush = "wake")
       \/ early /\ lab # "lab15"

\* No flush runs on the freed structure, and no wake-up through the wait entry
\* of a call that has returned.  lab14 and lab15 free the structure without
\* stopping the flush: they rely on every write having slept until the flush was
\* over, which a signal or a second thread breaks.  conrr frees nothing but leaves
\* its wait entry behind.
NoUseAfterFree == uaf => disturbed \/ lab = "conrr"

\* A call stores an index that is not 0 while w is in the driver: lab15's retest
\* of the index (line 111) then sends w back to sleep.
Refills(w) ==
  \E v \in Writers \ {w} : pc[w] # "idle" /\ pc[v] = "copy" /\ pc'[v] = "idle" /\ index' # 0

\* A write of lab15 returns, whatever signals arrive, unless other threads starve
\* it: it waits for an index of 0 that it sees itself, so that a rival which stores
\* a byte between every flush and the retest keeps it in the loop for ever.  In the
\* other two versions a write returns whatever other threads do, unless the wake-up
\* is missed or add_timer traps.
WritesReturn ==
  \A w \in Writers :
    \/ pc[w] # "idle" ~> pc[w] = "idle" \/ (lab # "lab15" /\ (early \/ bug))
    \/ lab = "lab15" /\ []<><<Refills(w)>>_vars
=============================================================================
