------------------------------ MODULE LdtIoctl ------------------------------
(***************************************************************************)
(* ldt_ioctl of ldt.c: _IOC_WRITE copies a message from user space into    *)
(* in_buf and from there into out_buf, _IOC_READ copies out_buf to user    *)
(* space and blanks it; ioctl_lock is held throughout.  Both copies may    *)
(* stop in the middle on a bad user address.                               *)
(*                                                                         *)
(* The command is type 'A', number 0, and its size is at most that of the  *)
(* buffers; another type or number takes and releases the lock and changes *)
(* nothing.                                                                *)
(***************************************************************************)
EXTENDS Naturals, Sequences

CONSTANTS Writers,   \* processes that call ioctl with _IOC_WRITE
          Readers,   \* processes that call ioctl with _IOC_READ
          NoProc,    \* owner of the free mutex
          Byte, Zero,
          BufSize,   \* bufsize, the size of in_buf and out_buf
          Faults     \* whether user addresses may be bad

Procs == Writers \cup Readers
Slots == 1 .. BufSize

ASSUME IoctlAssumption ==
  /\ Writers \cap Readers = {}
  /\ NoProc \notin Procs
  /\ Zero \in Byte
  /\ BufSize \in Nat
  /\ Faults \in BOOLEAN

VARIABLES
  in_buf, out_buf,   \* the two buffers
  ioctl_lock,        \* owner of the mutex
  pc,
  msg,               \* per writer: the message in user memory
  size,              \* per reader: _IOC_SIZE of the command
  got,               \* per reader: its user memory
  last               \* history: the message of the last WRITE that came
                     \* through and that no READ has taken; <<>> if none

vars == <<in_buf, out_buf, ioctl_lock, pc, msg, size, got, last>>

\* memset(buf, 0, bufsize)
Blank == [i \in Slots |-> Zero]

\* The buffer after the first c bytes of m were copied into it.
Overlay(b, m, c) == [i \in Slots |-> IF i <= c THEN m[i] ELSE b[i]]

Init ==
  /\ in_buf = Blank /\ out_buf = Blank
  /\ ioctl_lock = NoProc
  /\ pc = [p \in Procs |-> "idle"]
  /\ msg = [w \in Writers |-> <<>>]
  /\ size = [r \in Readers |-> 0]
  /\ got = [r \in Readers |-> <<>>]
  /\ last = <<>>

Goto(p, label) == pc' = [pc EXCEPT ![p] = label]

\* Back to user space; the memory of the call is the caller's again.
Return(p) ==
  /\ Goto(p, "idle")
  /\ msg' = [w \in Writers |-> IF w = p THEN <<>> ELSE msg[w]]
  /\ size' = [r \in Readers |-> IF r = p THEN 0 ELSE size[r]]
  /\ got' = [r \in Readers |-> IF r = p THEN <<>> ELSE got[r]]

----------------------------------------------------------------------------
(* Common to both directions *)

\* Mutated form: no mutual exclusion.
Lock_Shared(p) ==
  /\ pc[p] = "lock"
  /\ ioctl_lock' = p
  /\ Goto(p, "copy")
  /\ UNCHANGED <<in_buf, out_buf, msg, size, got, last>>

\* mutex_lock_interruptible(&ioctl_lock) ...
Lock(p) ==
  /\ pc[p] = "lock"
  /\ ioctl_lock = NoProc
  /\ ioctl_lock' = p
  /\ Goto(p, "copy")
  /\ UNCHANGED <<in_buf, out_buf, msg, size, got, last>>

\* ... or -EINTR, when a signal arrives while another process holds it.
LockIntr(p) ==
  /\ pc[p] = "lock"
  /\ ioctl_lock # NoProc
  /\ Return(p)
  /\ UNCHANGED <<in_buf, out_buf, ioctl_lock, last>>

\* exit: mutex_unlock and return.
Exit(p) ==
  /\ pc[p] = "exit"
  /\ ioctl_lock' = NoProc
  /\ Return(p)
  /\ UNCHANGED <<in_buf, out_buf, last>>

----------------------------------------------------------------------------
(* _IOC_WRITE *)

WriteEnter(w) ==
  /\ pc[w] = "idle"
  /\ \E n \in 0 .. BufSize : \E m \in [1 .. n -> Byte] :
       msg' = [msg EXCEPT ![w] = m]
  /\ Goto(w, "lock")
  /\ UNCHANGED <<in_buf, out_buf, ioctl_lock, size, got, last>>

\* copy_from_user(drvdata->in_buf, user, _IOC_SIZE(cmnd))
CopyFromUser(w) ==
  /\ pc[w] = "copy"
  /\ in_buf' = Overlay(in_buf, msg[w], Len(msg[w]))
  /\ Goto(w, "memcpy")
  /\ UNCHANGED <<out_buf, ioctl_lock, msg, size, got, last>>

\* Mutated form: return -EFAULT without going through exit.
CopyFromUserFault_KeepsLock(w) ==
  /\ pc[w] = "copy"
  /\ Faults
  /\ \E c \in Slots :
       /\ c <= Len(msg[w])
       /\ in_buf' = Overlay(Overlay(in_buf, Blank, Len(msg[w])), msg[w], c - 1)
  /\ Return(w)
  /\ UNCHANGED <<out_buf, ioctl_lock, last>>

\* The same when byte c of the message is at a bad address: -EFAULT.  The bytes
\* before it have been copied and stay in in_buf; copy_from_user (external) fills
\* the rest of what it was to copy with zeros.
CopyFromUserFault(w) ==
  /\ pc[w] = "copy"
  /\ Faults
  /\ \E c \in Slots :
       /\ c <= Len(msg[w])
       /\ in_buf' = Overlay(Overlay(in_buf, Blank, Len(msg[w])), msg[w], c - 1)
  /\ Goto(w, "exit")
  /\ UNCHANGED <<out_buf, ioctl_lock, msg, size, got, last>>

\* memcpy(drvdata->out_buf, drvdata->in_buf, bufsize)
Memcpy(w) ==
  /\ pc[w] = "memcpy"
  /\ out_buf' = in_buf
  /\ last' = msg[w]
  /\ Goto(w, "memset")
  /\ UNCHANGED <<in_buf, ioctl_lock, msg, size, got>>

\* memset(drvdata->in_buf, 0, bufsize)
Memset(w) ==
  /\ pc[w] = "memset"
  /\ in_buf' = Blank
  /\ Goto(w, "exit")
  /\ UNCHANGED <<out_buf, ioctl_lock, msg, size, got, last>>

----------------------------------------------------------------------------
(* _IOC_READ *)

ReadEnter(r) ==
  /\ pc[r] = "idle"
  /\ \E n \in 0 .. BufSize : size' = [size EXCEPT ![r] = n]
  /\ Goto(r, "lock")
  /\ UNCHANGED <<in_buf, out_buf, ioctl_lock, msg, got, last>>

\* copy_to_user(user, drvdata->out_buf, _IOC_SIZE(cmnd))
CopyToUser(r) ==
  /\ pc[r] = "copy"
  /\ got' = [got EXCEPT ![r] = [i \in 1 .. size[r] |-> out_buf[i]]]
  /\ Goto(r, "clear")
  /\ UNCHANGED <<in_buf, out_buf, ioctl_lock, msg, size, last>>

\* The same when the user memory is bad: -EFAULT.  What arrived in user memory
\* before the bad address is of no use to the caller and is left out; out_buf
\* keeps the message.
CopyToUserFault(r) ==
  /\ pc[r] = "copy"
  /\ Faults /\ size[r] > 0
  /\ Goto(r, "exit")
  /\ UNCHANGED <<in_buf, out_buf, ioctl_lock, msg, size, got, last>>

\* memset(drvdata->out_buf, 0, bufsize)
Clear(r) ==
  /\ pc[r] = "clear"
  /\ out_buf' = Blank
  /\ last' = <<>>
  /\ Goto(r, "exit")
  /\ UNCHANGED <<in_buf, ioctl_lock, msg, size, got>>

----------------------------------------------------------------------------
Call(p) == Lock(p) \/ LockIntr(p) \/ Exit(p)

Write(w) ==
  \/ WriteEnter(w) \/ CopyFromUser(w) \/ CopyFromUserFault(w) \/ Memcpy(w)
  \/ Memset(w)

Read(r) ==
  ReadEnter(r) \/ CopyToUser(r) \/ CopyToUserFault(r) \/ Clear(r)

Next ==
  \/ \E p \in Procs : Call(p)
  \/ \E w \in Writers : Write(w)
  \/ \E r \in Readers : Read(r)

Spec == Init /\ [][Next]_vars

\* A process inside ldt_ioctl keeps running, and the mutex is handed over in
\* the order of arrival.
Fairness ==
  /\ \A p \in Procs : SF_vars(Lock(p)) /\ WF_vars(Exit(p))
  /\ \A w \in Writers :
       WF_vars(\/ CopyFromUser(w) \/ CopyFromUserFault(w) \/ Memcpy(w)
               \/ Memset(w))
  /\ \A r \in Readers :
       WF_vars(CopyToUser(r) \/ CopyToUserFault(r) \/ Clear(r))

FairSpec == Spec /\ Fairness

----------------------------------------------------------------------------
(* What must hold *)

Labels ==
  {"idle", "lock", "copy", "memcpy", "memset", "clear", "exit"}

\* Every variable has its type; no message is longer than the buffers.
TypeOK ==
  /\ in_buf \in [Slots -> Byte] /\ out_buf \in [Slots -> Byte]
  /\ ioctl_lock \in Procs \cup {NoProc}
  /\ pc \in [Procs -> Labels]
  /\ msg \in [Writers -> Seq(Byte)]
  /\ \A w \in Writers : Len(msg[w]) <= BufSize
  /\ size \in [Readers -> 0 .. BufSize]
  /\ got \in [Readers -> Seq(Byte)]
  /\ last \in Seq(Byte) /\ Len(last) <= BufSize

\* A READ that succeeds hands out the message of the last WRITE that succeeded
\* and that no READ has taken, and behind it zeros.  Does not hold when a WRITE
\* may fault.
LoopbackExact ==
  \A r \in Readers :
    pc[r] = "clear" =>
      \A i \in 1 .. size[r] :
        got[r][i] = IF i <= Len(last) THEN last[i] ELSE Zero

\* The box as a caller of ioctl sees it: emptied by a READ that has copied.
Contents == IF \E r \in Readers : pc[r] = "clear" THEN Blank ELSE out_buf

Box == INSTANCE Mailbox WITH box <- Contents, sent <- msg, Exact <- ~Faults

\* The ioctls of concurrent processes are a mailbox: each that succeeds takes
\* effect in one step between its call and its return, each that fails has no
\* effect.  No message is handed out twice or blanked before it was taken.
\* What follows a message in the box is blank as long as no WRITE faults.
ImplementsMailbox == Box!BSpec

\* Every ioctl returns: ioctl_lock is released on every path.
CallsReturn == \A p \in Procs : pc[p] # "idle" ~> pc[p] = "idle"
=============================================================================
