--------------------------- MODULE LdtIoctlProofs ---------------------------
(***************************************************************************)
(* ldt_ioctl implements Mailbox, for any number of processes and any       *)
(* buffer size, with and without faulting copies.                          *)
(***************************************************************************)
EXTENDS LdtIoctl, TLAPS

Inside == {"copy", "memcpy", "memset", "clear", "exit"}

\* Whoever is between mutex_lock and mutex_unlock is the owner.
LockInv == \A p \in Procs : pc[p] \in Inside <=> ioctl_lock = p

\* The directions do not mix.
PlaceInv ==
  /\ \A w \in Writers : pc[w] # "clear"
  /\ \A r \in Readers : pc[r] \notin {"memcpy", "memset"}

\* Buffer b begins with message m.
Holds(b, m) == \A i \in Slots : i <= Len(m) => b[i] = m[i]

\* After copy_from_user in_buf begins with the writer's message.
DataInv == \A w \in Writers : pc[w] = "memcpy" => Holds(in_buf, msg[w])

\* Without faults in_buf is blank whenever nobody is using it.
BlankInv ==
  ~Faults =>
    /\ (\A w \in Writers : pc[w] \notin {"memcpy", "memset"}) => in_buf = Blank
    /\ \A w \in Writers : pc[w] = "memcpy" =>
         in_buf = Overlay(Blank, msg[w], Len(msg[w]))

IInv == TypeOK /\ LockInv /\ PlaceInv /\ DataInv /\ BlankInv

----------------------------------------------------------------------------
\* A fresh device satisfies the invariant: both buffers are blank.
LEMMA InitIInv == Init => IInv
BY IoctlAssumption DEF Init, IInv, TypeOK, LockInv, PlaceInv, DataInv,
   BlankInv, Holds, Blank, Slots, Procs, Labels, Inside

\* Lock keeps the invariant: nobody was inside.
LEMMA LockIInv ==
  ASSUME IInv, NEW p \in Procs, Lock(p)
  PROVE  IInv'
<1> USE IoctlAssumption DEF IInv, Lock, Goto, Procs
<1>1. TypeOK'
  BY DEF TypeOK, Labels, Slots, Overlay, Blank
<1>2. LockInv'
  BY DEF TypeOK, LockInv, Inside
<1>3. PlaceInv'
  BY DEF TypeOK, PlaceInv
<1>4. DataInv'
  BY DEF TypeOK, LockInv, PlaceInv, Inside, DataInv, Holds, Slots, Overlay,
         Blank
<1>5. BlankInv'
  BY DEF TypeOK, LockInv, PlaceInv, Inside, BlankInv, Slots, Overlay, Blank
<1> QED
  BY <1>1, <1>2, <1>3, <1>4, <1>5

\* LockIntr keeps the invariant: the process never became the owner.
LEMMA LockIntrIInv ==
  ASSUME IInv, NEW p \in Procs, LockIntr(p)
  PROVE  IInv'
<1> USE IoctlAssumption DEF IInv, LockIntr, Return, Goto, Procs
<1>1. TypeOK'
  BY DEF TypeOK, Labels, Slots, Overlay, Blank
<1>2. LockInv'
  BY DEF TypeOK, LockInv, Inside
<1>3. PlaceInv'
  BY DEF TypeOK, PlaceInv
<1>4. DataInv'
  BY DEF TypeOK, LockInv, PlaceInv, Inside, DataInv, Holds, Slots, Overlay,
         Blank
<1>5. BlankInv'
  BY DEF TypeOK, LockInv, PlaceInv, Inside, BlankInv, Slots, Overlay, Blank
<1> QED
  BY <1>1, <1>2, <1>3, <1>4, <1>5

\* Exit keeps the invariant: the owner was the only one inside.
LEMMA ExitIInv ==
  ASSUME IInv, NEW p \in Procs, Exit(p)
  PROVE  IInv'
<1> USE IoctlAssumption DEF IInv, Exit, Return, Goto, Procs
<1>1. TypeOK'
  BY DEF TypeOK, Labels, Slots, Overlay, Blank
<1>2. LockInv'
  BY DEF TypeOK, LockInv, Inside
<1>3. PlaceInv'
  BY DEF TypeOK, PlaceInv
<1>4. DataInv'
  BY DEF TypeOK, LockInv, PlaceInv, Inside, DataInv, Holds, Slots, Overlay,
         Blank
<1>5. BlankInv'
  BY DEF TypeOK, LockInv, PlaceInv, Inside, BlankInv, Slots, Overlay, Blank
<1> QED
  BY <1>1, <1>2, <1>3, <1>4, <1>5

\* WriteEnter keeps the invariant.
LEMMA WriteEnterIInv ==
  ASSUME IInv, NEW w \in Writers, WriteEnter(w)
  PROVE  IInv'
<1> USE IoctlAssumption DEF IInv, WriteEnter, Goto, Procs
<1>1. TypeOK'
  BY DEF TypeOK, Labels, Slots, Overlay, Blank
<1>2. LockInv'
  BY DEF TypeOK, LockInv, Inside
<1>3. PlaceInv'
  BY DEF TypeOK, PlaceInv
<1>4. DataInv'
  BY DEF TypeOK, LockInv, PlaceInv, Inside, DataInv, Holds, Slots, Overlay,
         Blank
<1>5. BlankInv'
  BY DEF TypeOK, LockInv, PlaceInv, Inside, BlankInv, Slots, Overlay, Blank
<1> QED
  BY <1>1, <1>2, <1>3, <1>4, <1>5

\* CopyFromUser keeps the invariant: in_buf now begins with the message.
LEMMA CopyFromUserIInv ==
  ASSUME IInv, NEW w \in Writers, CopyFromUser(w)
  PROVE  IInv'
<1> USE IoctlAssumption DEF IInv, CopyFromUser, Goto, Procs
<1>1. TypeOK'
  BY DEF TypeOK, Labels, Slots, Overlay, Blank
<1>2. LockInv'
  BY DEF TypeOK, LockInv, Inside
<1>3. PlaceInv'
  BY DEF TypeOK, PlaceInv
<1>4. DataInv'
  BY DEF TypeOK, LockInv, PlaceInv, Inside, DataInv, Holds, Slots, Overlay,
         Blank
<1>5. BlankInv'
  BY DEF TypeOK, LockInv, PlaceInv, Inside, BlankInv, Slots, Overlay, Blank
<1> QED
  BY <1>1, <1>2, <1>3, <1>4, <1>5

\* CopyFromUserFault keeps the invariant: in_buf is not looked at until the
\* next copy_from_user.
LEMMA CopyFromUserFaultIInv ==
  ASSUME IInv, NEW w \in Writers, CopyFromUserFault(w)
  PROVE  IInv'
<1> USE IoctlAssumption DEF IInv, CopyFromUserFault, Goto, Procs
<1>1. TypeOK'
  BY DEF TypeOK, Labels, Slots, Overlay, Blank
<1>2. LockInv'
  BY DEF TypeOK, LockInv, Inside
<1>3. PlaceInv'
  BY DEF TypeOK, PlaceInv
<1>4. DataInv'
  BY DEF TypeOK, LockInv, PlaceInv, Inside, DataInv, Holds, Slots, Overlay,
         Blank
<1>5. BlankInv'
  BY DEF TypeOK, LockInv, PlaceInv, Inside, BlankInv, Slots, Overlay, Blank
<1> QED
  BY <1>1, <1>2, <1>3, <1>4, <1>5

\* Memcpy keeps the invariant: in_buf is only read.
LEMMA MemcpyIInv ==
  ASSUME IInv, NEW w \in Writers, Memcpy(w)
  PROVE  IInv'
<1> USE IoctlAssumption DEF IInv, Memcpy, Goto, Procs
<1>1. TypeOK'
  BY DEF TypeOK, Labels, Slots, Overlay, Blank
<1>2. LockInv'
  BY DEF TypeOK, LockInv, Inside
<1>3. PlaceInv'
  BY DEF TypeOK, PlaceInv
<1>4. DataInv'
  BY DEF TypeOK, LockInv, PlaceInv, Inside, DataInv, Holds, Slots, Overlay,
         Blank
<1>5. BlankInv'
  BY DEF TypeOK, LockInv, PlaceInv, Inside, BlankInv, Slots, Overlay, Blank
<1> QED
  BY <1>1, <1>2, <1>3, <1>4, <1>5

\* Memset keeps the invariant.
LEMMA MemsetIInv ==
  ASSUME IInv, NEW w \in Writers, Memset(w)
  PROVE  IInv'
<1> USE IoctlAssumption DEF IInv, Memset, Goto, Procs
<1>1. TypeOK'
  BY DEF TypeOK, Labels, Slots, Overlay, Blank
<1>2. LockInv'
  BY DEF TypeOK, LockInv, Inside
<1>3. PlaceInv'
  BY DEF TypeOK, PlaceInv
<1>4. DataInv'
  BY DEF TypeOK, LockInv, PlaceInv, Inside, DataInv, Holds, Slots, Overlay,
         Blank
<1>5. BlankInv'
  BY DEF TypeOK, LockInv, PlaceInv, Inside, BlankInv, Slots, Overlay, Blank
<1> QED
  BY <1>1, <1>2, <1>3, <1>4, <1>5

\* ReadEnter keeps the invariant.
LEMMA ReadEnterIInv ==
  ASSUME IInv, NEW r \in Readers, ReadEnter(r)
  PROVE  IInv'
<1> USE IoctlAssumption DEF IInv, ReadEnter, Goto, Procs
<1>1. TypeOK'
  BY DEF TypeOK, Labels, Slots, Overlay, Blank
<1>2. LockInv'
  BY DEF TypeOK, LockInv, Inside
<1>3. PlaceInv'
  BY DEF TypeOK, PlaceInv
<1>4. DataInv'
  BY DEF TypeOK, LockInv, PlaceInv, Inside, DataInv, Holds, Slots, Overlay,
         Blank
<1>5. BlankInv'
  BY DEF TypeOK, LockInv, PlaceInv, Inside, BlankInv, Slots, Overlay, Blank
<1> QED
  BY <1>1, <1>2, <1>3, <1>4, <1>5

\* CopyToUser keeps the invariant: the user memory gets bytes.
LEMMA CopyToUserIInv ==
  ASSUME IInv, NEW r \in Readers, CopyToUser(r)
  PROVE  IInv'
<1> USE IoctlAssumption DEF IInv, CopyToUser, Goto, Procs
<1>1. TypeOK'
  <2>1. size[r] \in Nat /\ \A i \in 1 .. size[r] : out_buf[i] \in Byte
    BY DEF TypeOK, Slots
  <2>2. [i \in 1 .. size[r] |-> out_buf[i]] \in Seq(Byte)
    BY <2>1
  <2>3. got' \in [Readers -> Seq(Byte)]
    BY <2>2 DEF TypeOK
  <2> QED
    BY <2>3 DEF TypeOK, Labels
<1>2. LockInv'
  BY DEF TypeOK, LockInv, Inside
<1>3. PlaceInv'
  BY DEF TypeOK, PlaceInv
<1>4. DataInv'
  BY DEF TypeOK, LockInv, PlaceInv, Inside, DataInv, Holds, Slots, Overlay,
         Blank
<1>5. BlankInv'
  BY DEF TypeOK, LockInv, PlaceInv, Inside, BlankInv, Slots, Overlay, Blank
<1> QED
  BY <1>1, <1>2, <1>3, <1>4, <1>5

\* CopyToUserFault keeps the invariant.
LEMMA CopyToUserFaultIInv ==
  ASSUME IInv, NEW r \in Readers, CopyToUserFault(r)
  PROVE  IInv'
<1> USE IoctlAssumption DEF IInv, CopyToUserFault, Goto, Procs
<1>1. TypeOK'
  BY DEF TypeOK, Labels, Slots, Overlay, Blank
<1>2. LockInv'
  BY DEF TypeOK, LockInv, Inside
<1>3. PlaceInv'
  BY DEF TypeOK, PlaceInv
<1>4. DataInv'
  BY DEF TypeOK, LockInv, PlaceInv, Inside, DataInv, Holds, Slots, Overlay,
         Blank
<1>5. BlankInv'
  BY DEF TypeOK, LockInv, PlaceInv, Inside, BlankInv, Slots, Overlay, Blank
<1> QED
  BY <1>1, <1>2, <1>3, <1>4, <1>5

\* Clear keeps the invariant: in_buf is not touched.
LEMMA ClearIInv ==
  ASSUME IInv, NEW r \in Readers, Clear(r)
  PROVE  IInv'
<1> USE IoctlAssumption DEF IInv, Clear, Goto, Procs
<1>1. TypeOK'
  BY DEF TypeOK, Labels, Slots, Overlay, Blank
<1>2. LockInv'
  BY DEF TypeOK, LockInv, Inside
<1>3. PlaceInv'
  BY DEF TypeOK, PlaceInv
<1>4. DataInv'
  BY DEF TypeOK, LockInv, PlaceInv, Inside, DataInv, Holds, Slots, Overlay,
         Blank
<1>5. BlankInv'
  BY DEF TypeOK, LockInv, PlaceInv, Inside, BlankInv, Slots, Overlay, Blank
<1> QED
  BY <1>1, <1>2, <1>3, <1>4, <1>5

\* A step of no process keeps the invariant.
LEMMA StutterIInv == IInv /\ UNCHANGED vars => IInv'
BY DEF vars, IInv, TypeOK, LockInv, PlaceInv, DataInv, BlankInv, Holds, Procs

----------------------------------------------------------------------------
\* The invariant holds throughout: ioctl_lock excludes, so no call of another
\* process comes between the copies of one call.
THEOREM Invariance == Spec => []IInv
<1>1. Init => IInv
  BY InitIInv
<1>2. IInv /\ [Next]_vars => IInv'
  BY LockIInv, LockIntrIInv, ExitIInv, WriteEnterIInv, CopyFromUserIInv,
     CopyFromUserFaultIInv, MemcpyIInv, MemsetIInv, ReadEnterIInv,
     CopyToUserIInv, CopyToUserFaultIInv, ClearIInv, StutterIInv
     DEF Next, Call, Write, Read
<1> QED
  BY <1>1, <1>2, PTL DEF Spec

----------------------------------------------------------------------------
\* ldt_ioctl implements the mailbox, an exact one when user addresses are good:
\* the WRITE takes effect at the memcpy, the READ at the copy_to_user, and all
\* other steps leave the box alone.
THEOREM MailboxRefined == Spec => ImplementsMailbox
<1>1. Init => Box!BInit
  BY DEF Init, Contents, Box!BInit, Box!Blank, Blank, Slots, Procs
<1>2. ASSUME IInv, IInv', [Next]_vars
      PROVE  [Box!BNext]_<<Contents, msg, got>>
  <2> USE IoctlAssumption DEF IInv, Goto, Procs
  <2>1. ASSUME NEW w \in Writers, Memcpy(w)
        PROVE  Box!Put(w)
    <3>1. \A r \in Readers : pc[r] # "clear" /\ pc'[r] # "clear"
      BY <1>2, <2>1 DEF Memcpy, LockInv, Inside, TypeOK
    <3>2. /\ out_buf' \in [Slots -> Byte]
          /\ \A i \in Slots :
               IF i <= Len(msg[w]) THEN out_buf'[i] = msg[w][i]
                                   ELSE ~Faults => out_buf'[i] = Zero
      BY <1>2, <2>1
         DEF Memcpy, TypeOK, DataInv, Holds, BlankInv, Overlay, Blank, Slots
    <3>3. Contents' = out_buf'
      BY <3>1 DEF Contents
    <3> QED
      BY <2>1, <3>2, <3>3 DEF Memcpy, Box!Put, Slots
  <2>2. ASSUME NEW r \in Readers, CopyToUser(r)
        PROVE  Box!Get(r)
    <3>1. \A q \in Readers : pc[q] # "clear"
      BY <1>2, <2>2 DEF CopyToUser, LockInv, Inside, TypeOK
    <3>2. pc'[r] = "clear"
      BY <1>2, <2>2 DEF CopyToUser, TypeOK
    <3>3. Contents = out_buf /\ Contents' = Box!Blank
      BY <3>1, <3>2 DEF Contents, Blank, Box!Blank, Slots
    <3>4. size[r] \in 0 .. BufSize
      BY <1>2 DEF TypeOK
    <3> QED
      BY <2>2, <3>3, <3>4 DEF CopyToUser, Box!Get
  <2>3. ASSUME NEW r \in Readers, Clear(r)
        PROVE  UNCHANGED <<Contents, msg, got>>
    <3>1. Contents = Blank
      BY <2>3 DEF Clear, Contents
    <3>2. out_buf' = Blank
      BY <2>3 DEF Clear
    <3>3. Contents' = Blank
      BY <3>2 DEF Contents, Blank
    <3> QED
      BY <2>3, <3>1, <3>3 DEF Clear
  <2>4. ASSUME NEW w \in Writers, WriteEnter(w)
        PROVE  Box!Ask(w)
    <3>1. \A r \in Readers : pc'[r] = "clear" <=> pc[r] = "clear"
      BY <1>2, <2>4 DEF WriteEnter, TypeOK
    <3>2. Contents' = Contents
      BY <2>4, <3>1 DEF WriteEnter, Contents, Blank
    <3> QED
      BY <2>4, <3>2 DEF WriteEnter, Box!Ask
  <2>5. ASSUME NEW p \in Procs, LockIntr(p) \/ Exit(p)
        PROVE  IF p \in Writers THEN Box!Ask(p) ELSE Box!Done(p)
    <3>1. Return(p) /\ UNCHANGED out_buf /\ pc[p] # "clear"
      BY <2>5 DEF LockIntr, Exit
    <3>2. \A r \in Readers : pc'[r] = "clear" <=> pc[r] = "clear"
      BY <1>2, <3>1 DEF Return, TypeOK
    <3>3. Contents' = Contents
      BY <3>1, <3>2 DEF Contents, Blank
    <3>4. CASE p \in Writers
      <4>1. msg' = [msg EXCEPT ![p] = <<>>] /\ got' = got
        <5>1. p \notin Readers
          BY <3>4
        <5>2. /\ msg = [v \in Writers |-> msg[v]]
              /\ got = [r \in Readers |-> got[r]]
          BY <1>2 DEF TypeOK
        <5>3. msg' = [msg EXCEPT ![p] = <<>>]
          BY <3>1, <5>2 DEF Return
        <5>4. got' = [r \in Readers |-> got[r]]
          BY <3>1, <5>1 DEF Return
        <5> QED
          BY <5>2, <5>3, <5>4
      <4>2. <<>> \in [1 .. 0 -> Byte] /\ 0 \in 0 .. BufSize
        OBVIOUS
      <4> QED
        BY <3>3, <3>4, <4>1, <4>2 DEF Box!Ask
    <3>5. CASE p \in Readers
      <4>1. got' = [got EXCEPT ![p] = <<>>] /\ msg' = msg
        <5>1. p \notin Writers
          BY <3>5
        <5>2. /\ got = [r \in Readers |-> got[r]]
              /\ msg = [w \in Writers |-> msg[w]]
          BY <1>2 DEF TypeOK
        <5>3. got' = [got EXCEPT ![p] = <<>>]
          BY <3>1, <5>2 DEF Return
        <5>4. msg' = [w \in Writers |-> msg[w]]
          BY <3>1, <5>1 DEF Return
        <5> QED
          BY <5>2, <5>3, <5>4
      <4> QED
        BY <3>3, <3>5, <4>1 DEF Box!Done
    <3> QED
      BY <3>4, <3>5
  <2>6. ASSUME NEW p \in Procs,
               \/ Lock(p)
               \/ /\ p \in Writers
                  /\ CopyFromUser(p) \/ CopyFromUserFault(p) \/ Memset(p)
               \/ p \in Readers /\ (ReadEnter(p) \/ CopyToUserFault(p))
        PROVE  UNCHANGED <<Contents, msg, got>>
    <3>1. \A r \in Readers : pc'[r] = "clear" <=> pc[r] = "clear"
      BY <1>2, <2>6
         DEF Lock, CopyFromUser, CopyFromUserFault, Memset, ReadEnter,
             CopyToUserFault, TypeOK
    <3>2. UNCHANGED <<out_buf, msg, got>>
      BY <2>6 DEF Lock, CopyFromUser, CopyFromUserFault, Memset, ReadEnter,
                  CopyToUserFault
    <3> QED
      BY <3>1, <3>2 DEF Contents, Blank
  <2>7. CASE UNCHANGED vars
    BY <2>7 DEF vars, Contents, Blank
  <2> QED
    BY <1>2, <2>1, <2>2, <2>3, <2>4, <2>5, <2>6, <2>7
       DEF Next, Call, Write, Read, Box!BNext
<1> QED
  BY <1>1, <1>2, Invariance, PTL DEF Spec, ImplementsMailbox, Box!BSpec
----------------------------------------------------------------------------
(* Without faults the loopback is exact *)

\* Byte i of what a READ hands out after the last WRITE that came through: the
\* message, and zeros behind it.
Expected(i) == IF i <= Len(last) THEN last[i] ELSE Zero

\* out_buf is the last message and zeros; a READ that has copied and not yet
\* blanked out_buf has what is in it.
ExactInv ==
  /\ \A i \in Slots : out_buf[i] = Expected(i)
  /\ \A r \in Readers :
       pc[r] = "clear" => \A i \in 1 .. size[r] : got[r][i] = out_buf[i]

\* A step that leaves out_buf alone, and the reader in "clear" with its memory,
\* keeps the loopback exact.
LEMMA ExactKept ==
  ASSUME ExactInv, UNCHANGED <<out_buf, last>>,
         \A r \in Readers : pc'[r] = "clear" =>
           pc[r] = "clear" /\ size'[r] = size[r] /\ got'[r] = got[r]
  PROVE  ExactInv'
BY DEF ExactInv, Expected, Slots

\* The steps that touch neither out_buf nor a reader in "clear".
LEMMA ExactBeside ==
  ASSUME IInv, ExactInv,
         \/ \E p \in Procs : Call(p)
         \/ \E w \in Writers :
              WriteEnter(w) \/ CopyFromUser(w) \/ CopyFromUserFault(w)
              \/ Memset(w)
         \/ \E r \in Readers : ReadEnter(r) \/ CopyToUserFault(r)
  PROVE  ExactInv'
<1> USE IoctlAssumption DEF IInv, TypeOK, Procs, Goto
<1>1. ASSUME NEW p \in Procs, Call(p)
      PROVE  ExactInv'
  <2>1. CASE Lock(p)
    BY <2>1, ExactKept DEF Lock
  <2>2. CASE LockIntr(p) \/ Exit(p)
    <3>1. Return(p) /\ pc[p] # "clear" /\ UNCHANGED <<out_buf, last>>
      BY <2>2 DEF LockIntr, Exit
    <3>2. ASSUME NEW r \in Readers, pc'[r] = "clear"
          PROVE  pc[r] = "clear" /\ size'[r] = size[r] /\ got'[r] = got[r]
      <4>1. r # p
        BY <3>1, <3>2 DEF Return
      <4> QED
        BY <3>1, <3>2, <4>1 DEF Return
    <3> QED
      BY <3>1, <3>2, ExactKept
  <2> QED
    BY <1>1, <2>1, <2>2 DEF Call
<1>2. ASSUME NEW w \in Writers,
             \/ WriteEnter(w) \/ CopyFromUser(w) \/ CopyFromUserFault(w)
             \/ Memset(w)
      PROVE  ExactInv'
  <2>1. UNCHANGED <<out_buf, last, size, got>>
    BY <1>2 DEF WriteEnter, CopyFromUser, CopyFromUserFault, Memset
  <2>2. \A r \in Readers : pc'[r] = pc[r]
    BY <1>2 DEF WriteEnter, CopyFromUser, CopyFromUserFault, Memset
  <2> QED
    BY <2>1, <2>2, ExactKept
<1>3. ASSUME NEW r \in Readers, ReadEnter(r) \/ CopyToUserFault(r)
      PROVE  ExactInv'
  <2>1. UNCHANGED <<out_buf, last, got>>
    BY <1>3 DEF ReadEnter, CopyToUserFault
  <2>2. \A q \in Readers :
          pc'[q] = "clear" => pc[q] = "clear" /\ size'[q] = size[q]
    BY <1>3 DEF ReadEnter, CopyToUserFault
  <2> QED
    BY <2>1, <2>2, ExactKept
<1> QED
  BY <1>1, <1>2, <1>3

\* The memcpy of a WRITE: in_buf was blank before copy_from_user, so what
\* arrives in out_buf is the message and zeros; no reader is in "clear".
LEMMA ExactMemcpy ==
  ASSUME IInv, ExactInv, ~Faults, NEW w \in Writers, Memcpy(w)
  PROVE  ExactInv'
<1> USE IoctlAssumption DEF IInv, Memcpy, Goto, Procs
<1>1. in_buf = Overlay(Blank, msg[w], Len(msg[w]))
  BY DEF BlankInv
<1>2. \A i \in Slots : out_buf'[i] = Expected(i)'
  BY <1>1 DEF Overlay, Blank, Expected
<1>3. \A r \in Readers : pc'[r] # "clear"
  BY DEF LockInv, Inside, TypeOK
<1> QED
  BY <1>2, <1>3 DEF ExactInv

\* The copy_to_user of a READ: the reader now has what is in out_buf.
LEMMA ExactCopyToUser ==
  ASSUME IInv, ExactInv, NEW r \in Readers, CopyToUser(r)
  PROVE  ExactInv'
<1> USE IoctlAssumption DEF IInv, CopyToUser, Goto, Procs
<1>1. \A i \in Slots : out_buf'[i] = Expected(i)'
  BY DEF ExactInv, Expected
<1>2. ASSUME NEW q \in Readers, pc'[q] = "clear", NEW i \in 1 .. size'[q]
      PROVE  got'[q][i] = out_buf'[i]
  <2>1. q = r
    BY <1>2 DEF LockInv, Inside, TypeOK
  <2> QED
    BY <2>1 DEF TypeOK
<1> QED
  BY <1>1, <1>2 DEF ExactInv

\* The memset of a READ: out_buf is blank and no message is left to hand out.
LEMMA ExactClear ==
  ASSUME IInv, ExactInv, NEW r \in Readers, Clear(r)
  PROVE  ExactInv'
<1> USE IoctlAssumption DEF IInv, Clear, Goto, Procs
<1>1. \A i \in Slots : out_buf'[i] = Expected(i)'
  BY DEF Expected, Blank, Slots
<1>2. \A q \in Readers : pc'[q] # "clear"
  BY DEF LockInv, Inside, TypeOK
<1> QED
  BY <1>1, <1>2 DEF ExactInv

\* As long as user addresses are good, a READ that succeeds hands out exactly
\* the message of the last WRITE that no READ has taken, and zeros behind it:
\* the memset of in_buf after each WRITE is enough.  It is the WRITE that
\* stops at a bad address that breaks this.
THEOREM ExactLoopback ==
  ASSUME ~Faults
  PROVE  Spec => []LoopbackExact
<1>1. Init => ExactInv
  BY DEF Init, ExactInv, Expected, Blank, Slots, Procs
<1>2. ASSUME IInv, ExactInv, [Next]_vars
      PROVE  ExactInv'
  <2>1. CASE UNCHANGED vars
    BY <1>2, <2>1, ExactKept DEF vars
  <2> QED
    BY <1>2, <2>1, ExactBeside, ExactMemcpy, ExactCopyToUser, ExactClear
       DEF Next, Write, Read
<1>3. IInv /\ ExactInv => LoopbackExact
  BY IoctlAssumption DEF IInv, TypeOK, ExactInv, Expected, LoopbackExact, Slots
<1> QED
  BY <1>1, <1>2, <1>3, Invariance, PTL DEF Spec
=============================================================================
