------------------------- MODULE CdataWriteProofs -------------------------
(***************************************************************************)
(* The safety properties of CdataWrite for every set of writers, every     *)
(* buffer size and every number of writes.                                 *)
(***************************************************************************)
EXTENDS CdataWrite, TLAPS

\* Which version is where: the labels only one version has, who may be linked
\* into the wait queue, and that lab14 has a byte to put after its sleep.
Places ==
  /\ linked => lab = "conrr"
  /\ ~open => \A w \in Writers : pc[w] = "idle"
  /\ \A w \in Writers :
       /\ pc[w] \in {"put", "ioctl"} => lab = "lab14"
       /\ pc[w] = "state" => lab = "conrr"
       /\ lab = "lab14" /\ pc[w] \in {"arm", "join", "sleep", "put"} => left[w] > 0
       /\ w \in wq => pc[w] \in CASE lab = "conrr" -> {"copy", "sleep"}
                                  [] lab = "lab14" -> {"sleep"}
                                  [] lab = "lab15" -> {"sleep", "join", "arm"}

\* A writer between the start of the flush and the queue, and a sleeper.
Wakeups ==
  \A w \in Writers :
    /\ lab # "lab15" /\ pc[w] \in {"state", "join"} =>
         pending \/ flush = "wake" \/ early
    /\ lab = "lab15" /\ pc[w] = "arm" /\ w \in asleep => w \in wq
    /\ pc[w] = "sleep" /\ w \in asleep =>
         \/ w \in wq /\ (pending \/ flush = "wake")
         \/ early /\ lab # "lab15"

\* In lab15 the index is inside the buffer whenever a byte may be put.
Bounded ==
  lab = "lab15" => /\ "write" \notin oob /\ index < BufSize
                   /\ \A w \in Writers : pc[w] = "copy" => idx[w] < BufSize

\* The writer for whose sake the flush is under way.
Waits(w) ==
  \/ pc[w] = "sleep" /\ w \in asleep
  \/ pc[w] = "join" /\ lab = "lab14"

\* One thread at a time and no signals, in a version that frees its structure.
Quiet == ~disturbed /\ lab # "conrr"

\* Then the flush is under way only for a writer that waits for it.
Alone ==
  Quiet =>
    /\ ~uaf
    /\ lab = "lab14" => "write" \notin oob
    /\ \A v, w \in Writers : pc[v] # "idle" /\ pc[w] # "idle" => v = w
    /\ pending \/ flush = "wake" => \E w \in Writers : Waits(w)
    /\ ~(pending /\ flush = "wake")
    /\ flush = "wake" => index = 0
    /\ \A w \in Writers :
         /\ pc[w] = "sleep" /\ w \notin asleep => index = 0
         /\ lab = "lab15" /\ pc[w] = "arm" => w \in asleep
         /\ pc[w] = "put" => idx[w] = 0

Inv == TypeOK /\ Places /\ Wakeups /\ Bounded /\ Alone

----------------------------------------------------------------------------
(* One lemma for each part of the invariant, one step for each action *)

\* Every step keeps the types.
LEMMA TypeNext ==
  ASSUME TypeOK, Places, [Next]_vars
  PROVE  TypeOK'
<1>1. ASSUME NEW w \in Writers, NEW k \in 1..MaxWrite, Write(w, k) PROVE TypeOK'
  BY <1>1, CdataAssumption DEF Write, Goto, TypeOK, Places, local, faults, history
<1>2. ASSUME NEW w \in Writers, Copy(w) PROVE TypeOK'
  BY <1>2, CdataAssumption
  DEF Copy, Put, Full, Goto, TypeOK, Places, local, faults, history
<1>3. ASSUME NEW w \in Writers, FindFull(w) PROVE TypeOK'
  BY <1>3, CdataAssumption
  DEF FindFull, Full, Goto, TypeOK, Places, local, faults, history
<1>4. ASSUME NEW w \in Writers, Arm(w) PROVE TypeOK'
  BY <1>4, CdataAssumption DEF Arm, Goto, TypeOK, Places, local, faults, history
<1>5. ASSUME NEW w \in Writers, SetState(w) PROVE TypeOK'
  BY <1>5, CdataAssumption
  DEF SetState, Goto, TypeOK, Places, local, faults, history
<1>6. ASSUME NEW w \in Writers, Join(w) PROVE TypeOK'
  BY <1>6, CdataAssumption
  DEF Join, AfterJoin, Goto, TypeOK, Places, local, faults, history
<1>7. ASSUME NEW w \in Writers, Awake(w) PROVE TypeOK'
  BY <1>7, CdataAssumption
  DEF Awake, Again, Returned, Goto, TypeOK, Places, local, faults, history
<1>8. ASSUME NEW w \in Writers, PutAfterSleep(w) PROVE TypeOK'
  BY <1>8, CdataAssumption
  DEF PutAfterSleep, Put, Goto, TypeOK, Places, local, faults, history
<1>9. ASSUME NEW w \in Writers, End(w) PROVE TypeOK'
  BY <1>9, CdataAssumption
  DEF End, Full, Goto, TypeOK, Places, local, faults, history
<1>10. ASSUME NEW w \in Writers, Signal(w) PROVE TypeOK'
  BY <1>10, CdataAssumption DEF Signal, Goto, TypeOK, Places, local, faults, history
<1>11. ASSUME NEW w \in Writers, IoctlBegin(w) PROVE TypeOK'
  BY <1>11, CdataAssumption
  DEF IoctlBegin, Goto, TypeOK, Places, local, faults, history
<1>12. ASSUME NEW w \in Writers, IoctlPut(w) PROVE TypeOK'
  BY <1>12, CdataAssumption
  DEF IoctlPut, Goto, TypeOK, Places, local, faults, history
<1>13. ASSUME FlushBegin PROVE TypeOK'
  BY <1>13, CdataAssumption DEF FlushBegin, TypeOK, Places, local, faults, history
<1>14. ASSUME FlushWake PROVE TypeOK'
  BY <1>14, CdataAssumption DEF FlushWake, TypeOK, Places, local, faults, history
<1>15. ASSUME Release PROVE TypeOK'
  BY <1>15, CdataAssumption DEF Release, TypeOK, Places, local, faults, history
<1>16. CASE UNCHANGED vars
  BY <1>16 DEF vars, TypeOK, Places, local, faults, history
<1>17. QED
  BY <1>1, <1>2, <1>3, <1>4, <1>5, <1>6, <1>7, <1>8, <1>9, <1>10, <1>11, <1>12,
     <1>13, <1>14, <1>15, <1>16 DEF Next, Step

\* Every step keeps writers and queue in their places.
LEMMA PlacesNext ==
  ASSUME TypeOK, Places, [Next]_vars
  PROVE  Places'
<1>1. ASSUME NEW w \in Writers, NEW k \in 1..MaxWrite, Write(w, k) PROVE Places'
  BY <1>1 DEF Write, Goto, TypeOK, Places, local, faults, history
<1>2. ASSUME NEW w \in Writers, Copy(w) PROVE Places'
  BY <1>2 DEF Copy, Put, Full, Goto, TypeOK, Places, local, faults, history
<1>3. ASSUME NEW w \in Writers, FindFull(w) PROVE Places'
  BY <1>3 DEF FindFull, Full, Goto, TypeOK, Places, local, faults, history
<1>4. ASSUME NEW w \in Writers, Arm(w) PROVE Places'
  BY <1>4 DEF Arm, Goto, TypeOK, Places, local, faults, history
<1>5. ASSUME NEW w \in Writers, SetState(w) PROVE Places'
  BY <1>5 DEF SetState, Goto, TypeOK, Places, local, faults, history
<1>6. ASSUME NEW w \in Writers, Join(w) PROVE Places'
  BY <1>6 DEF Join, AfterJoin, Goto, TypeOK, Places, local, faults, history
<1>7. ASSUME NEW w \in Writers, Awake(w) PROVE Places'
  BY <1>7 DEF Awake, Again, Returned, Goto, TypeOK, Places, local, faults, history
<1>8. ASSUME NEW w \in Writers, PutAfterSleep(w) PROVE Places'
  BY <1>8 DEF PutAfterSleep, Put, Goto, TypeOK, Places, local, faults, history
<1>9. ASSUME NEW w \in Writers, End(w) PROVE Places'
  BY <1>9 DEF End, Full, Goto, TypeOK, Places, local, faults, history
<1>10. ASSUME NEW w \in Writers, Signal(w) PROVE Places'
  BY <1>10 DEF Signal, Goto, TypeOK, Places, local, faults, history
<1>11. ASSUME NEW w \in Writers, IoctlBegin(w) PROVE Places'
  BY <1>11 DEF IoctlBegin, Goto, TypeOK, Places, local, faults, history
<1>12. ASSUME NEW w \in Writers, IoctlPut(w) PROVE Places'
  BY <1>12 DEF IoctlPut, Goto, TypeOK, Places, local, faults, history
<1>13. ASSUME FlushBegin PROVE Places'
  BY <1>13 DEF FlushBegin, TypeOK, Places, local, faults, history
<1>14. ASSUME FlushWake PROVE Places'
  BY <1>14 DEF FlushWake, TypeOK, Places, local, faults, history
<1>15. ASSUME Release PROVE Places'
  BY <1>15 DEF Release, TypeOK, Places, local, faults, history
<1>16. CASE UNCHANGED vars
  BY <1>16 DEF vars, TypeOK, Places, local, faults, history
<1>17. QED
  BY <1>1, <1>2, <1>3, <1>4, <1>5, <1>6, <1>7, <1>8, <1>9, <1>10, <1>11, <1>12,
     <1>13, <1>14, <1>15, <1>16 DEF Next, Step

\* No step loses a wake-up.
LEMMA WakeupsNext ==
  ASSUME TypeOK, Places, Wakeups, [Next]_vars
  PROVE  Wakeups'
<1>1. ASSUME NEW w \in Writers, NEW k \in 1..MaxWrite, Write(w, k) PROVE Wakeups'
  BY <1>1 DEF Write, Goto, TypeOK, Places, Wakeups, local, faults, history
<1>2. ASSUME NEW w \in Writers, Copy(w) PROVE Wakeups'
  BY <1>2 DEF Copy, Put, Full, Goto, TypeOK, Places, Wakeups, local, faults, history
<1>3. ASSUME NEW w \in Writers, FindFull(w) PROVE Wakeups'
  BY <1>3 DEF FindFull, Full, Goto, TypeOK, Places, Wakeups, local, faults, history
<1>4. ASSUME NEW w \in Writers, Arm(w) PROVE Wakeups'
  BY <1>4 DEF Arm, Goto, TypeOK, Places, Wakeups, local, faults, history
<1>5. ASSUME NEW w \in Writers, SetState(w) PROVE Wakeups'
  BY <1>5 DEF SetState, Goto, TypeOK, Places, Wakeups, local, faults, history
<1>6. ASSUME NEW w \in Writers, Join(w) PROVE Wakeups'
  BY <1>6 DEF Join, AfterJoin, Goto, TypeOK, Places, Wakeups, local, faults, history
<1>7. ASSUME NEW w \in Writers, Awake(w) PROVE Wakeups'
  BY <1>7
  DEF Awake, Again, Returned, Goto, TypeOK, Places, Wakeups, local, faults, history
<1>8. ASSUME NEW w \in Writers, PutAfterSleep(w) PROVE Wakeups'
  BY <1>8
  DEF PutAfterSleep, Put, Goto, TypeOK, Places, Wakeups, local, faults, history
<1>9. ASSUME NEW w \in Writers, End(w) PROVE Wakeups'
  BY <1>9 DEF End, Full, Goto, TypeOK, Places, Wakeups, local, faults, history
<1>10. ASSUME NEW w \in Writers, Signal(w) PROVE Wakeups'
  BY <1>10 DEF Signal, Goto, TypeOK, Places, Wakeups, local, faults, history
<1>11. ASSUME NEW w \in Writers, IoctlBegin(w) PROVE Wakeups'
  BY <1>11 DEF IoctlBegin, Goto, TypeOK, Places, Wakeups, local, faults, history
<1>12. ASSUME NEW w \in Writers, IoctlPut(w) PROVE Wakeups'
  BY <1>12 DEF IoctlPut, Goto, TypeOK, Places, Wakeups, local, faults, history
<1>13. ASSUME FlushBegin PROVE Wakeups'
  BY <1>13 DEF FlushBegin, TypeOK, Places, Wakeups, local, faults, history
<1>14. ASSUME FlushWake PROVE Wakeups'
  BY <1>14 DEF FlushWake, TypeOK, Places, Wakeups, local, faults, history
<1>15. ASSUME Release PROVE Wakeups'
  BY <1>15 DEF Release, TypeOK, Places, Wakeups, local, faults, history
<1>16. CASE UNCHANGED vars
  BY <1>16 DEF vars, TypeOK, Places, Wakeups, local, faults, history
<1>17. QED
  BY <1>1, <1>2, <1>3, <1>4, <1>5, <1>6, <1>7, <1>8, <1>9, <1>10, <1>11, <1>12,
     <1>13, <1>14, <1>15, <1>16 DEF Next, Step

\* No step of lab15 leaves the buffer.
LEMMA BoundedNext ==
  ASSUME TypeOK, Places, Bounded, [Next]_vars
  PROVE  Bounded'
<1>1. ASSUME NEW w \in Writers, NEW k \in 1..MaxWrite, Write(w, k) PROVE Bounded'
  BY <1>1, CdataAssumption
  DEF Write, Goto, TypeOK, Places, Bounded, local, faults, history
<1>2. ASSUME NEW w \in Writers, Copy(w) PROVE Bounded'
  BY <1>2, CdataAssumption
  DEF Copy, Put, Full, Goto, TypeOK, Places, Bounded, local, faults, history
<1>3. ASSUME NEW w \in Writers, FindFull(w) PROVE Bounded'
  BY <1>3, CdataAssumption
  DEF FindFull, Full, Goto, TypeOK, Places, Bounded, local, faults, history
<1>4. ASSUME NEW w \in Writers, Arm(w) PROVE Bounded'
  BY <1>4, CdataAssumption
  DEF Arm, Goto, TypeOK, Places, Bounded, local, faults, history
<1>5. ASSUME NEW w \in Writers, SetState(w) PROVE Bounded'
  BY <1>5, CdataAssumption
  DEF SetState, Goto, TypeOK, Places, Bounded, local, faults, history
<1>6. ASSUME NEW w \in Writers, Join(w) PROVE Bounded'
  BY <1>6, CdataAssumption
  DEF Join, AfterJoin, Goto, TypeOK, Places, Bounded, local, faults, history
<1>7. ASSUME NEW w \in Writers, Awake(w) PROVE Bounded'
  BY <1>7, CdataAssumption
  DEF Awake, Again, Returned, Goto, TypeOK, Places, Bounded, local, faults, history
<1>8. ASSUME NEW w \in Writers, PutAfterSleep(w) PROVE Bounded'
  BY <1>8, CdataAssumption
  DEF PutAfterSleep, Put, Goto, TypeOK, Places, Bounded, local, faults, history
<1>9. ASSUME NEW w \in Writers, End(w) PROVE Bounded'
  BY <1>9, CdataAssumption
  DEF End, Full, Goto, TypeOK, Places, Bounded, local, faults, history
<1>10. ASSUME NEW w \in Writers, Signal(w) PROVE Bounded'
  BY <1>10, CdataAssumption
  DEF Signal, Goto, TypeOK, Places, Bounded, local, faults, history
<1>11. ASSUME NEW w \in Writers, IoctlBegin(w) PROVE Bounded'
  BY <1>11, CdataAssumption
  DEF IoctlBegin, Goto, TypeOK, Places, Bounded, local, faults, history
<1>12. ASSUME NEW w \in Writers, IoctlPut(w) PROVE Bounded'
  BY <1>12, CdataAssumption
  DEF IoctlPut, Goto, TypeOK, Places, Bounded, local, faults, history
<1>13. ASSUME FlushBegin PROVE Bounded'
  BY <1>13, CdataAssumption
  DEF FlushBegin, TypeOK, Places, Bounded, local, faults, history
<1>14. ASSUME FlushWake PROVE Bounded'
  BY <1>14, CdataAssumption
  DEF FlushWake, TypeOK, Places, Bounded, local, faults, history
<1>15. ASSUME Release PROVE Bounded'
  BY <1>15, CdataAssumption
  DEF Release, TypeOK, Places, Bounded, local, faults, history
<1>16. CASE UNCHANGED vars
  BY <1>16 DEF vars, TypeOK, Places, Bounded, local, faults, history
<1>17. QED
  BY <1>1, <1>2, <1>3, <1>4, <1>5, <1>6, <1>7, <1>8, <1>9, <1>10, <1>11, <1>12,
     <1>13, <1>14, <1>15, <1>16 DEF Next, Step

\* An undisturbed writer stays alone with its flush.
LEMMA AloneNext ==
  ASSUME TypeOK, Places, Alone, [Next]_vars
  PROVE  Alone'
<1>1. ASSUME NEW w \in Writers, NEW k \in 1..MaxWrite, Write(w, k) PROVE Alone'
  BY <1>1, CdataAssumption
  DEF Write, Goto, TypeOK, Places, Alone, Waits, Quiet, local, faults, history
<1>2. ASSUME NEW w \in Writers, Copy(w) PROVE Alone'
  BY <1>2, CdataAssumption
  DEF Copy, Put, Full, Goto, TypeOK, Places, Alone, Waits, Quiet, local, faults,
      history
<1>3. ASSUME NEW w \in Writers, FindFull(w) PROVE Alone'
  BY <1>3, CdataAssumption
  DEF FindFull, Full, Goto, TypeOK, Places, Alone, Waits, Quiet, local, faults,
      history
<1>4. ASSUME NEW w \in Writers, Arm(w) PROVE Alone'
  BY <1>4, CdataAssumption
  DEF Arm, Goto, TypeOK, Places, Alone, Waits, Quiet, local, faults, history
<1>5. ASSUME NEW w \in Writers, SetState(w) PROVE Alone'
  BY <1>5, CdataAssumption
  DEF SetState, Goto, TypeOK, Places, Alone, Waits, Quiet, local, faults, history
<1>6. ASSUME NEW w \in Writers, Join(w) PROVE Alone'
  BY <1>6, CdataAssumption
  DEF Join, AfterJoin, Goto, TypeOK, Places, Alone, Waits, Quiet, local, faults,
      history
<1>7. ASSUME NEW w \in Writers, Awake(w) PROVE Alone'
  BY <1>7, CdataAssumption
  DEF Awake, Again, Returned, Goto, TypeOK, Places, Alone, Waits, Quiet, local,
      faults, history
<1>8. ASSUME NEW w \in Writers, PutAfterSleep(w) PROVE Alone'
  BY <1>8, CdataAssumption
  DEF PutAfterSleep, Put, Goto, TypeOK, Places, Alone, Waits, Quiet, local, faults,
      history
<1>9. ASSUME NEW w \in Writers, End(w) PROVE Alone'
  BY <1>9, CdataAssumption
  DEF End, Full, Goto, TypeOK, Places, Alone, Waits, Quiet, local, faults, history
<1>10. ASSUME NEW w \in Writers, Signal(w) PROVE Alone'
  BY <1>10, CdataAssumption
  DEF Signal, Goto, TypeOK, Places, Alone, Waits, Quiet, local, faults, history
<1>11. ASSUME NEW w \in Writers, IoctlBegin(w) PROVE Alone'
  BY <1>11, CdataAssumption
  DEF IoctlBegin, Goto, TypeOK, Places, Alone, Waits, Quiet, local, faults, history
<1>12. ASSUME NEW w \in Writers, IoctlPut(w) PROVE Alone'
  BY <1>12, CdataAssumption
  DEF IoctlPut, Goto, TypeOK, Places, Alone, Waits, Quiet, local, faults, history
<1>13. ASSUME FlushBegin PROVE Alone'
  BY <1>13, CdataAssumption
  DEF FlushBegin, TypeOK, Places, Alone, Waits, Quiet, local, faults, history
<1>14. ASSUME FlushWake PROVE Alone'
  BY <1>14, CdataAssumption
  DEF FlushWake, TypeOK, Places, Alone, Waits, Quiet, local, faults, history
<1>15. ASSUME Release PROVE Alone'
  BY <1>15, CdataAssumption
  DEF Release, TypeOK, Places, Alone, Waits, Quiet, local, faults, history
<1>16. CASE UNCHANGED vars
  BY <1>16 DEF vars, TypeOK, Places, Alone, Waits, Quiet, local, faults, history
<1>17. QED
  BY <1>1, <1>2, <1>3, <1>4, <1>5, <1>6, <1>7, <1>8, <1>9, <1>10, <1>11, <1>12,
     <1>13, <1>14, <1>15, <1>16 DEF Next, Step

----------------------------------------------------------------------------
\* The invariant holds in every state.
LEMMA Invariance == Spec => []Inv
<1>1. Init => Inv
  <2>1. Init => TypeOK
    <3>1. Init => {open, pending, bug, uaf, early, disturbed, linked} \subseteq BOOLEAN
      BY Zenon DEF Init
    <3>2. QED  BY <3>1, CdataAssumption DEF Init, TypeOK
  <2>2. Init => Places /\ Wakeups /\ Bounded
    BY CdataAssumption DEF Init, Places, Wakeups, Bounded
  <2>3. Init => Alone
    BY DEF Init, Alone, Quiet
  <2>4. QED  BY <2>1, <2>2, <2>3 DEF Inv
<1>2. Inv /\ [Next]_vars => Inv'
  BY TypeNext, PlacesNext, WakeupsNext, BoundedNext, AloneNext DEF Inv
<1>3. QED  BY <1>1, <1>2, PTL DEF Spec

\* No writer sleeps without a flush that will wake it, but for the timer that
\* expires before a writer of conrr or lab14 has joined the queue.
THEOREM NoLostWakeupHolds == Spec => []NoLostWakeup
<1>1. Inv => NoLostWakeup  BY DEF Inv, Wakeups, NoLostWakeup
<1>2. QED  BY <1>1, Invariance, PTL

\* cdata_write puts no byte behind the buffer, by lab15 never and by lab14 as long as
\* nothing disturbs the writer, whatever IOCTL_WRITE has done to the index.
THEOREM InBoundsHolds == Spec => []InBounds
<1>1. Inv => InBounds  BY DEF Inv, TypeOK, Bounded, Alone, Quiet, InBounds
<1>2. QED  BY <1>1, Invariance, PTL

\* The structure is not freed under a flush, although nothing stops the flush, as
\* long as nothing disturbs the writer.
THEOREM NoUseAfterFreeHolds == Spec => []NoUseAfterFree
<1>1. Inv => NoUseAfterFree  BY DEF Inv, Alone, Quiet, NoUseAfterFree
<1>2. QED  BY <1>1, Invariance, PTL
=============================================================================
