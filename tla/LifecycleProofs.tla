-------------------------- MODULE LifecycleProofs --------------------------
(***************************************************************************)
(* Machine-checked proofs about loading and unloading ldt/ldt.c and        *)
(* ldt/misc_loop_drv.c.  The model has no constants and TLC visits all of  *)
(* its states; the proof says why the order of the steps is right.  The    *)
(* inductive invariant follows the loader: what is held at each of its     *)
(* steps, and which of the parties that run meanwhile can still be active. *)
(***************************************************************************)
EXTENDS Lifecycle, TLAPS

\* What the driver may hold, the position of free_irq and of tasklet_kill in
\* its cleanup.
Parts ==
  IF drv = "ldt"
  THEN {"drvdata", "in_buf", "out_buf", "ioport", "irq", "debugfs", "misc"}
  ELSE {"drvdata", "region", "misc", "irq"}

IrqFreed   == IF drv = "ldt" THEN 4 ELSE 2
TaskletKilled == IF drv = "ldt" THEN 5 ELSE 3

\* No failure came before the step of module_init that requests the interrupt.
IrqReached == failed \in (IF drv = "ldt" THEN {"none", "debugfs", "misc"} ELSE {"none"})

\* Loading acquires the parts in the order of the steps.
Loading ==
  phase = "init" =>
    /\ failed = "none"
    /\ n \in 1 .. Len(InitSteps)
    /\ n = 1 => held = {}
    /\ n > 1 => "drvdata" \in held
    /\ drv = "misc" =>
         /\ n = 2 => held = {"drvdata"}
         /\ n = 3 => held = {"drvdata", "region"}
         /\ n = 4 => held = {"drvdata", "region", "misc"}
    /\ drv = "ldt" /\ irq /\ port /\ n > 5 => "irq" \in held

\* Between loading and the end of the cleanup drvdata is there, unless it was
\* never allocated, and so is the interrupt until free_irq.
Loaded ==
  /\ phase = "live" => failed \in {"none", "drvdata"}
  /\ phase \in {"live", "cleanup"} =>
       IF failed = "drvdata" THEN held = {} ELSE "drvdata" \in held
  /\ phase = "live" \/ (phase = "cleanup" /\ n <= IrqFreed) =>
       (IrqReached /\ irq /\ port => "irq" \in held)

\* The cleanup has released the parts of the steps behind it.
Unloading ==
  phase = "cleanup" =>
    /\ n \in 1 .. Len(CleanupSteps)
    /\ held \subseteq {CleanupSteps[i] : i \in n .. Len(CleanupSteps)}
    /\ ~(drv = "misc" /\ failed \in {"region", "irq"})

\* The parties that can schedule the tasklet, or run it, at a time when the
\* memory they use may be missing.
Quiet == ~pending /\ handler = "idle" /\ ~scheduled /\ ~running /\ ~open

\* Module_init has not come to the first step that lets anything else run.
Early == phase = "init" /\ n <= (IF drv = "ldt" THEN 5 ELSE 3)

\* Unless something odd happened, everything is quiet before there is anything
\* to work on and after it is gone, no process has the device open during the
\* cleanup, the timer is off after del_timer, and the tasklet after tasklet_kill.
Calm ==
  odd = {} /\ ~(drv = "misc" /\ failed = "irq") =>
    /\ ~uaf
    /\ phase = "gone" \/ "drvdata" \notin held => Quiet \/ phase = "crashed"
    /\ Early => Quiet /\ held \cap {"irq", "misc", "debugfs"} = {}
    /\ phase = "cleanup" => ~open
    /\ phase = "cleanup" /\ (drv = "misc" \/ n > 3) => ~pending /\ handler = "idle"
    /\ phase = "cleanup" /\ n > TaskletKilled => ~scheduled /\ ~running
    /\ drv = "misc" => ~pending /\ handler = "idle"

Inv ==
  /\ TypeOK /\ (drv = "misc" => irq /\ port)
  /\ held \subseteq Parts /\ failed \in Parts \cup {"none"}
  /\ Loading /\ Loaded /\ Unloading
  /\ CleanExit /\ Calm

----------------------------------------------------------------------------
(* The inductive invariant *)

\* The steps of loading and unloading, one by one.
LEMMA Steps ==
  /\ drv = "ldt" =>
       /\ Len(InitSteps) = 8
       /\ InitSteps[1] = "drvdata" /\ InitSteps[2] = "in_buf"
       /\ InitSteps[3] = "out_buf" /\ InitSteps[4] = "ioport"
       /\ InitSteps[5] = "irq" /\ InitSteps[6] = "timer"
       /\ InitSteps[7] = "debugfs" /\ InitSteps[8] = "misc"
       /\ Len(CleanupSteps) = 9
       /\ CleanupSteps[1] = "debugfs" /\ CleanupSteps[2] = "misc"
       /\ CleanupSteps[3] = "timer" /\ CleanupSteps[4] = "irq"
       /\ CleanupSteps[5] = "tasklet" /\ CleanupSteps[6] = "in_buf"
       /\ CleanupSteps[7] = "out_buf" /\ CleanupSteps[8] = "ioport"
       /\ CleanupSteps[9] = "drvdata"
  /\ drv = "misc" =>
       /\ Len(InitSteps) = 4
       /\ InitSteps[1] = "drvdata" /\ InitSteps[2] = "region"
       /\ InitSteps[3] = "misc" /\ InitSteps[4] = "irq"
       /\ Len(CleanupSteps) = 5
       /\ CleanupSteps[1] = "misc" /\ CleanupSteps[2] = "irq"
       /\ CleanupSteps[3] = "tasklet" /\ CleanupSteps[4] = "region"
       /\ CleanupSteps[5] = "drvdata"
BY DEF InitSteps, CleanupSteps

\* How many there are.
LEMMA Lengths ==
  /\ drv = "ldt" => Len(InitSteps) = 8 /\ Len(CleanupSteps) = 9
  /\ drv = "misc" => Len(InitSteps) = 4 /\ Len(CleanupSteps) = 5
BY DEF InitSteps, CleanupSteps

\* The cleanup releases every part.
LEMMA AllReleased ==
  ASSUME drv \in {"ldt", "misc"}
  PROVE  /\ Parts \subseteq {CleanupSteps[i] : i \in 1 .. Len(CleanupSteps)}
         /\ 1 \in 1 .. Len(CleanupSteps)
<1> DEFINE S == {CleanupSteps[i] : i \in 1 .. Len(CleanupSteps)}
<1>1. CASE drv = "ldt"
  <2>1. Len(CleanupSteps) = 9 /\ \A i \in 1 .. 9 : CleanupSteps[i] \in S
    BY <1>1, Lengths
  <2>2. {1, 2, 3, 4, 5, 6, 7, 8, 9} \subseteq 1 .. 9
    OBVIOUS
  <2> HIDE DEF S
  <2>3. Parts \subseteq S
    BY <2>1, <2>2, <1>1, Steps DEF Parts
  <2> QED
    BY <2>1, <2>2, <2>3 DEF S
<1>2. CASE drv = "misc"
  <2>1. Len(CleanupSteps) = 5 /\ \A i \in 1 .. 5 : CleanupSteps[i] \in S
    BY <1>2, Lengths
  <2>2. {1, 2, 3, 4, 5} \subseteq 1 .. 5
    OBVIOUS
  <2> HIDE DEF S
  <2>3. Parts \subseteq S
    BY <2>1, <2>2, <1>2, Steps DEF Parts
  <2> QED
    BY <2>1, <2>2, <2>3 DEF S
<1> QED
  BY <1>1, <1>2

\* The types of the variables, one by one.
LEMMA Types ==
  TypeOK <=>
    /\ drv \in {"ldt", "misc"}
    /\ irq \in BOOLEAN /\ port \in BOOLEAN /\ loopback \in BOOLEAN
    /\ pending \in BOOLEAN /\ scheduled \in BOOLEAN /\ running \in BOOLEAN
    /\ open \in BOOLEAN /\ uaf \in BOOLEAN /\ badirq \in BOOLEAN
    /\ phase \in {"init", "live", "cleanup", "gone", "crashed"} /\ n \in 1 .. 9
    /\ failed \in {"drvdata", "in_buf", "out_buf", "region", "ioport", "irq",
                   "debugfs", "misc", "none"}
    /\ held \subseteq {"drvdata", "in_buf", "out_buf", "region", "ioport", "irq",
                       "debugfs", "misc"}
    /\ handler \in {"idle", "schedule", "rearm"}
    /\ odd \subseteq {"overlap", "early open"}
BY DEF TypeOK

\* Nothing is held before module_init, and nothing runs.
LEMMA InvInit == Init => Inv
<1> SUFFICES ASSUME Init
             PROVE  Inv
  OBVIOUS
<1> USE DEF Init
<1>1. TypeOK
  <2>1. 1 \in 1 .. 9 /\ {irq, port, loopback, FALSE} \subseteq BOOLEAN
    OBVIOUS
  <2> QED
    BY <2>1 DEF TypeOK
<1>2. (drv = "misc" => irq /\ port) /\ held \subseteq Parts
      /\ failed \in Parts \cup {"none"}
  OBVIOUS
<1>3. Loading /\ Loaded /\ Unloading
  BY Steps DEF Loading, Loaded, Unloading
<1>4. CleanExit
  BY DEF CleanExit
<1>5. Calm
  BY DEF Calm, Quiet, TaskletKilled
<1> QED
  BY <1>1, <1>2, <1>3, <1>4, <1>5 DEF Inv

\* What the parties beside the loader leave alone.
Beside == UNCHANGED <<drv, irq, port, loopback, phase, n, failed, held, badirq>>

\* A step of a party beside the loader has to keep the types and the calm.
LEMMA BesideStep ==
  ASSUME Inv, Beside, TypeOK', Calm'
  PROVE  Inv'
<1> USE DEF Beside
<1>1. Parts' = Parts /\ InitSteps' = InitSteps /\ CleanupSteps' = CleanupSteps
      /\ IrqFreed' = IrqFreed /\ (IrqReached <=> IrqReached')
  BY DEF Parts, InitSteps, CleanupSteps, IrqFreed, IrqReached
<1>2. Loading' /\ Loaded' /\ Unloading'
  BY <1>1 DEF Inv, Loading, Loaded, Unloading
<1>3. CleanExit'
  BY DEF Inv, CleanExit
<1> QED
  BY <1>1, <1>2, <1>3 DEF Inv

\* The timer handler, the interrupt handler, the tasklet and the processes keep
\* the invariant: what they can still start is what is still there.
LEMMA BesideKeeps ==
  ASSUME Inv, phase # "crashed",
         TimerStep \/ Isr \/ TaskletStep \/ Open \/ Write \/ Close
  PROVE  Inv'
<1>t. /\ drv \in {"ldt", "misc"} /\ uaf \in BOOLEAN
      /\ pending \in BOOLEAN /\ scheduled \in BOOLEAN /\ running \in BOOLEAN
      /\ loopback \in BOOLEAN /\ open \in BOOLEAN /\ n \in 1 .. 9
      /\ phase \in {"init", "live", "cleanup", "gone", "crashed"}
      /\ odd \subseteq {"overlap", "early open"}
  BY Types DEF Inv
<1>n. n \in 1 .. 9
  BY <1>t
<1>1. Beside
  BY DEF Beside, param, TimerStep, TaskletStep, TimerExpires, TimerSchedules,
         TimerRearms, Isr, TaskletBegins, TaskletEnds, Open, Write, Close
<1>2. TypeOK'
  <2>1. /\ pending' \in BOOLEAN /\ scheduled' \in BOOLEAN /\ running' \in BOOLEAN
        /\ open' \in BOOLEAN /\ uaf' \in BOOLEAN
    BY <1>t DEF timer, tasklet, TimerStep, TaskletStep, TimerExpires,
         TimerSchedules, TimerRearms, Isr, TaskletBegins, TaskletEnds, Open,
         Write, Close, Rescheduled
  <2>2. handler' \in {"idle", "schedule", "rearm"} \/ handler' = handler
    BY DEF timer, TimerStep, TaskletStep, TimerExpires,
         TimerSchedules, TimerRearms, Isr, TaskletBegins, TaskletEnds, Open,
         Write, Close
  <2>3. odd' \subseteq {"overlap", "early open"}
    BY <1>t DEF TimerStep, TaskletStep, TimerExpires,
         TimerSchedules, TimerRearms, Isr, TaskletBegins, TaskletEnds, Open,
         Write, Close
  <2>4. UNCHANGED <<drv, irq, port, loopback, phase, n, failed, held, badirq>>
    BY <1>1 DEF Beside
  <2>5. /\ irq' \in BOOLEAN /\ port' \in BOOLEAN /\ loopback' \in BOOLEAN
        /\ badirq' \in BOOLEAN
    BY <2>4, Types DEF Inv
  <2>6. {irq', port', loopback', pending', scheduled', running', open', uaf', badirq'}
          \subseteq BOOLEAN
    BY <2>1, <2>5
  <2>7. handler' \in {"idle", "schedule", "rearm"}
    BY <2>2, Types DEF Inv
  <2> QED
    BY <2>3, <2>4, <2>6, <2>7 DEF Inv, TypeOK
<1>3. Calm'
  <2> SUFFICES ASSUME odd' = {}, ~(drv = "misc" /\ failed = "irq")
               PROVE  Calm'
    BY <1>1 DEF Calm, Beside
  <2>1. odd = {} /\ (Open => phase # "cleanup")
    BY DEF TimerStep, TaskletStep, TimerExpires,
         TimerSchedules, TimerRearms, Isr, TaskletBegins, TaskletEnds, Open,
         Write, Close
  <2>c. /\ ~uaf
        /\ phase = "gone" \/ "drvdata" \notin held => Quiet
        /\ Early => Quiet /\ held \cap {"irq", "misc", "debugfs"} = {}
        /\ phase = "cleanup" => ~open
        /\ phase = "cleanup" /\ (drv = "misc" \/ n > 3) => ~pending /\ handler = "idle"
        /\ phase = "cleanup" /\ n > TaskletKilled => ~scheduled /\ ~running
        /\ drv = "misc" => ~pending /\ handler = "idle"
    BY <2>1 DEF Inv, Calm
  <2>2. phase = "gone" \/ "drvdata" \notin held =>
          held \cap {"irq", "misc", "debugfs"} = {}
    <3>1. CASE phase = "gone"
      BY <3>1 DEF Inv, CleanExit
    <3>2. CASE phase = "init" /\ "drvdata" \notin held
      <4>1. Loading
        BY DEF Inv
      <4>2. n = 1 \/ n > 1
        BY <1>n
      <4> QED
        BY <3>2, <4>1, <4>2 DEF Loading
    <3>3. CASE phase \in {"live", "cleanup"} /\ "drvdata" \notin held
      BY <3>3 DEF Inv, Loaded
    <3> QED
      BY <3>1, <3>2, <3>3, <1>t
  <2>3. Early' <=> Early
    BY <1>1 DEF Early, Beside
  <2>4. phase = "cleanup" /\ n > TaskletKilled => "irq" \notin held
    <3> SUFFICES ASSUME phase = "cleanup", n > TaskletKilled, "irq" \in held
                 PROVE  FALSE
      OBVIOUS
    <3>1. PICK i \in n .. Len(CleanupSteps) : CleanupSteps[i] = "irq"
      BY DEF Inv, Unloading
    <3> QED
      <4>1. CASE drv = "ldt"
        <5>0. TaskletKilled = 5 /\ Len(CleanupSteps) = 9
          BY <4>1, Steps DEF TaskletKilled
        <5>1. i \in {6, 7, 8, 9}
          BY <5>0, <1>n
        <5> QED
          BY <4>1, <5>1, <3>1, Steps
      <4>2. CASE drv = "misc"
        <5>0. TaskletKilled = 3 /\ Len(CleanupSteps) = 5
          BY <4>2, Steps DEF TaskletKilled
        <5>1. i \in {4, 5}
          BY <5>0, <1>n
        <5> QED
          BY <4>2, <5>1, <3>1, Steps
      <4> QED
        BY <4>1, <4>2, <1>t
  <2>5. Usable <=> ~(phase = "gone" \/ "drvdata" \notin held)
    BY DEF Usable
  <2>6. TaskletKilled \in Nat /\ TaskletKilled' = TaskletKilled
    BY <1>1 DEF TaskletKilled, Beside
  <2>7. CASE TimerStep
    <3>1. handler # "idle" \/ pending
      BY <2>7 DEF TimerStep, TimerExpires, TimerSchedules, TimerRearms
    <3>2. phase # "gone" /\ "drvdata" \in held /\ drv = "ldt"
      BY <3>1, <2>c, <1>t DEF Quiet
    <3>3. ~Early /\ ~(phase = "cleanup" /\ n > 3)
      BY <3>1, <3>2, <2>c DEF Quiet
    <3>4. ~(phase = "cleanup" /\ n > TaskletKilled)
      <4>1. TaskletKilled = 5
        BY <3>2 DEF TaskletKilled
      <4> QED
        BY <3>3, <4>1, <1>n
    <3>5. ~uaf' /\ open' = open
      BY <2>7, <2>c, <3>2 DEF TimerStep, TimerExpires, TimerSchedules, TimerRearms
    <3> QED
      BY <3>2, <3>3, <3>4, <3>5, <2>c, <2>3, <2>6, <1>1, <1>t DEF Calm, Beside
  <2>8. CASE Isr
    BY <2>8, <2>c, <2>2, <2>3, <2>4, <2>5, <2>6, <1>1, <1>t
       DEF Calm, Quiet, Beside, Isr, timer
  <2>9. CASE TaskletStep
    BY <2>9, <2>c, <2>3, <2>5, <2>6, <1>1, <1>t DEF Calm, Quiet, Beside, TaskletStep,
         TaskletBegins, TaskletEnds, timer, Rescheduled
  <2>10. CASE Open
    BY <2>10, <2>1, <2>c, <2>2, <2>3, <2>5, <2>6, <1>1, <1>t DEF Calm, Quiet, Beside,
         Open, timer, tasklet
  <2>11. CASE Write
    BY <2>11, <2>c, <2>3, <2>5, <2>6, <1>1, <1>t DEF Calm, Quiet, Beside, Write, timer
  <2>12. CASE Close
    BY <2>12, <2>c, <2>3, <2>5, <2>6, <1>1, <1>t DEF Calm, Quiet, Beside, Close,
         timer, tasklet
  <2> QED
    BY <2>7, <2>8, <2>9, <2>10, <2>11, <2>12
<1> QED
  BY <1>1, <1>2, <1>3, BesideStep

\* The next step of module_init succeeds.
LEMMA InitStepKeeps == ASSUME Inv, InitStep PROVE Inv'
<1> DEFINE r == InitSteps[n]
<1>t. /\ drv \in {"ldt", "misc"} /\ pending \in BOOLEAN
      /\ odd \subseteq {"overlap", "early open"}
  BY Types DEF Inv
<1>i. /\ phase = "init" /\ failed = "none" /\ n \in 1 .. Len(InitSteps)
      /\ UNCHANGED <<drv, irq, port, loopback, failed, handler, scheduled,
                     running, open, uaf, badirq, odd>>
  BY DEF Inv, Loading, InitStep, param, tasklet
<1>d. drv \in {"ldt", "misc"} /\ n \in 1 .. Len(InitSteps)
  BY <1>t, <1>i
<1>n. IF drv = "ldt" THEN n \in {1, 2, 3, 4, 5, 6, 7, 8} ELSE n \in {1, 2, 3, 4}
  <2>1. CASE drv = "ldt"
    <3>1. Len(InitSteps) = 8
      BY <2>1, Lengths
    <3>2. n \in {1, 2, 3, 4, 5, 6, 7, 8}
      BY <1>d, <3>1
    <3> QED
      BY <2>1, <3>2
  <2>2. CASE drv = "misc"
    <3>1. Len(InitSteps) = 4
      BY <2>2, Lengths
    <3>2. n \in {1, 2, 3, 4}
      BY <1>d, <3>1
    <3> QED
      BY <2>2, <3>2
  <2> QED
    BY <1>d, <2>1, <2>2
<1>s. Parts' = Parts /\ InitSteps' = InitSteps /\ CleanupSteps' = CleanupSteps
      /\ (IrqReached <=> IrqReached')
  BY <1>i DEF Parts, InitSteps, CleanupSteps, IrqReached
<1>l. /\ n = Len(InitSteps) => phase' = "live" /\ n' = n
      /\ n # Len(InitSteps) => phase' = "init" /\ n' = n + 1
  BY <1>i DEF InitStep
<1>h. /\ held \subseteq held' /\ held' \subseteq held \cup ({r} \ {"timer"})
      /\ r \notin {"timer", "debugfs", "ioport", "irq"} => r \in held'
      /\ irq /\ port /\ r = "irq" => r \in held'
  BY DEF InitStep, Wanted
<1>r. r \in Parts \cup {"timer"}
  <2>1. CASE drv = "ldt"
    BY <2>1, <1>n, Steps DEF Parts
  <2>2. CASE drv = "misc"
    BY <2>2, <1>n, Steps DEF Parts
  <2> QED
    BY <2>1, <2>2, <1>t
<1>1. TypeOK' /\ held' \subseteq Parts'
  <2>1. pending' \in BOOLEAN
    BY <1>t DEF InitStep
  <2>2. held' \subseteq Parts
    BY <1>h, <1>r DEF Inv
  <2>3. n' \in 1 .. 9 /\ phase' \in {"init", "live"}
    BY <1>n, <1>l, <1>d, Lengths
  <2> QED
    BY <1>i, <1>s, <2>1, <2>2, <2>3 DEF Inv, TypeOK, Parts
<1>2. Loading'
  <2> SUFFICES ASSUME phase' = "init"
               PROVE  Loading'
    BY DEF Loading
  <2>1. n # Len(InitSteps) /\ n' = n + 1
    BY <1>l
  <2>2. Loading
    BY DEF Inv
  <2>3. CASE drv = "ldt"
    <3>1. n \in {1, 2, 3, 4, 5, 6, 7} /\ Len(InitSteps) = 8
      BY <2>1, <2>3, <1>n, Lengths
    <3>0. n' \in 1 .. 8 /\ n' # 1 /\ n' > 1
      BY <2>1, <3>1
    <3>2. n' \in 1 .. Len(InitSteps') /\ n' # 1 /\ n' > 1
      BY <3>0, <3>1, <1>s
    <3>3. "drvdata" \in held'
      <4>1. CASE n = 1
        BY <4>1, <2>3, <1>h, Steps
      <4>2. CASE n > 1
        BY <4>2, <2>2, <1>i, <1>h DEF Loading
      <4> QED
        BY <3>1, <4>1, <4>2
    <3>4. irq /\ port /\ n' > 5 => "irq" \in held'
      <4>1. CASE n = 5
        BY <4>1, <2>3, <1>h, Steps
      <4>2. CASE n > 5
        BY <4>2, <2>3, <2>2, <1>i, <1>h DEF Loading
      <4> QED
        BY <2>1, <3>1, <4>1, <4>2
    <3> QED
      BY <2>3, <3>2, <3>3, <3>4, <1>i DEF Loading
  <2>4. CASE drv = "misc"
    <3>1. n \in {1, 2, 3} /\ Len(InitSteps) = 4
      BY <2>1, <2>4, <1>n, Lengths
    <3>0. n' \in 1 .. 4 /\ n' # 1 /\ n' > 1
      BY <2>1, <3>1
    <3>2. n' \in 1 .. Len(InitSteps') /\ n' # 1 /\ n' > 1
      BY <3>0, <3>1, <1>s
    <3>3. held' = held \cup {r}
      BY <2>4, <3>1, <1>h, Steps
    <3>4. CASE n = 1
      BY <2>1, <2>2, <2>4, <3>2, <3>3, <3>4, <1>i, Steps DEF Loading
    <3>5. CASE n = 2
      BY <2>1, <2>2, <2>4, <3>2, <3>3, <3>5, <1>i, Steps DEF Loading
    <3>6. CASE n = 3
      BY <2>1, <2>2, <2>4, <3>2, <3>3, <3>6, <1>i, Steps DEF Loading
    <3> QED
      BY <3>1, <3>4, <3>5, <3>6
  <2> QED
    BY <2>3, <2>4, <1>t
<1>3. Loaded'
  <2> SUFFICES ASSUME phase' = "live"
               PROVE  Loaded'
    BY <1>l DEF Loaded
  <2>1. n = Len(InitSteps)
    BY <1>l
  <2>2. "drvdata" \in held'
    <3>1. n > 1
      BY <2>1, <1>d, Lengths
    <3> QED
      BY <3>1, <1>i, <1>h DEF Inv, Loading
  <2>3. irq /\ port => "irq" \in held'
    <3>1. CASE drv = "ldt"
      <4>0. n = 8
        BY <2>1, <3>1, Lengths
      <4>1. n > 5
        BY <4>0
      <4> QED
        BY <3>1, <4>1, <1>i, <1>h DEF Inv, Loading
    <3>2. CASE drv = "misc"
      BY <2>1, <3>2, <1>h, Steps
    <3> QED
      BY <3>1, <3>2, <1>t
  <2> QED
    BY <2>2, <2>3, <1>i DEF Loaded
<1>4. Unloading'
  BY <1>l DEF Unloading
<1>5. CleanExit'
  BY <1>i, <1>l DEF Inv, CleanExit
<1>6. Calm'
  <2> SUFFICES ASSUME odd = {}
               PROVE  Calm'
    BY <1>i DEF Calm
  <2>1. /\ ~uaf
        /\ Early => Quiet /\ held \cap {"irq", "misc", "debugfs"} = {}
        /\ drv = "misc" => ~pending /\ handler = "idle"
    BY <1>i DEF Inv, Calm
  <2>2. "drvdata" \in held' /\ phase' \in {"init", "live"}
    <3>1. "drvdata" \in held'
      <4>1. CASE n = 1
        BY <4>1, <1>t, <1>h, Steps
      <4>2. CASE n > 1
        BY <4>2, <1>i, <1>h DEF Inv, Loading
      <4> QED
        BY <1>n, <4>1, <4>2
    <3> QED
      BY <3>1, <1>l
  <2>3. Early' => Early /\ r \notin {"timer", "irq", "misc", "debugfs"}
    <3>1. CASE drv = "ldt"
      <4>1. Early' => n \in {1, 2, 3, 4}
        BY <3>1, <1>n, <1>l, <1>i DEF Early
      <4>2. n \in {1, 2, 3, 4} => Early /\ r \notin {"timer", "irq", "misc", "debugfs"}
        BY <3>1, <1>i, Steps DEF Early
      <4> QED
        BY <4>1, <4>2
    <3>2. CASE drv = "misc"
      <4>1. Early' => n \in {1, 2}
        BY <3>2, <1>n, <1>l, <1>i DEF Early
      <4>2. n \in {1, 2} => Early /\ r \notin {"timer", "irq", "misc", "debugfs"}
        BY <3>2, <1>i, Steps DEF Early
      <4> QED
        BY <4>1, <4>2
    <3> QED
      BY <3>1, <3>2, <1>t
  <2>4. drv = "misc" => r # "timer"
    BY <1>n, Steps
  <2>5. r # "timer" => pending' = pending
    BY <1>t DEF InitStep
  <2>6. Early' => Quiet' /\ held' \cap {"irq", "misc", "debugfs"} = {}
    BY <2>1, <2>3, <2>5, <1>h, <1>i DEF Quiet
  <2>7. drv = "misc" => ~pending' /\ handler = "idle"
    BY <2>1, <2>4, <2>5
  <2> QED
    BY <1>i, <2>1, <2>2, <2>6, <2>7 DEF Calm
<1> QED
  BY <1>1, <1>2, <1>3, <1>4, <1>5, <1>6, <1>i, <1>s DEF Inv

\* rmmod begins.
LEMMA UnloadKeeps == ASSUME Inv, Unload PROVE Inv'
<1>t. drv \in {"ldt", "misc"}
  BY Types DEF Inv
<1>i. /\ phase = "live" /\ ~open /\ phase' = "cleanup" /\ n' = 1
      /\ UNCHANGED <<drv, irq, port, loopback, failed, held, pending, handler,
                     scheduled, running, open, uaf, badirq, odd>>
  BY DEF Unload, param, timer, tasklet
<1>s. Parts' = Parts /\ CleanupSteps' = CleanupSteps
      /\ (IrqReached <=> IrqReached') /\ IrqFreed' = IrqFreed
      /\ TaskletKilled' = TaskletKilled
  BY <1>i DEF Parts, CleanupSteps, IrqReached, IrqFreed, TaskletKilled
<1>1. TypeOK'
  <2>1. 1 \in 1 .. 9
    OBVIOUS
  <2> QED
    BY <2>1, <1>i DEF Inv, TypeOK
<1>2. Loading' /\ Loaded' /\ CleanExit'
  BY <1>i, <1>s DEF Inv, Loading, Loaded, CleanExit
<1>3. Unloading'
  <2>1. held \subseteq {CleanupSteps[i] : i \in 1 .. Len(CleanupSteps)}
        /\ 1 \in 1 .. Len(CleanupSteps)
    BY <1>t, AllReleased DEF Inv
  <2> QED
    BY <2>1, <1>i, <1>s DEF Inv, Loaded, Unloading
<1>4. Calm'
  <2>1. ~(1 > TaskletKilled) /\ ~(1 > 3)
    BY DEF TaskletKilled
  <2> QED
    BY <2>1, <1>i, <1>s DEF Inv, Calm, Quiet, Early
<1> QED
  BY <1>1, <1>2, <1>3, <1>4, <1>i, <1>s DEF Inv

\* A step of module_init fails.
LEMMA InitFailsKeeps == ASSUME Inv, InitFails PROVE Inv'
<1> DEFINE r == InitSteps[n]
<1>t. drv \in {"ldt", "misc"}
  BY Types DEF Inv
<1>i. /\ phase = "init" /\ failed = "none" /\ n \in 1 .. Len(InitSteps)
      /\ UNCHANGED <<drv, irq, port, loopback, held, pending, handler, scheduled,
                     running, open, uaf, badirq>>
      /\ n' = 1 /\ failed' = r /\ phase' = AfterFailure(r) /\ r # "timer"
  BY DEF Inv, Loading, InitFails, param, tasklet, timer
<1>d. n \in 1 .. Len(InitSteps)
  BY <1>i
<1>s. Parts' = Parts /\ CleanupSteps' = CleanupSteps
      /\ IrqFreed' = IrqFreed /\ TaskletKilled' = TaskletKilled
  BY <1>i DEF Parts, CleanupSteps, IrqFreed, TaskletKilled
<1>l. Loading /\ Calm /\ CleanExit
  BY DEF Inv
<1>o. odd' \subseteq {"overlap", "early open"} /\ (odd' = {} => odd = {} /\ ~open)
  BY Types DEF Inv, InitFails
<1>e. phase' # "init" /\ ~Early'
  BY <1>i DEF AfterFailure, Early
<1>1. CASE drv = "ldt"
  <2>1. Len(InitSteps) = 8
    BY <1>1, Lengths
  <2>2. n \in {1, 2, 3, 4, 5, 6, 7, 8}
    BY <1>d, <2>1
  <2>3. /\ r \in Parts \ {"region"}
        /\ r = "drvdata" <=> n = 1
        /\ r \in {"debugfs", "misc"} => n > 5
    BY <2>2, <1>1, <1>i, Steps DEF Parts
  <2>4. phase' = IF n = 1 THEN "live" ELSE "cleanup"
    BY <2>3, <1>1, <1>i DEF AfterFailure
  <2>5. n = 1 => held = {} /\ n <= 5
    BY <1>l, <1>i DEF Loading
  <2>6. n # 1 => "drvdata" \in held
    <3>1. n # 1 => n > 1
      BY <2>2
    <3> QED
      BY <3>1, <1>l, <1>i DEF Loading
  <2>7. irq /\ port /\ r \in {"debugfs", "misc"} => "irq" \in held
    BY <2>3, <1>1, <1>l, <1>i DEF Loading
  <2>8. failed' = "drvdata" <=> n = 1
    BY <2>3, <1>i
  <2>9. IrqReached' => r \in {"debugfs", "misc"}
    BY <2>3, <1>1, <1>i DEF IrqReached, Parts
  <2>10. TypeOK' /\ failed' \in Parts' \cup {"none"}
    <3>1. 1 \in 1 .. 9
      OBVIOUS
    <3> QED
      BY <3>1, <2>3, <2>4, <1>i, <1>o, <1>s, <1>1 DEF Inv, TypeOK, Parts
  <2>11. Loading' /\ Loaded'
    BY <2>4, <2>5, <2>6, <2>7, <2>8, <2>9, <1>i DEF Loading, Loaded
  <2>12. Unloading'
    <3>1. held \subseteq {CleanupSteps[i] : i \in 1 .. Len(CleanupSteps)}
          /\ 1 \in 1 .. Len(CleanupSteps)
      BY <1>t, AllReleased DEF Inv
    <3> QED
      BY <3>1, <1>1, <1>i, <1>s DEF Unloading
  <2>13. CleanExit'
    BY <2>4, <1>1, <1>l, <1>i DEF CleanExit
  <2>14. Calm'
    <3>1. ~(1 > TaskletKilled) /\ ~(1 > 3)
      BY DEF TaskletKilled
    <3>2. n = 1 => Early
      BY <2>5, <1>1, <1>i DEF Early
    <3>3. odd' = {} => ~uaf /\ ~open /\ (n = 1 => Quiet)
      BY <3>2, <1>l, <1>i, <1>o DEF Calm
    <3> QED
      BY <3>1, <3>3, <2>4, <2>6, <1>1, <1>e, <1>i, <1>s DEF Calm, Quiet
  <2> QED
    BY <2>10, <2>11, <2>12, <2>13, <2>14, <1>1, <1>i, <1>s DEF Inv
<1>2. CASE drv = "misc"
  <2>1. Len(InitSteps) = 4
    BY <1>2, Lengths
  <2>2. n \in {1, 2, 3, 4}
    BY <1>d, <2>1
  <2>3. /\ n = 1 => r = "drvdata" /\ held = {}
        /\ n = 2 => r = "region" /\ held = {"drvdata"}
        /\ n = 3 => r = "misc" /\ held = {"drvdata", "region"}
        /\ n = 4 => r = "irq" /\ held = {"drvdata", "region", "misc"}
    BY <2>2, <1>2, <1>i, <1>l, Steps DEF Loading
  <2>4. phase' = CASE n = 1 -> "live" [] n = 3 -> "cleanup" [] OTHER -> "gone"
    BY <2>2, <2>3, <1>2, <1>i DEF AfterFailure
  <2>5. TypeOK' /\ failed' \in Parts' \cup {"none"}
    <3>1. 1 \in 1 .. 9
      OBVIOUS
    <3>2. r \in Parts
      BY <2>2, <2>3, <1>2 DEF Parts
    <3> QED
      BY <3>1, <3>2, <2>2, <2>4, <1>i, <1>o, <1>s, <1>2 DEF Inv, TypeOK, Parts
  <2>6. Loading' /\ Loaded'
    BY <2>2, <2>3, <2>4, <1>2, <1>i DEF Loading, Loaded, IrqReached
  <2>7. Unloading'
    <3>1. held \subseteq {CleanupSteps[i] : i \in 1 .. Len(CleanupSteps)}
          /\ 1 \in 1 .. Len(CleanupSteps)
      BY <1>t, AllReleased DEF Inv
    <3>2. phase' = "cleanup" => r = "misc"
      BY <2>2, <2>3, <2>4
    <3> QED
      BY <3>1, <3>2, <1>i, <1>s DEF Unloading
  <2>8. CleanExit'
    <3>1. ~badirq
      BY <1>2, <1>l, <1>i DEF CleanExit
    <3> QED
      BY <3>1, <2>2, <2>3, <2>4, <1>2, <1>i DEF CleanExit
  <2>9. Calm'
    <3>1. ~(1 > TaskletKilled)
      BY DEF TaskletKilled
    <3>2. n # 4 => Early
      <4>1. n # 4 => n <= 3
        BY <2>2
      <4> QED
        BY <4>1, <1>2, <1>i DEF Early
    <3>3. odd' = {} =>
            ~uaf /\ ~open /\ ~pending /\ handler = "idle" /\ (n # 4 => Quiet)
      BY <3>2, <1>2, <1>l, <1>i, <1>o DEF Calm
    <3>4. n = 4 => failed' = "irq"
      BY <2>3, <1>i
    <3>5. n # 1 => "drvdata" \in held
      BY <2>2, <2>3
    <3> QED
      BY <3>1, <3>3, <3>4, <3>5, <2>2, <2>4, <1>2, <1>e, <1>i, <1>s DEF Calm, Quiet
  <2> QED
    BY <2>5, <2>6, <2>7, <2>8, <2>9, <1>2, <1>i, <1>s DEF Inv
<1> QED
  BY <1>1, <1>2, <1>t

\* A step of the cleanup: it releases its part, or looks into a drvdata that is
\* not there.
LEMMA CleanupStepKeeps == ASSUME Inv, CleanupStep PROVE Inv'
<1> DEFINE r == CleanupSteps[n]
           Crash == LooksInto(r) /\ "drvdata" \notin held
<1>t. drv \in {"ldt", "misc"} /\ odd \subseteq {"overlap", "early open"}
      /\ pending \in BOOLEAN /\ badirq \in BOOLEAN
  BY Types DEF Inv
<1>i. /\ phase = "cleanup" /\ n \in 1 .. Len(CleanupSteps)
      /\ held \subseteq {CleanupSteps[i] : i \in n .. Len(CleanupSteps)}
      /\ ~(drv = "misc" /\ failed \in {"region", "irq"})
      /\ (r = "tasklet" => ~scheduled /\ ~running)
      /\ UNCHANGED <<drv, irq, port, loopback, failed, handler, scheduled,
                     running, open, uaf>>
  BY DEF Inv, Unloading, CleanupStep, param, tasklet
<1>s. Parts' = Parts /\ CleanupSteps' = CleanupSteps
      /\ (IrqReached <=> IrqReached') /\ IrqFreed' = IrqFreed
      /\ TaskletKilled' = TaskletKilled
  BY <1>i DEF Parts, CleanupSteps, IrqReached, IrqFreed, TaskletKilled
<1>l. Loaded /\ Calm /\ CleanExit /\ (drv = "misc" => irq /\ port)
      /\ held \subseteq Parts /\ failed \in Parts \cup {"none"}
  BY DEF Inv
<1>0. ASSUME drv \in {"ldt", "misc"}, phase = "cleanup"
      PROVE  failed # "drvdata" => "drvdata" \in held
  BY <1>0, <1>l DEF Loaded
<1>1. CASE Crash
  <2>1. phase' = "crashed" /\ UNCHANGED <<n, held, pending, badirq, odd>>
    BY <1>1 DEF CleanupStep
  <2>2. failed = "drvdata"
    BY <1>1, <1>0, <1>t, <1>i
  <2>3. TypeOK'
    BY <2>1, <1>i DEF Inv, TypeOK
  <2>4. Loading' /\ Loaded' /\ Unloading'
    BY <2>1 DEF Loading, Loaded, Unloading
  <2>5. CleanExit'
    BY <2>1, <2>2, <1>i, <1>l DEF CleanExit
  <2>6. Calm'
    BY <2>1, <1>i, <1>l DEF Calm, Early
  <2> QED
    BY <2>1, <2>3, <2>4, <2>5, <2>6, <1>i, <1>l, <1>s DEF Inv
<1>2. CASE ~Crash
  <2>1. /\ held' = held \ {r}
        /\ badirq' = (badirq \/ (r = "irq" /\ irq /\ r \notin held))
        /\ pending' = (pending /\ r # "timer")
        /\ odd' = odd \cup {x \in {"overlap"} : r = "timer" /\ handler # "idle"}
        /\ n = Len(CleanupSteps) => phase' = "gone" /\ n' = n
        /\ n # Len(CleanupSteps) => phase' = "cleanup" /\ n' = n + 1
    BY <1>2, <1>i DEF CleanupStep
  <2>d. n \in 1 .. Len(CleanupSteps) /\ Len(CleanupSteps) \in {5, 9}
    BY <1>i, <1>t, Lengths
  <2>2. n' \in 1 .. 9 /\ n \in Nat
    <3>1. CASE Len(CleanupSteps) = 5
      BY <3>1, <2>1, <2>d
    <3>2. CASE Len(CleanupSteps) = 9
      BY <3>2, <2>1, <2>d
    <3> QED
      BY <3>1, <3>2, <2>d
  <2>p. /\ drv = "ldt" => /\ n \in {1, 2, 3, 4, 5, 6, 7, 8, 9}
                          /\ Len(CleanupSteps) = 9
        /\ drv = "misc" => /\ n \in {1, 2, 3, 4, 5}
                           /\ Len(CleanupSteps) = 5
    <3>1. CASE drv = "ldt"
      <4>1. Len(CleanupSteps) = 9
        BY <3>1, Lengths
      <4>2. n \in {1, 2, 3, 4, 5, 6, 7, 8, 9}
        BY <4>1, <2>d
      <4> QED
        BY <3>1, <4>1, <4>2
    <3>2. CASE drv = "misc"
      <4>1. Len(CleanupSteps) = 5
        BY <3>2, Lengths
      <4>2. n \in {1, 2, 3, 4, 5}
        BY <4>1, <2>d
      <4> QED
        BY <3>2, <4>1, <4>2
    <3> QED
      BY <3>1, <3>2, <1>t
  <2>q. /\ r = "drvdata" <=> n = Len(CleanupSteps)
        /\ r = "irq" <=> n = IrqFreed
        /\ r = "tasklet" <=> n = TaskletKilled
        /\ r = "timer" <=> drv = "ldt" /\ n = 3
    <3>1. CASE drv = "ldt"
      BY <3>1, <2>p, Steps DEF IrqFreed, TaskletKilled
    <3>2. CASE drv = "misc"
      BY <3>2, <2>p, Steps DEF IrqFreed, TaskletKilled
    <3> QED
      BY <3>1, <3>2, <1>t
  <2>3. TypeOK'
    <3>1. badirq' \in BOOLEAN /\ pending' \in BOOLEAN
      BY <2>1, <1>t
    <3>2. odd' \subseteq {"overlap", "early open"}
      BY <2>1, <1>t
    <3>3. {irq', port', loopback', pending', scheduled', running', open', uaf', badirq'}
            \subseteq BOOLEAN
      BY <3>1, <1>i, Types DEF Inv
    <3>4. phase' \in {"gone", "cleanup"} /\ held' \subseteq held
      BY <2>1
    <3> QED
      BY <3>2, <3>3, <3>4, <2>2, <1>i DEF Inv, TypeOK
  <2>4. Loading'
    BY <2>1 DEF Loading
  <2>5. Unloading'
    <3> SUFFICES ASSUME phase' = "cleanup"
                 PROVE  Unloading'
      BY DEF Unloading
    <3>1. n # Len(CleanupSteps) /\ n' = n + 1
      BY <2>1
    <3>2. n' \in 1 .. Len(CleanupSteps)
      BY <3>1, <2>d
    <3>3. held' \subseteq {CleanupSteps[i] : i \in n' .. Len(CleanupSteps)}
      <4> SUFFICES ASSUME NEW x \in held'
                   PROVE  \E i \in n' .. Len(CleanupSteps) : x = CleanupSteps[i]
        OBVIOUS
      <4>1. x \in held /\ x # CleanupSteps[n]
        BY <2>1
      <4>2. PICK i \in n .. Len(CleanupSteps) : x = CleanupSteps[i]
        BY <4>1, <1>i
      <4>3. i # n
        BY <4>1, <4>2
      <4>4. i \in n' .. Len(CleanupSteps)
        BY <4>3, <3>1, <2>d
      <4> QED
        BY <4>2, <4>4
    <3> QED
      BY <3>2, <3>3, <1>i, <1>s DEF Unloading
  <2>6. Loaded'
    <3> SUFFICES ASSUME phase' = "cleanup"
                 PROVE  Loaded'
      BY <2>1 DEF Loaded
    <3>1. n # Len(CleanupSteps) /\ n' = n + 1 /\ r # "drvdata"
      BY <2>1, <2>q
    <3>2. IF failed = "drvdata" THEN held' = {} ELSE "drvdata" \in held'
      BY <3>1, <2>1, <1>l, <1>i DEF Loaded
    <3>3. n' <= IrqFreed => n <= IrqFreed /\ r # "irq"
      <4>1. IrqFreed \in {2, 4}
        BY DEF IrqFreed
      <4>2. n' <= IrqFreed => n <= IrqFreed /\ n # IrqFreed
        BY <4>1, <3>1, <2>2
      <4> QED
        BY <4>2, <2>q
    <3>4. n' <= IrqFreed /\ IrqReached /\ irq /\ port => "irq" \in held'
      BY <3>3, <2>1, <1>l, <1>i DEF Loaded
    <3> QED
      BY <3>2, <3>4, <1>i, <1>s DEF Loaded
  <2>7. CleanExit'
    <3>1. phase' = "gone" => held' = {}
      <4> SUFFICES ASSUME phase' = "gone", NEW x \in held'
                   PROVE  FALSE
        OBVIOUS
      <4>1. n = Len(CleanupSteps) /\ x \in held /\ x # CleanupSteps[n]
        BY <2>1
      <4>2. PICK i \in n .. Len(CleanupSteps) : x = CleanupSteps[i]
        BY <4>1, <1>i
      <4>3. i = n
        BY <4>1, <2>d
      <4> QED
        BY <4>1, <4>2, <4>3
    <3>2. ASSUME r = "irq", irq, r \notin held
          PROVE  IF drv = "ldt"
                 THEN ~port \/ failed \in {"in_buf", "out_buf", "ioport", "irq"}
                 ELSE failed \in {"drvdata", "misc"}
      <4>1. IrqFreed \in {2, 4} /\ n = IrqFreed
        BY <3>2, <2>q DEF IrqFreed
      <4>2. n <= IrqFreed
        BY <4>1
      <4>3. ~(IrqReached /\ port)
        BY <4>2, <3>2, <1>l, <1>i DEF Loaded
      <4>4. CASE drv = "ldt"
        <5>1. "drvdata" \in held
          BY <4>4, <3>2, <1>2 DEF LooksInto
        <5>2. failed # "drvdata"
          BY <5>1, <1>l, <1>i DEF Loaded
        <5> QED
          BY <4>3, <4>4, <5>2, <1>l DEF IrqReached, Parts
      <4>5. CASE drv = "misc"
        BY <4>3, <4>5, <1>l, <1>i DEF IrqReached, Parts
      <4> QED
        BY <4>4, <4>5, <1>t
    <3>3. badirq' => IF drv = "ldt"
                     THEN ~port \/ failed \in {"in_buf", "out_buf", "ioport", "irq"}
                     ELSE failed \in {"drvdata", "misc"}
      BY <2>1, <3>2, <1>l DEF CleanExit
    <3>4. phase' \in {"gone", "cleanup"}
      BY <2>1
    <3> QED
      BY <3>1, <3>3, <3>4, <1>i DEF CleanExit
  <2>8. Calm'
    <3> SUFFICES ASSUME odd' = {}, ~(drv = "misc" /\ failed = "irq")
                 PROVE  Calm'
      BY <1>i DEF Calm
    <3>1. odd = {} /\ (r = "timer" => handler = "idle")
      BY <2>1
    <3>2. /\ ~uaf /\ ~open
          /\ "drvdata" \notin held => Quiet
          /\ drv = "misc" \/ n > 3 => ~pending /\ handler = "idle"
          /\ n > TaskletKilled => ~scheduled /\ ~running
      BY <3>1, <1>l, <1>i DEF Calm
    <3>3. pending' => pending /\ r # "timer"
      BY <2>1, <1>t
    <3>4. drv = "misc" \/ n' > 3 \/ phase' = "gone" => ~pending' /\ handler = "idle"
      <4>1. CASE drv = "misc"
        BY <4>1, <3>2, <3>3
      <4>2. CASE drv = "ldt"
        <5>1. n' > 3 \/ phase' = "gone" => n > 3 \/ n = 3
          BY <4>2, <2>1, <2>p
        <5> QED
          BY <4>2, <5>1, <2>q, <3>1, <3>2, <3>3
      <4> QED
        BY <4>1, <4>2, <1>t
    <3>5. n' > TaskletKilled \/ phase' = "gone" => ~scheduled /\ ~running
      <4>1. n' > TaskletKilled \/ phase' = "gone" =>
              n > TaskletKilled \/ n = TaskletKilled
        <5>1. CASE drv = "ldt"
          <6>1. TaskletKilled = 5
            BY <5>1 DEF TaskletKilled
          <6> QED
            BY <6>1, <5>1, <2>1, <2>p
        <5>2. CASE drv = "misc"
          <6>1. TaskletKilled = 3
            BY <5>2 DEF TaskletKilled
          <6> QED
            BY <6>1, <5>2, <2>1, <2>p
        <5> QED
          BY <5>1, <5>2, <1>t
      <4> QED
        BY <4>1, <2>q, <3>2, <1>i
    <3>6. "drvdata" \notin held' => "drvdata" \notin held \/ phase' = "gone"
      BY <2>1, <2>q
    <3>7. phase' = "gone" \/ "drvdata" \notin held' => Quiet'
      <4>1. CASE phase' = "gone"
        BY <4>1, <3>2, <3>4, <3>5, <1>i DEF Quiet
      <4>2. CASE "drvdata" \notin held
        BY <4>2, <3>2, <3>3, <1>i DEF Quiet
      <4> QED
        BY <4>1, <4>2, <3>6
    <3>8. phase' \in {"gone", "cleanup"}
      BY <2>1
    <3> QED
      BY <3>2, <3>4, <3>5, <3>7, <3>8, <1>i, <1>s DEF Calm, Early
  <2> QED
    BY <2>1, <2>3, <2>4, <2>5, <2>6, <2>7, <2>8, <1>i, <1>l, <1>s DEF Inv
<1> QED
  BY <1>1, <1>2

\* Every step keeps the invariant.
LEMMA InvStep == Inv /\ [Next]_vars => Inv'
<1> SUFFICES ASSUME Inv, [Next]_vars
             PROVE  Inv'
  OBVIOUS
<1>1. CASE UNCHANGED vars
  <2>1. Beside /\ UNCHANGED <<pending, handler, scheduled, running, open, uaf, odd>>
    BY <1>1 DEF vars, param, timer, tasklet, Beside
  <2>2. TypeOK'
    BY <2>1 DEF Inv, TypeOK, Beside
  <2>3. Calm'
    BY <2>1 DEF Inv, Calm, Quiet, Early, TaskletKilled, Beside
  <2> QED
    BY <2>1, <2>2, <2>3, BesideStep
<1>2. CASE Next
  BY <1>2, InitStepKeeps, InitFailsKeeps, UnloadKeeps, CleanupStepKeeps,
     BesideKeeps DEF Next
<1> QED
  BY <1>1, <1>2

\* The invariant holds throughout the life of the module.
THEOREM Invariance == Spec => []Inv
BY InvInit, InvStep, PTL DEF Spec

\* ldt_cleanup and misc_loop_drv_cleanup give back what was acquired, wherever
\* module_init failed, except after the two failures that return at once; they
\* crash only without drvdata.
THEOREM ExitIsClean == Spec => []CleanExit
<1>1. Inv => CleanExit
  BY DEF Inv
<1> QED
  BY <1>1, Invariance, PTL

\* The order misc device, timer, interrupt, tasklet, memory of the cleanup keeps
\* the parties that start each other away from freed memory, unless a timer
\* handler ran during del_timer, the device was open when module_init failed or
\* opened after that, or stayed registered.
THEOREM NothingUsedAfterFree == Spec => []NoUseAfterFree
<1>1. Inv => NoUseAfterFree
  <2> SUFFICES ASSUME Inv
               PROVE  NoUseAfterFree
    OBVIOUS
  <2>1. TypeOK /\ Calm
    BY DEF Inv
  <2> QED
    BY <2>1 DEF Calm, NoUseAfterFree
<1> QED
  BY <1>1, Invariance, PTL
----------------------------------------------------------------------------
(* tasklet_kill *)

\* The cleanup has come to tasklet_kill, and nothing odd happened before.
AtKill == phase = "cleanup" /\ n = TaskletKilled /\ odd = {}

\* Whoever could schedule the tasklet has been stopped by then: the timer and
\* its handler, the interrupt, the processes.
LEMMA AllStopped ==
  ASSUME Inv, AtKill
  PROVE  handler = "idle" /\ ~pending /\ "irq" \notin held /\ ~open
<1>1. drv \in {"ldt", "misc"} /\ Calm /\ Unloading
  BY DEF Inv, TypeOK
<1>2. handler = "idle" /\ ~pending /\ ~open
  BY <1>1 DEF Calm, Unloading, AtKill, TaskletKilled
<1>3. ASSUME NEW i \in TaskletKilled .. Len(CleanupSteps)
      PROVE  CleanupSteps[i] # "irq"
  <2>1. CASE drv = "ldt"
    <3>1. TaskletKilled = 5 /\ Len(CleanupSteps) = 9
      BY <2>1, Lengths DEF TaskletKilled
    <3>2. i \in 5 .. 9
      BY <1>3, <3>1
    <3>3. i \in {5, 6, 7, 8, 9}
      BY ONLY <3>2
    <3> QED
      BY <2>1, <3>3, Steps
  <2>2. CASE drv = "misc"
    <3>1. TaskletKilled = 3 /\ Len(CleanupSteps) = 5
      BY <2>2, Lengths DEF TaskletKilled
    <3>2. i \in 3 .. 5
      BY <1>3, <3>1
    <3>3. i \in {3, 4, 5}
      BY ONLY <3>2
    <3> QED
      BY <2>2, <3>3, Steps
  <2> QED
    BY <1>1, <2>1, <2>2
<1>4. "irq" \notin held
  BY <1>1, <1>3 DEF Unloading, AtKill
<1> QED
  BY <1>2, <1>4

\* While the cleanup waits in tasklet_kill nothing schedules the tasklet again,
\* so it waits for the runs that were already asked for and no others.
KillUndisturbed == [][AtKill /\ ~scheduled => ~scheduled']_vars

\* The order of ldt_cleanup and misc_loop_drv_cleanup, device, timer and
\* interrupt before tasklet_kill, leaves nobody who could keep the tasklet busy,
\* with any parameters and wherever module_init failed.  This is the part of
\* CleanupEnds that does not depend on the scheduler.
THEOREM KillEnds == Spec => KillUndisturbed
<1>1. ASSUME Inv, [Next]_vars, AtKill, ~scheduled
      PROVE  ~scheduled'
  <2>1. handler = "idle" /\ ~pending /\ "irq" \notin held /\ ~open
    BY <1>1, AllStopped
  <2>2. CASE UNCHANGED vars
    BY <1>1, <2>2 DEF vars, tasklet
  <2>3. CASE InitStep \/ InitFails \/ Unload \/ CleanupStep
    BY <1>1, <2>3 DEF InitStep, InitFails, Unload, CleanupStep, tasklet
  <2>4. CASE TimerStep
    BY <2>1, <2>4, <1>1 DEF TimerStep, TimerExpires, TimerSchedules, TimerRearms
  <2>5. CASE Isr \/ Write \/ Close
    BY <2>1, <2>5 DEF Isr, Write, Close
  <2>6. CASE TaskletStep \/ Open
    BY <1>1, <2>6
       DEF TaskletStep, TaskletBegins, TaskletEnds, Rescheduled, Open, tasklet
  <2> QED
    BY <1>1, <2>2, <2>3, <2>4, <2>5, <2>6 DEF Next
<1> QED
  BY <1>1, Invariance, PTL DEF Spec, KillUndisturbed
=============================================================================
