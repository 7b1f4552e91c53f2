------------------------------ MODULE Lifecycle ------------------------------
(***************************************************************************)
(* Loading and unloading ldt/ldt.c and ldt/misc_loop_drv.c, every step of  *)
(* which may fail, while the interrupt, the timer and the tasklet of the   *)
(* driver run on other CPUs and processes open the device as soon as it is *)
(* registered.  One life of the module is followed, from module_init until *)
(* its memory is gone.                                                     *)
(*                                                                         *)
(* External, from their use: a module is removed only while no file is     *)
(* open, but the memory of one whose module_init fails is freed in any     *)
(* case; free_irq waits for a running handler and del_timer does not;      *)
(* tasklet_kill waits until the tasklet is neither scheduled nor running.  *)
(* UART registers and messages are left out; irq is not 0 in misc.         *)
(***************************************************************************)
EXTENDS Naturals, Sequences

VARIABLES
  drv, irq, port, loopback,     \* the driver; parameters that are not 0
  phase, n,                     \* part of the life, position in its steps
  failed,                       \* the step of module_init that failed
  held,                         \* what has been acquired and not released
  pending, handler,             \* ldt_timer pending; where ldt_timer_func is
  scheduled, running,           \* the tasklet
  open,                         \* a process has the device open
  uaf, badirq,                  \* freed memory was used; free_irq without request_irq
  odd                           \* history, see the properties

param   == <<drv, irq, port, loopback>>
timer   == <<pending, handler>>
tasklet == <<scheduled, running>>
vars    == <<param, phase, n, failed, held, timer, tasklet, open, uaf, badirq, odd>>

Init ==
  /\ drv \in {"ldt", "misc"}
  /\ irq \in BOOLEAN /\ port \in BOOLEAN /\ loopback \in BOOLEAN
  /\ drv = "misc" => irq /\ port /\ loopback
  /\ phase = "init" /\ n = 1
  /\ failed = "none"
  /\ held = {}
  /\ pending = FALSE /\ handler = "idle"
  /\ scheduled = FALSE /\ running = FALSE
  /\ open = FALSE
  /\ uaf = FALSE /\ badirq = FALSE /\ odd = {}

\* The memory of drvdata, and the module's own memory, can be used.
Usable == phase # "gone" /\ "drvdata" \in held

----------------------------------------------------------------------------
(* ldt_init and misc_loop_drv_init *)

InitSteps ==
  IF drv = "ldt"
  THEN <<"drvdata", "in_buf", "out_buf", "ioport", "irq", "timer", "debugfs", "misc">>
  ELSE <<"drvdata", "region", "misc", "irq">>

\* uart_probe maps the port and requests the interrupt if the parameters say so.
Wanted(r) ==
  /\ r = "ioport" => port
  /\ r = "irq" => irq /\ port

\* The next step succeeds (or is skipped).  debugfs_create_file may also return
\* NULL, which is not treated as an error.
InitStep ==
  LET r == InitSteps[n] IN
  /\ phase = "init"
  /\ \/ held' = held \cup {x \in {r} \ {"timer"} : Wanted(x)}
     \/ r = "debugfs" /\ held' = held
  /\ pending' = (pending \/ r = "timer")
  /\ IF n = Len(InitSteps) THEN phase' = "live" /\ n' = n
                           ELSE phase' = phase /\ n' = n + 1
  /\ UNCHANGED <<param, failed, handler, tasklet, open, uaf, badirq, odd>>

\* Mutated form: a failed allocation of out_buf returns at once.
AfterFailure_NoExit(r) ==
  CASE r = "drvdata"                               -> "live"
    [] r \in {"region", "irq", "out_buf"}          -> "gone"
    [] OTHER                                       -> "cleanup"

\* Without drvdata the return value is still 0 and the module stays;
\* misc_loop_drv_init returns without cleaning up from two other failures.
AfterFailure(r) ==
  CASE r = "drvdata"                               -> "live"
    [] drv = "misc" /\ r \in {"region", "irq"}     -> "gone"
    [] OTHER                                       -> "cleanup"

\* The next step fails, perhaps while a process has the device open already.
InitFails ==
  LET r == InitSteps[n] IN
  /\ phase = "init" /\ r # "timer" /\ Wanted(r)
  /\ failed' = r
  /\ phase' = AfterFailure(r)
  /\ n' = 1
  /\ odd' = odd \cup {x \in {"early open"} : open}
  /\ UNCHANGED <<param, held, timer, tasklet, open, uaf, badirq>>

----------------------------------------------------------------------------
(* ldt_cleanup and misc_loop_drv_cleanup *)

\* rmmod.
Unload ==
  /\ phase = "live" /\ ~open
  /\ phase' = "cleanup" /\ n' = 1
  /\ UNCHANGED <<param, failed, held, timer, tasklet, open, uaf, badirq, odd>>

\* Mutated form: the tasklet is killed before the interrupt is released.
CleanupSteps_KillFirst ==
  IF drv = "ldt"
  THEN <<"debugfs", "misc", "timer", "tasklet", "irq", "in_buf", "out_buf", "ioport",
         "drvdata">>
  ELSE <<"misc", "tasklet", "irq", "region", "drvdata">>

CleanupSteps ==
  IF drv = "ldt"
  THEN <<"debugfs", "misc", "timer", "irq", "tasklet", "in_buf", "out_buf", "ioport",
         "drvdata">>
  ELSE <<"misc", "irq", "tasklet", "region", "drvdata">>

\* The steps that look into drvdata without having tested it.
LooksInto(r) ==
  \/ drv = "ldt" /\ ((r = "irq" /\ irq) \/ r = "in_buf")
  \/ drv = "misc" /\ r = "tasklet"

\* free_irq is called if there is an interrupt number, del_timer and tasklet_kill
\* always, the others if the pointer is not NULL.
CleanupStep ==
  LET r == CleanupSteps[n] IN
  /\ phase = "cleanup"
  /\ r = "tasklet" => ~scheduled /\ ~running
  /\ IF LooksInto(r) /\ "drvdata" \notin held
     THEN phase' = "crashed" /\ UNCHANGED <<n, held, pending, badirq, odd>>
     ELSE /\ held' = held \ {r}
          /\ badirq' = (badirq \/ (r = "irq" /\ irq /\ r \notin held))
          /\ pending' = (pending /\ r # "timer")
          /\ odd' = odd \cup {x \in {"overlap"} : r = "timer" /\ handler # "idle"}
          /\ IF n = Len(CleanupSteps) THEN phase' = "gone" /\ n' = n
                                      ELSE phase' = phase /\ n' = n + 1
  /\ UNCHANGED <<param, failed, handler, tasklet, open, uaf>>

----------------------------------------------------------------------------
(* What runs meanwhile *)

\* ldt_timer_func, which always starts the timer again.
TimerExpires ==
  /\ pending /\ handler = "idle"
  /\ pending' = FALSE /\ handler' = "schedule"
  /\ uaf' = (uaf \/ phase = "gone")
  /\ UNCHANGED <<param, phase, n, failed, held, tasklet, open, badirq, odd>>

TimerSchedules ==
  /\ handler = "schedule"
  /\ handler' = "rearm"
  /\ scheduled' = (scheduled \/ loopback)
  /\ uaf' = (uaf \/ phase = "gone")
  /\ UNCHANGED <<param, phase, n, failed, held, pending, running, open, badirq, odd>>

TimerRearms ==
  /\ handler = "rearm"
  /\ handler' = "idle" /\ pending' = TRUE
  /\ uaf' = (uaf \/ phase = "gone")
  /\ UNCHANGED <<param, phase, n, failed, held, tasklet, open, badirq, odd>>

\* ldt_isr and misc_loop_drv_isr.
Isr ==
  /\ "irq" \in held
  /\ scheduled' = TRUE
  /\ uaf' = (uaf \/ ~Usable)
  /\ UNCHANGED <<param, phase, n, failed, held, timer, running, open, badirq, odd>>

\* The tasklet works on drvdata.
TaskletBegins ==
  /\ scheduled /\ ~running
  /\ scheduled' = FALSE /\ running' = TRUE
  /\ uaf' = (uaf \/ ~Usable)
  /\ UNCHANGED <<param, phase, n, failed, held, timer, open, badirq, odd>>

\* Mutated form: the tasklet schedules itself again.
Rescheduled_Self == TRUE

Rescheduled == scheduled

TaskletEnds ==
  /\ running
  /\ running' = FALSE /\ scheduled' = Rescheduled
  /\ uaf' = (uaf \/ ~Usable)
  /\ UNCHANGED <<param, phase, n, failed, held, timer, open, badirq, odd>>

\* The device can be opened while it is registered and rmmod has not begun.
Open ==
  /\ ~open /\ held \cap {"misc", "debugfs"} # {}
  /\ phase = "cleanup" => failed # "none"
  /\ open' = TRUE
  /\ uaf' = (uaf \/ ~Usable)
  /\ odd' = odd \cup {x \in {"early open"} : phase = "cleanup"}
  /\ UNCHANGED <<param, phase, n, failed, held, timer, tasklet, badirq>>

\* write schedules the tasklet.
Write ==
  /\ open
  /\ scheduled' = TRUE
  /\ uaf' = (uaf \/ ~Usable)
  /\ UNCHANGED <<param, phase, n, failed, held, timer, running, open, badirq, odd>>

\* The file is used for the last time.
Close ==
  /\ open /\ open' = FALSE
  /\ uaf' = (uaf \/ ~Usable)
  /\ UNCHANGED <<param, phase, n, failed, held, timer, tasklet, badirq, odd>>

----------------------------------------------------------------------------
TimerStep == TimerExpires \/ TimerSchedules \/ TimerRearms
TaskletStep == TaskletBegins \/ TaskletEnds

\* A crash ends the story.
Next ==
  /\ phase # "crashed"
  /\ \/ InitStep \/ InitFails \/ Unload \/ CleanupStep
     \/ TimerStep \/ Isr \/ TaskletStep \/ Open \/ Write \/ Close

\* A loader, timer handler or tasklet that can run does; nobody has to open,
\* write, close or unload, and no interrupt has to come.
Fairness ==
  /\ WF_vars(InitStep) /\ WF_vars(CleanupStep)
  /\ WF_vars(TimerStep) /\ WF_vars(TaskletStep)

Spec == Init /\ [][Next]_vars /\ Fairness

----------------------------------------------------------------------------
(* What must hold *)

\* Every variable has its type.
TypeOK ==
  /\ drv \in {"ldt", "misc"}
  /\ {irq, port, loopback, pending, scheduled, running, open, uaf, badirq} \subseteq BOOLEAN
  /\ phase \in {"init", "live", "cleanup", "gone", "crashed"} /\ n \in 1..9
  /\ LET step == {"drvdata", "in_buf", "out_buf", "region", "ioport", "irq", "debugfs",
                  "misc"}
     IN  failed \in step \cup {"none"} /\ held \subseteq step
  /\ handler \in {"idle", "schedule", "rearm"}
  /\ odd \subseteq {"overlap", "early open"}

\* When the module is gone it has given everything back, wherever loading
\* failed, but for the two failures of misc_loop_drv_init that return without
\* cleaning up: they leave drvdata, and the second one a registered device whose
\* code is gone.  Unloading crashes only if drvdata was never allocated.  An
\* interrupt that was not requested is freed only after a failure before
\* request_irq, or by ldt without a port.
CleanExit ==
  /\ phase = "gone" =>
       held = CASE drv = "misc" /\ failed = "region" -> {"drvdata"}
                [] drv = "misc" /\ failed = "irq"    -> {"drvdata", "region", "misc"}
                [] OTHER                             -> {}
  /\ phase = "crashed" => failed = "drvdata"
  /\ badirq =>
       IF drv = "ldt" THEN ~port \/ failed \in {"in_buf", "out_buf", "ioport", "irq"}
                      ELSE failed \in {"drvdata", "misc"}

\* Nothing of the driver runs on freed memory, although interrupt, timer and
\* tasklet start each other until the end: the order of the cleanup keeps them
\* away, unless ldt_timer_func is running when del_timer is called, a process
\* has the device open when module_init fails or opens it during the cleanup
\* after that, or the device stayed registered.  An open during a module_init
\* that succeeds, or a file closed before it fails, excuses nothing.
NoUseAfterFree ==
  /\ TypeOK
  /\ uaf => odd # {} \/ (drv = "misc" /\ failed = "irq")

\* The cleanup does not wait for ever in tasklet_kill, because whatever schedules
\* the tasklet has been stopped before; a timer handler that del_timer did not
\* wait for starts the timer again and may keep the tasklet busy, as may a
\* process that has the device open across a failed module_init.
CleanupEnds ==
  phase = "cleanup" ~> phase \in {"gone", "crashed"} \/ odd # {}
=============================================================================
