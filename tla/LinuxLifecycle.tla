--------------------------- MODULE LinuxLifecycle ---------------------------
(***************************************************************************)
(* Loading and unloading the Linux kernel module: modelnet_init,            *)
(* modelnet_cleanup, and the hopclock work item that queues itself again    *)
(* until modelnet_die tells it not to.                                      *)
(*                                                                          *)
(* The work queue is modelled as the code uses it.  queue_delayed_work arms *)
(* a timer; when it fires the work is put on the queue; a worker runs it.   *)
(* cancel_delayed_work stops an armed timer and nothing else;               *)
(* flush_workqueue and destroy_workqueue wait for work that is on the queue *)
(* or running, and know nothing of timers.  The clock's steps stop when the *)
(* module's memory is gone: what a timer left behind does then is           *)
(* undefined, and NothingLeftBehind is there to rule it out.                *)
(***************************************************************************)
EXTENDS Naturals

CONSTANTS Preemptible,   \* rmmod can run between hopclock's test of modelnet_die
                         \* and its call of queue_delayed_work: another processor,
                         \* or a kernel that preempts its worker threads
          MaxQueued      \* bound on the packets on the calendar

ASSUME LifecycleAssumption == Preemptible \in BOOLEAN /\ MaxQueued \in Nat

VARIABLES
    rmmod,      \* how far init or cleanup has got; "failed", "unloaded": the
                \* module is gone, after init failed or cleanup ended; "oops":
                \* init has crashed, the module stays and cannot be removed
    sysctl,     \* the sysctl table is registered
    hook,       \* the netfilter hook is registered
    die,        \* modelnet_die
    timer,      \* the delayed work's timer is armed
    work,       \* "none", "queued", "running", or "requeue": has read die = 0
    workqueue,  \* "none", "live", "destroyed"
    calendar,   \* "none", "allocated", "freed"
    queued      \* packets on the calendar

vars == <<rmmod, sysctl, hook, die, timer, work, workqueue, calendar, queued>>

Init == /\ rmmod = "init"
        /\ sysctl = FALSE /\ hook = FALSE /\ die = FALSE /\ timer = FALSE
        /\ work = "none" /\ workqueue = "none" /\ calendar = "none" /\ queued = 0
-----------------------------------------------------------------------------
(* modelnet_init.  A failure returns an error, and the kernel frees the      *)
(* module without calling modelnet_cleanup.                                  *)

register_sysctl ==
    /\ rmmod = "init"
    /\ \/ sysctl' = TRUE /\ rmmod' = "load"
       \/ rmmod' = "failed" /\ UNCHANGED sysctl
    /\ UNCHANGED <<hook, die, timer, work, workqueue, calendar, queued>>

modelnet_load ==
    /\ rmmod = "load"
    /\ \/ calendar' = "allocated" /\ rmmod' = "clock"
       \/ rmmod' = "failed" /\ UNCHANGED calendar
    /\ UNCHANGED <<sysctl, hook, die, timer, work, workqueue, queued>>

\* What create_workqueue returns is not tested: without a work queue
\* queue_delayed_work follows a null pointer, and insmod ends there.
start_clock ==
    /\ rmmod = "clock"
    /\ \/ workqueue' = "live" /\ timer' = TRUE /\ rmmod' = "hook"
       \/ rmmod' = "oops" /\ UNCHANGED <<workqueue, timer>>
    /\ UNCHANGED <<sysctl, hook, die, work, calendar, queued>>

register_hook ==
    /\ rmmod = "hook"
    /\ \/ hook' = TRUE /\ rmmod' = "live"
       \/ rmmod' = "failed" /\ UNCHANGED hook
    /\ UNCHANGED <<sysctl, die, timer, work, workqueue, calendar, queued>>
-----------------------------------------------------------------------------
(* The running module.                                                       *)

\* filter_ipinput puts a packet on the calendar.
packet_in == /\ hook /\ queued < MaxQueued
             /\ queued' = queued + 1
             /\ UNCHANGED <<rmmod, sysctl, hook, die, timer, work, workqueue, calendar>>

Loaded == rmmod \notin {"failed", "unloaded"}

\* The timer of the delayed work fires.
timer_fires == /\ Loaded /\ timer /\ work = "none"
               /\ timer' = FALSE /\ work' = "queued"
               /\ UNCHANGED <<rmmod, sysctl, hook, die, workqueue, calendar, queued>>

worker_runs == /\ Loaded /\ work = "queued" /\ workqueue = "live"
               /\ work' = "running"
               /\ UNCHANGED <<rmmod, sysctl, hook, die, timer, workqueue, calendar, queued>>

\* Variant with a fault: a packet is inserted again and not taken off.
hopclock_twice ==
    /\ Loaded /\ work = "running"
    /\ queued' \in 0..(queued + 1)
    /\ work' = IF die THEN "none" ELSE "requeue"
    /\ UNCHANGED <<rmmod, sysctl, hook, die, timer, workqueue, calendar>>

\* hopclock works off the calendar, then tests modelnet_die.
hopclock ==
    /\ Loaded /\ work = "running"
    /\ queued' \in 0..queued
    /\ work' = IF die THEN "none" ELSE "requeue"
    /\ UNCHANGED <<rmmod, sysctl, hook, die, timer, workqueue, calendar>>

\* ... and queues itself for the next tick.
hopclock_requeue ==
    /\ Loaded /\ work = "requeue"
    /\ work' = "none" /\ timer' = TRUE
    /\ UNCHANGED <<rmmod, sysctl, hook, die, workqueue, calendar, queued>>
-----------------------------------------------------------------------------
(* modelnet_cleanup, step by step.                                           *)

\* rmmod has the processor.
MayRun == Preemptible \/ work # "requeue"

unregister == /\ MayRun /\ rmmod = "live"
              /\ sysctl' = FALSE /\ hook' = FALSE /\ rmmod' = "die"
              /\ UNCHANGED <<die, timer, work, workqueue, calendar, queued>>

\* Variant with a fault: modelnet_die is never set.
set_die_not == /\ MayRun /\ rmmod = "die"
               /\ rmmod' = "cancel"
               /\ UNCHANGED <<sysctl, hook, die, timer, work, workqueue, calendar, queued>>

set_die == /\ MayRun /\ rmmod = "die"
           /\ die' = TRUE /\ rmmod' = "cancel"
           /\ UNCHANGED <<sysctl, hook, timer, work, workqueue, calendar, queued>>

cancel_delayed_work == /\ MayRun /\ rmmod = "cancel"
                       /\ timer' = FALSE /\ rmmod' = "flush"
                       /\ UNCHANGED <<sysctl, hook, die, work, workqueue, calendar, queued>>

flush_workqueue == /\ MayRun /\ rmmod = "flush" /\ work = "none"
                   /\ rmmod' = "destroy"
                   /\ UNCHANGED <<sysctl, hook, die, timer, work, workqueue, calendar, queued>>

\* Variant with a fault: the work queue goes although work is pending.
destroy_workqueue_now ==
    /\ MayRun /\ rmmod \in {"flush", "destroy"}
    /\ workqueue' = "destroyed" /\ rmmod' = "unload"
    /\ UNCHANGED <<sysctl, hook, die, timer, work, calendar, queued>>

destroy_workqueue == /\ MayRun /\ rmmod = "destroy" /\ work = "none"
                     /\ workqueue' = "destroyed" /\ rmmod' = "unload"
                     /\ UNCHANGED <<sysctl, hook, die, timer, work, calendar, queued>>

\* uninit_paths and vfree: whatever is still on the calendar is not freed.
modelnet_unload == /\ MayRun /\ rmmod = "unload"
                   /\ calendar' = "freed" /\ rmmod' = "unloaded"
                   /\ UNCHANGED <<sysctl, hook, die, timer, work, workqueue, queued>>

InitStep == register_sysctl \/ modelnet_load \/ start_clock \/ register_hook
CleanupStep == set_die \/ cancel_delayed_work \/ flush_workqueue
               \/ destroy_workqueue \/ modelnet_unload
ClockStep == timer_fires \/ worker_runs \/ hopclock \/ hopclock_requeue

Next == InitStep \/ packet_in \/ ClockStep \/ unregister \/ CleanupStep

Spec == Init /\ [][Next]_vars

\* rmmod is given the processor again and again, and its waits end when the work
\* queue stays quiet; timers and the worker run on.  Nobody has to start rmmod.
FairSpec == /\ Spec
            /\ SF_vars(set_die \/ cancel_delayed_work \/ modelnet_unload)
            /\ WF_vars(flush_workqueue \/ destroy_workqueue)
            /\ WF_vars(ClockStep)
-----------------------------------------------------------------------------
\* Types; hopclock puts no packet on the calendar that it has not taken from it.
TypeOK ==
    /\ rmmod \in {"init", "load", "clock", "hook", "live", "die", "cancel", "flush",
                  "destroy", "unload", "unloaded", "failed", "oops"}
    /\ {sysctl, hook, die, timer} \subseteq BOOLEAN
    /\ work \in {"none", "queued", "running", "requeue"}
    /\ workqueue \in {"none", "live", "destroyed"}
    /\ calendar \in {"none", "allocated", "freed"}
    /\ queued \in 0..MaxQueued

\* When modelnet_cleanup has run and the module's memory is gone, nothing can
\* call into it any more: no timer of hopclock_task is armed, no hopclock is
\* queued or running, and neither the netfilter hook nor the sysctl table is
\* registered.
NothingLeftBehind ==
    rmmod = "unloaded" => ~timer /\ work = "none" /\ ~hook /\ ~sysctl

\* hopclock and filter_ipinput only ever run on an allocated calendar, and the
\* worker on a live work queue.
CalendarInUse ==
    /\ hook \/ work \in {"running", "requeue"} => calendar = "allocated"
    /\ work # "none" => workqueue = "live"

\* The comments in modelnet_cleanup: "keep intrp_routine from queueing itself",
\* then cancel_delayed_work: "no "new ones"".  After the cancellation the timer
\* stays off.
NoNewOnes == rmmod \in {"flush", "destroy", "unload"} => ~timer

\* An rmmod that has begun is not held up forever by a hopclock that keeps
\* coming back.
UnloadFinishes == rmmod = "die" ~> rmmod = "unloaded"
=============================================================================
