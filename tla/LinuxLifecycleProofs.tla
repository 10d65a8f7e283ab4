------------------------ MODULE LinuxLifecycleProofs ------------------------
(***************************************************************************)
(* What modelnet_init, hopclock and modelnet_cleanup owe each other, for    *)
(* every bound on the calendar.  Types hold on every kernel.  On a kernel   *)
(* that does not preempt its worker threads (Preemptible = FALSE) nothing   *)
(* is left behind when the module goes, and the calendar and the work queue *)
(* outlive their users.                                                     *)
(***************************************************************************)
EXTENDS LinuxLifecycle, TLAPS

\* The steps of modelnet_init before the clock starts, and the steps of
\* modelnet_cleanup once modelnet_die is set.
Early == {"init", "load", "clock"}
Dying == {"cancel", "flush", "destroy", "unload", "unloaded"}

\* What holds of the module at each point of init and cleanup:
\* nothing runs before start_clock or when that has crashed, the calendar is there from
\* modelnet_load to modelnet_unload, the hook only while the module is live.
PhaseInv ==
    /\ rmmod \in Early \cup {"oops"} => ~timer /\ work = "none"
    /\ rmmod = "clock" => calendar = "allocated"
    /\ hook => rmmod = "live"
    /\ sysctl => rmmod \notin Dying \cup {"die"}
    /\ rmmod \in {"hook", "live", "die", "cancel", "flush", "destroy"} =>
         workqueue = "live" /\ calendar = "allocated"
    /\ rmmod = "unload" => calendar = "allocated"
    /\ work # "none" => calendar = "allocated" /\ workqueue = "live"

\* The part that needs a processor hopclock does not share between its test of
\* modelnet_die and queue_delayed_work: once modelnet_die is set no hopclock is
\* between the two, so the timer that cancel_delayed_work turns off stays off, and
\* what flush_workqueue has waited for does not come back.
QuietInv ==
    /\ rmmod \in Dying => die /\ work # "requeue"
    /\ rmmod \in Dying \ {"cancel"} => ~timer
    /\ rmmod \in {"destroy", "unload", "unloaded"} => work = "none"

\* The inductive invariant.
LifeInv == TypeOK /\ PhaseInv /\ QuietInv
-----------------------------------------------------------------------------
\* Every variable keeps its type on every kernel; in particular hopclock never has
\* more packets on the calendar than filter_ipinput has put there.
THEOREM TypeCorrect == Spec => []TypeOK
<1> USE LifecycleAssumption DEF LifecycleAssumption
<1>1. Init => TypeOK
  <2> SUFFICES ASSUME Init PROVE TypeOK
    OBVIOUS
  <2>1. sysctl \in BOOLEAN /\ hook \in BOOLEAN /\ die \in BOOLEAN /\ timer \in BOOLEAN
    BY DEF Init
  <2>2. queued \in 0..MaxQueued
    BY DEF Init
  <2>3. QED
    BY <2>1, <2>2 DEF Init, TypeOK
<1>2. TypeOK /\ [Next]_vars => TypeOK'
  <2> SUFFICES ASSUME TypeOK, [Next]_vars PROVE TypeOK'
    OBVIOUS
  <2>1. CASE register_sysctl
    BY <2>1 DEF register_sysctl, TypeOK
  <2>2. CASE modelnet_load
    BY <2>2 DEF modelnet_load, TypeOK
  <2>3. CASE start_clock
    BY <2>3 DEF start_clock, TypeOK
  <2>4. CASE register_hook
    BY <2>4 DEF register_hook, TypeOK
  <2>5. CASE packet_in
    BY <2>5 DEF packet_in, TypeOK
  <2>6. CASE timer_fires
    BY <2>6 DEF timer_fires, TypeOK
  <2>7. CASE worker_runs
    BY <2>7 DEF worker_runs, TypeOK
  <2>8. CASE hopclock
    BY <2>8 DEF hopclock, TypeOK
  <2>9. CASE hopclock_requeue
    BY <2>9 DEF hopclock_requeue, TypeOK
  <2>10. CASE unregister
    BY <2>10 DEF unregister, TypeOK
  <2>11. CASE set_die
    BY <2>11 DEF set_die, TypeOK
  <2>12. CASE cancel_delayed_work
    BY <2>12 DEF cancel_delayed_work, TypeOK
  <2>13. CASE flush_workqueue
    BY <2>13 DEF flush_workqueue, TypeOK
  <2>14. CASE destroy_workqueue
    BY <2>14 DEF destroy_workqueue, TypeOK
  <2>15. CASE modelnet_unload
    BY <2>15 DEF modelnet_unload, TypeOK
  <2>16. CASE UNCHANGED vars
    BY <2>16 DEF vars, TypeOK
  <2>17. QED
    BY <2>1, <2>2, <2>3, <2>4, <2>5, <2>6, <2>7, <2>8, <2>9, <2>10, <2>11, <2>12, <2>13, <2>14, <2>15, <2>16 DEF Next, InitStep, ClockStep, CleanupStep
<1>3. QED
  BY <1>1, <1>2, PTL DEF Spec

\* The invariant of loading and unloading: on a kernel where rmmod cannot come
\* between hopclock's test of modelnet_die and its queue_delayed_work, the phases of
\* init and cleanup and the clock never disagree.
THEOREM LifecycleInvariant ==
    ASSUME ~Preemptible
    PROVE  Spec => []LifeInv
<1> USE LifecycleAssumption DEF LifecycleAssumption
<1>1. Init => PhaseInv /\ QuietInv
  BY DEF Init, PhaseInv, QuietInv, Early, Dying
<1>2. LifeInv /\ [Next]_vars => PhaseInv' /\ QuietInv'
  <2> SUFFICES ASSUME LifeInv, [Next]_vars PROVE PhaseInv' /\ QuietInv'
    OBVIOUS
  <2> USE ~Preemptible DEF LifeInv, TypeOK, PhaseInv, QuietInv, Early, Dying, MayRun, Loaded
  <2>1. CASE register_sysctl
    BY <2>1 DEF register_sysctl
  <2>2. CASE modelnet_load
    BY <2>2 DEF modelnet_load
  <2>3. CASE start_clock
    BY <2>3 DEF start_clock
  <2>4. CASE register_hook
    BY <2>4 DEF register_hook
  <2>5. CASE packet_in
    BY <2>5 DEF packet_in
  <2>6. CASE timer_fires
    BY <2>6 DEF timer_fires
  <2>7. CASE worker_runs
    BY <2>7 DEF worker_runs
  <2>8. CASE hopclock
    BY <2>8 DEF hopclock
  <2>9. CASE hopclock_requeue
    BY <2>9 DEF hopclock_requeue
  <2>10. CASE unregister
    BY <2>10 DEF unregister
  <2>11. CASE set_die
    BY <2>11 DEF set_die
  <2>12. CASE cancel_delayed_work
    BY <2>12 DEF cancel_delayed_work
  <2>13. CASE flush_workqueue
    BY <2>13 DEF flush_workqueue
  <2>14. CASE destroy_workqueue
    BY <2>14 DEF destroy_workqueue
  <2>15. CASE modelnet_unload
    BY <2>15 DEF modelnet_unload
  <2>16. CASE UNCHANGED vars
    BY <2>16 DEF vars
  <2>17. QED
    BY <2>1, <2>2, <2>3, <2>4, <2>5, <2>6, <2>7, <2>8, <2>9, <2>10, <2>11, <2>12, <2>13, <2>14, <2>15, <2>16 DEF Next, InitStep, ClockStep, CleanupStep
<1>3. Spec => [](TypeOK /\ PhaseInv /\ QuietInv)
  <2>1. LifeInv /\ [Next]_vars /\ TypeOK' => LifeInv'
    BY <1>2 DEF LifeInv
  <2>2. QED
    BY <1>1, <2>1, TypeCorrect, PTL DEF Spec, LifeInv
<1>4. QED
  BY <1>3, PTL DEF LifeInv

\* When modelnet_cleanup is through, no timer, no queued or running hopclock, no
\* netfilter hook and no sysctl entry can call into the freed module.
THEOREM UnloadLeavesNothing ==
    ASSUME ~Preemptible
    PROVE  Spec => []NothingLeftBehind
<1>1. LifeInv => NothingLeftBehind
  BY DEF LifeInv, PhaseInv, QuietInv, NothingLeftBehind, Dying
<1>2. QED
  BY <1>1, LifecycleInvariant, PTL

\* hopclock and filter_ipinput never run on a calendar that is not allocated, nor is
\* work pending on a work queue that is gone, at any point of loading and unloading.
THEOREM CalendarOutlivesUsers ==
    ASSUME ~Preemptible
    PROVE  Spec => []CalendarInUse
<1>1. LifeInv => CalendarInUse
  BY DEF LifeInv, PhaseInv, CalendarInUse
<1>2. QED
  BY <1>1, LifecycleInvariant, PTL

\* The comments in modelnet_cleanup, "keep intrp_routine from queueing itself" and
\* "no "new ones"", are right where the worker is not preempted: after
\* cancel_delayed_work the timer stays off.
THEOREM CancelIsFinal ==
    ASSUME ~Preemptible
    PROVE  Spec => []NoNewOnes
<1>1. LifeInv => NoNewOnes
  BY DEF LifeInv, QuietInv, NoNewOnes, Dying
<1>2. QED
  BY <1>1, LifecycleInvariant, PTL
=============================================================================
