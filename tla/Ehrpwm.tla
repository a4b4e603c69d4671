------------------------------- MODULE Ehrpwm -------------------------------
(***************************************************************************)
(* The EHRPWM platform driver, src/lkml/ehrpwm/ehrpwm.c: pwm_probe and     *)
(* pwm_remove under the driver core's device lock, pwm_exit, and the       *)
(* read_pwm threads.  pwm_exit may overlap a bind or unbind through sysfs, *)
(* and a thread may run between any two steps.  The misspelt releaae_      *)
(* mem_region of line 162 is read as the release_mem_region it stands for. *)
(***************************************************************************)
EXTENDS Integers

CONSTANTS
  MaxProbes,   \* bound: probes in a behaviour (each starts one thread)
  Faults       \* which calls of pwm_probe may fail

ASSUME ProbesAssumption == MaxProbes \in Nat \ {0}
ASSUME FaultsAssumption ==
  Faults \subseteq {"resource", "busy", "ioremap", "parent", "kthread_run"}

Regions == {"EHRPWM", "CM_PERS", "CTRL"}
Threads == 1 .. MaxProbes

VARIABLES
  module,      \* "unloaded", "loading", "loaded"; in pwm_exit: "stop",
               \* "unregister", "detach"
  op,          \* next step of the probe or remove in progress, or "none"
  bound,       \* the driver core has the device bound
  probes,      \* probes begun so far
  other,       \* regions another driver holds, with the same bounds
  regions,     \* regions this driver holds
  mapped,      \* the three addresses: "none", "mapped" or "stale"
  my_thread,   \* 0 is NULL, -1 an error pointer
  thread,      \* position of each thread: "none", "check", "read", "sleep", "ended"
  stop,        \* threads asked to stop
  oops,        \* why the kernel is in an undefined state, if it is
  unbound      \* history: the device was unbound through sysfs

coreVars   == <<module, op, bound, probes, unbound>>
deviceVars == <<other, regions, mapped>>
threadVars == <<my_thread, thread, stop>>
vars == <<coreVars, deviceVars, threadVars, oops>>

Alive  == {t \in Threads : thread[t] \notin {"none", "ended"}}
At(o)  == oops = "none" /\ op = o
Oops(why) == oops' = why /\ UNCHANGED <<coreVars, deviceVars, threadVars>>

Init ==
  /\ module = "unloaded" /\ op = "none" /\ bound = FALSE /\ probes = 0
  /\ other \in SUBSET Regions /\ regions = {} /\ mapped = "none"
  /\ my_thread = 0 /\ thread = [t \in Threads |-> "none"] /\ stop = {}
  /\ oops = "none" /\ unbound = FALSE

-----------------------------------------------------------------------------
(* pwm_init; the data of a new copy of the module is zero, and the device  *)
(* is probed at once.                                                      *)
pwm_init ==
  /\ At("none") /\ module = "unloaded" /\ probes < MaxProbes
  /\ module' = "loading" /\ mapped' = "none" /\ my_thread' = 0
  /\ op' = "request" /\ probes' = probes + 1
  /\ UNCHANGED <<bound, unbound, other, regions, thread, stop, oops>>

(* The sysfs files of the driver are there until it is unregistered.       *)
Sysfs == module \in {"loaded", "stop", "unregister"}

(* A bind or an unbind through sysfs (external).                           *)
bind ==
  /\ At("none") /\ Sysfs /\ ~bound /\ probes < MaxProbes
  /\ op' = "request" /\ probes' = probes + 1
  /\ UNCHANGED <<module, bound, unbound, deviceVars, threadVars, oops>>

unbind ==
  /\ At("none") /\ Sysfs /\ bound
  /\ op' = "unmap" /\ unbound' = TRUE
  /\ UNCHANGED <<module, bound, probes, deviceVars, threadVars, oops>>

-----------------------------------------------------------------------------
(* pwm_probe up to the three request_mem_region calls: a missing resource  *)
(* is dereferenced, an occupied region only reported.                      *)
pwm_probe_request ==
  /\ At("request")
  /\ \/ /\ regions' \in SUBSET (Regions \ other)
        /\ "busy" \in Faults \/ regions' = Regions \ other
        /\ op' = "map"
        /\ UNCHANGED <<module, bound, probes, unbound, other, mapped, threadVars,
                       oops>>
     \/ "resource" \in Faults /\ Oops("NULL pointer")

(* The three mappings, whose results are not looked at, and the registers  *)
(* of the parent, found through its driver data.                           *)
pwm_probe_map ==
  /\ At("map")
  /\ \/ /\ mapped' = "mapped" /\ op' = "run"
        /\ UNCHANGED <<module, bound, probes, unbound, other, regions, threadVars,
                       oops>>
     \/ {"ioremap", "parent"} \cap Faults # {} /\ Oops("NULL pointer")

(* The values my_thread may get; kthread_run's result is not looked at.    *)
kthread_run_mutant_forgotten == {my_thread}
kthread_run == {probes} \cup IF "kthread_run" \in Faults THEN {-1} ELSE {}

pwm_probe_run ==
  /\ At("run")
  /\ my_thread' \in kthread_run
  /\ thread' = IF my_thread' = -1 THEN thread ELSE [thread EXCEPT ![probes] = "check"]
  /\ op' = "none" /\ bound' = TRUE
  /\ module' = IF module = "loading" THEN "loaded" ELSE module
  /\ UNCHANGED <<probes, unbound, deviceVars, stop, oops>>

(* What pwm_remove releases.                                               *)
released_mutant_two == {"EHRPWM", "CTRL"}
released == Regions

(* pwm_remove unmaps and releases, also a region that was refused to       *)
(* pwm_probe and belongs to another driver.                                *)
pwm_remove ==
  /\ At("unmap")
  /\ mapped' = "stale"
  /\ regions' = regions \ released /\ other' = other \ released
  /\ op' = "none" /\ bound' = FALSE
  /\ UNCHANGED <<module, probes, unbound, threadVars, oops>>

-----------------------------------------------------------------------------
(* The thread pwm_exit stops, if there is one.                             *)
to_stop_mutant_none == {}
to_stop == {my_thread}

(* kthread_stop of an error pointer dereferences it.                       *)
Dereferenced == my_thread = -1

(* pwm_exit calls kthread_stop if my_thread is not NULL.                   *)
pwm_exit ==
  /\ oops = "none" /\ module = "loaded"
  /\ IF Dereferenced THEN Oops("error pointer")
     ELSE /\ module' = "stop" /\ stop' = stop \cup to_stop
          /\ UNCHANGED <<op, bound, probes, unbound, deviceVars, my_thread, thread,
                         oops>>

(* kthread_stop returns when the thread has ended.                         *)
pwm_exit_joined ==
  /\ oops = "none" /\ module = "stop" /\ stop \cap Alive = {}
  /\ module' = "unregister"
  /\ UNCHANGED <<op, bound, probes, unbound, deviceVars, threadVars, oops>>

(* platform_driver_unregister takes away the sysfs files and removes the   *)
(* device if it is bound; then the kernel frees the module.                *)
pwm_exit_unregister ==
  /\ At("none") /\ module = "unregister"
  /\ module' = "detach" /\ op' = IF bound THEN "unmap" ELSE "none"
  /\ UNCHANGED <<bound, probes, unbound, deviceVars, threadVars, oops>>

pwm_exit_unload ==
  /\ At("none") /\ module = "detach"
  /\ module' = "unloaded"
  /\ UNCHANGED <<op, bound, probes, unbound, deviceVars, threadVars, oops>>

-----------------------------------------------------------------------------
(* A step of a read_pwm thread.  Its code may be gone with the module.     *)
Step(t, from, to) ==
  /\ oops = "none" /\ thread[t] = from
  /\ IF module = "unloaded" THEN Oops("code freed")
     ELSE /\ thread' = [thread EXCEPT ![t] = to]
          /\ UNCHANGED <<coreVars, deviceVars, my_thread, stop, oops>>

(* Mutant: the thread does not look at kthread_should_stop.                *)
read_pwm_check_mutant_deaf(t) == Step(t, "check", "read")

(* The loop test; pwm_base is never NULL here.                             *)
read_pwm_check(t) == Step(t, "check", IF t \in stop THEN "ended" ELSE "read")

(* The register reads.  Addresses no longer mapped may still be reachable. *)
read_pwm_read(t) ==
  \/ Step(t, "read", "sleep")
  \/ oops = "none" /\ thread[t] = "read" /\ mapped = "stale" /\ Oops("unmapped")

(* msleep(300).                                                            *)
read_pwm_sleep(t) == Step(t, "sleep", "check")

read_pwm(t) == read_pwm_check(t) \/ read_pwm_read(t) \/ read_pwm_sleep(t)

-----------------------------------------------------------------------------
Halted ==
  /\ oops # "none" \/ (module = "unloaded" /\ probes = MaxProbes)
  /\ UNCHANGED vars

probe   == pwm_probe_request \/ pwm_probe_map \/ pwm_probe_run
exiting == pwm_exit_joined \/ pwm_exit_unregister \/ pwm_exit_unload

Next ==
  \/ pwm_init \/ bind \/ unbind \/ probe \/ pwm_remove \/ pwm_exit \/ exiting
  \/ \E t \in Threads : read_pwm(t)
  \/ Halted

(* Threads and processes inside the kernel are run; sleeps end.            *)
Fairness ==
  /\ \A t \in Threads : WF_vars(read_pwm(t))
  /\ WF_vars(probe \/ pwm_remove) /\ WF_vars(exiting)

Spec == Init /\ [][Next]_vars
FairSpec == Spec /\ Fairness

-----------------------------------------------------------------------------
(* Properties.                                                             *)

(* Every variable has its type.                                            *)
TypeOK ==
  /\ module \in {"unloaded", "loading", "loaded", "stop", "unregister", "detach"}
  /\ op \in {"none", "request", "map", "run", "unmap"}
  /\ bound \in BOOLEAN /\ probes \in 0 .. MaxProbes /\ unbound \in BOOLEAN
  /\ other \subseteq Regions /\ regions \subseteq Regions
  /\ mapped \in {"none", "mapped", "stale"}
  /\ my_thread \in -1 .. MaxProbes /\ stop \subseteq 0 .. MaxProbes
  /\ thread \in [Threads -> {"none", "check", "read", "sleep", "ended"}]
  /\ oops \in {"none", "NULL pointer", "error pointer", "unmapped", "code freed"}

(* As long as the device is never unbound through sysfs, the thread reads  *)
(* only mapped registers and is gone before the module is: pwm_exit stops  *)
(* it before platform_driver_unregister lets pwm_remove unmap them         *)
(* (ehrpwm.c:61-70, 157-161, 198-201).                                     *)
ReaderConfined ==
  ~unbound =>
    /\ oops \notin {"unmapped", "code freed"}
    /\ Alive # {} => module # "unloaded" /\ mapped = "mapped"

(* A thread pwm_exit cannot stop is left only by a probe that took the     *)
(* place of another: threads other than my_thread exist only after an      *)
(* unbind (ehrpwm.c:150, 198-199).                                         *)
ReaderKnown == \A t \in Alive : t = my_thread \/ unbound

(* Between bindings the driver holds no memory region, whatever pwm_probe  *)
(* was refused (ehrpwm.c:90-102, 162-164).                                 *)
NoRegionHeld == (op = "none" /\ ~bound /\ oops = "none") => regions = {}

(* rmmod comes to an end: the thread it waits for looks at                 *)
(* kthread_should_stop once per round (ehrpwm.c:62-70, 198-201).           *)
ExitCompletes == (module = "stop") ~> (module = "unloaded" \/ oops # "none")
=============================================================================
