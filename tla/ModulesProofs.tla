--------------------------- MODULE ModulesProofs ---------------------------
(***************************************************************************)
(* Proofs about the five driver modules, for any number of probes, loads   *)
(* and users, any names and any choice of failures.                        *)
(*                                                                         *)
(* Each module has an inductive invariant of its own.  A step of one       *)
(* leaves the variables of the others alone, so that the five together are *)
(* invariant of ModSpec.                                                   *)
(***************************************************************************)
EXTENDS MCModules, FiniteSetTheorems, SequenceTheorems, TLAPS

-----------------------------------------------------------------------------
(* The EHRPWM driver.                                                      *)

Lives(t) == thread[t] \notin {"none", "ended"}

(* A probe runs on a device that is not bound, a remove on one that is,    *)
(* and the module is unloaded only when neither runs.                      *)
OpInv ==
  /\ op \in {"request", "map", "run"} => probes > 0 /\ ~bound
  /\ op = "unmap" => bound
  /\ op = "run" => mapped = "mapped"
  /\ module = "loading" => op \in {"request", "map", "run"}
  /\ module = "detach" => op \in {"none", "unmap"} /\ (bound => op = "unmap")
  /\ module = "unloaded" => op = "none" /\ ~bound

(* Until the device is unbound through sysfs, it stays bound from the      *)
(* probe of a load to its unload; a thread lives only between that probe   *)
(* and the kthread_stop that waits for it, and it is my_thread.            *)
ReaderInv ==
  /\ ~unbound =>
       /\ module \in {"loaded", "stop", "unregister"} => op = "none" /\ bound
       /\ module \in {"loaded", "stop"} => mapped = "mapped"
       /\ module = "stop" => my_thread \in stop
       /\ oops \notin {"unmapped", "code freed"}
       /\ \A t \in Threads : Lives(t) => module \in {"loaded", "stop"} /\ t = my_thread

PwmInv == TypeOK /\ OpInv /\ ReaderInv /\ NoRegionHeld

(* Every step of the driver core and of the threads keeps the types.       *)
LEMMA PwmTypeStep == PwmInv /\ [Next]_vars => TypeOK'
<1> SUFFICES ASSUME PwmInv, [Next]_vars PROVE  TypeOK'
  OBVIOUS
<1> USE DEF PwmInv, TypeOK, OpInv, Threads
<1>1. CASE pwm_init
  BY <1>1, ProbesAssumption DEF pwm_init, At
<1>2. CASE bind
  BY <1>2, ProbesAssumption DEF bind, Sysfs, At, deviceVars, threadVars
<1>3. CASE unbind
  BY <1>3, ProbesAssumption DEF unbind, Sysfs, At, deviceVars, threadVars
<1>4. CASE pwm_probe_request
  BY <1>4, ProbesAssumption DEF pwm_probe_request, At, Oops, coreVars,
    deviceVars, threadVars
<1>5. CASE pwm_probe_map
  BY <1>5, ProbesAssumption DEF pwm_probe_map, At, Oops, coreVars, deviceVars,
    threadVars
<1>6. CASE pwm_probe_run
  BY <1>6, ProbesAssumption DEF pwm_probe_run, kthread_run, At, deviceVars
<1>7. CASE pwm_remove
  BY <1>7, ProbesAssumption DEF pwm_remove, released, At, threadVars
<1>8. CASE pwm_exit
  <2>1. CASE my_thread = -1
    BY <1>8, <2>1 DEF pwm_exit, Dereferenced, Oops, coreVars, deviceVars, threadVars
  <2>2. CASE my_thread # -1
    <3>1. stop' = stop \cup {my_thread} /\ my_thread \in 0 .. MaxProbes
      BY <1>8, <2>2, ProbesAssumption DEF pwm_exit, to_stop, Dereferenced
    <3>2. stop' \subseteq 0 .. MaxProbes
      BY <3>1
    <3> QED
      BY <1>8, <2>2, <3>2 DEF pwm_exit, Dereferenced, deviceVars
  <2> QED
    BY <2>1, <2>2
<1>9. CASE pwm_exit_joined
  BY <1>9, ProbesAssumption DEF pwm_exit_joined, Alive, deviceVars, threadVars
<1>10. CASE pwm_exit_unregister
  BY <1>10, ProbesAssumption DEF pwm_exit_unregister, At, deviceVars,
    threadVars
<1>11. CASE pwm_exit_unload
  BY <1>11, ProbesAssumption DEF pwm_exit_unload, At, deviceVars, threadVars
<1>12. ASSUME NEW t \in Threads, read_pwm_check(t) PROVE  TypeOK'
  BY <1>12, ProbesAssumption DEF read_pwm_check, Step, Oops, coreVars,
    deviceVars, threadVars
<1>13. ASSUME NEW t \in Threads, read_pwm_read(t) PROVE  TypeOK'
  BY <1>13, ProbesAssumption DEF read_pwm_read, Step, Oops, coreVars,
    deviceVars, threadVars
<1>14. ASSUME NEW t \in Threads, read_pwm_sleep(t) PROVE  TypeOK'
  BY <1>14, ProbesAssumption DEF read_pwm_sleep, Step, Oops, coreVars,
    deviceVars, threadVars
<1>15. CASE UNCHANGED vars
  BY <1>15, ProbesAssumption DEF vars, coreVars, deviceVars, threadVars
<1> QED
  BY <1>1, <1>2, <1>3, <1>4, <1>5, <1>6, <1>7, <1>8, <1>9, <1>10, <1>11,
    <1>12, <1>13, <1>14, <1>15 DEF Next, probe, exiting, read_pwm, Halted

(* Every step keeps the account of probe and remove.                       *)
LEMMA OpStep == PwmInv /\ [Next]_vars => OpInv'
<1> SUFFICES ASSUME PwmInv, [Next]_vars PROVE  OpInv'
  OBVIOUS
<1> USE DEF PwmInv, TypeOK, OpInv
<1>1. CASE pwm_init
  BY <1>1 DEF pwm_init, At
<1>2. CASE bind
  BY <1>2 DEF bind, Sysfs, At, deviceVars, threadVars
<1>3. CASE unbind
  BY <1>3 DEF unbind, Sysfs, At, deviceVars, threadVars
<1>4. CASE pwm_probe_request
  <2>1. CASE oops' = "none"
    BY <1>4, <2>1 DEF pwm_probe_request, At, Oops, coreVars, threadVars
  <2>2. CASE oops' # "none"
    <3>1. UNCHANGED <<module, op, bound, probes, mapped>>
      BY <1>4, <2>2 DEF pwm_probe_request, At, Oops, coreVars, deviceVars
    <3> QED
      BY <3>1
  <2> QED
    BY <2>1, <2>2
<1>5. CASE pwm_probe_map
  <2>1. CASE oops' = "none"
    BY <1>5, <2>1 DEF pwm_probe_map, At, Oops, coreVars, threadVars
  <2>2. CASE oops' # "none"
    <3>1. UNCHANGED <<module, op, bound, probes, mapped>>
      BY <1>5, <2>2 DEF pwm_probe_map, At, Oops, coreVars, deviceVars
    <3> QED
      BY <3>1
  <2> QED
    BY <2>1, <2>2
<1>6. CASE pwm_probe_run
  BY <1>6 DEF pwm_probe_run, kthread_run, At, deviceVars
<1>7. CASE pwm_remove
  BY <1>7 DEF pwm_remove, released, At, threadVars
<1>8. CASE pwm_exit
  BY <1>8 DEF pwm_exit, to_stop, Dereferenced, Oops, coreVars, deviceVars,
    threadVars
<1>9. CASE pwm_exit_joined
  BY <1>9 DEF pwm_exit_joined, Alive, deviceVars, threadVars
<1>10. CASE pwm_exit_unregister
  BY <1>10 DEF pwm_exit_unregister, At, deviceVars, threadVars
<1>11. CASE pwm_exit_unload
  BY <1>11 DEF pwm_exit_unload, At, deviceVars, threadVars
<1>12. ASSUME NEW t \in Threads, read_pwm_check(t) PROVE  OpInv'
  BY <1>12 DEF read_pwm_check, Step, Oops, coreVars, deviceVars, threadVars
<1>13. ASSUME NEW t \in Threads, read_pwm_read(t) PROVE  OpInv'
  <2>1. UNCHANGED <<module, op, bound, probes, mapped>>
    BY <1>13 DEF read_pwm_read, Step, Oops, coreVars, deviceVars
  <2> QED
    BY <2>1
<1>14. ASSUME NEW t \in Threads, read_pwm_sleep(t) PROVE  OpInv'
  BY <1>14 DEF read_pwm_sleep, Step, Oops, coreVars, deviceVars, threadVars
<1>15. CASE UNCHANGED vars
  BY <1>15 DEF vars, coreVars, deviceVars, threadVars
<1> QED
  BY <1>1, <1>2, <1>3, <1>4, <1>5, <1>6, <1>7, <1>8, <1>9, <1>10, <1>11,
    <1>12, <1>13, <1>14, <1>15 DEF Next, probe, exiting, read_pwm, Halted

(* Every step keeps the account of the threads.                            *)
LEMMA ReaderStep == PwmInv /\ [Next]_vars => ReaderInv'
<1> SUFFICES ASSUME PwmInv, [Next]_vars PROVE  ReaderInv'
  OBVIOUS
<1> USE DEF PwmInv, TypeOK, OpInv, ReaderInv, Lives, Threads
<1>1. CASE pwm_init
  BY <1>1, ProbesAssumption DEF pwm_init, At
<1>2. CASE bind
  BY <1>2, ProbesAssumption DEF bind, Sysfs, At, deviceVars, threadVars
<1>3. CASE unbind
  BY <1>3, ProbesAssumption DEF unbind, Sysfs, At, deviceVars, threadVars
<1>4. CASE pwm_probe_request
  BY <1>4, ProbesAssumption DEF pwm_probe_request, At, Oops, coreVars,
    deviceVars, threadVars
<1>5. CASE pwm_probe_map
  BY <1>5, ProbesAssumption DEF pwm_probe_map, At, Oops, coreVars, deviceVars,
    threadVars
<1>6. CASE pwm_probe_run
  <2> SUFFICES ASSUME ~unbound PROVE  ReaderInv'
    BY <1>6 DEF pwm_probe_run
  <2>1. module = "loading" /\ probes \in Threads
    BY <1>6, ProbesAssumption DEF pwm_probe_run, At
  <2>2. \A t \in Threads : ~Lives(t)
    BY <2>1
  <2>3. ASSUME NEW t \in Threads, Lives(t)' PROVE  t = my_thread'
    BY <1>6, <2>1, <2>2, <2>3 DEF pwm_probe_run, kthread_run
  <2> QED
    BY <1>6, <2>1, <2>3 DEF pwm_probe_run, kthread_run, At, deviceVars
<1>7. CASE pwm_remove
  BY <1>7, ProbesAssumption DEF pwm_remove, released, At, threadVars
<1>8. CASE pwm_exit
  BY <1>8, ProbesAssumption DEF pwm_exit, to_stop, Dereferenced, Oops,
    coreVars, deviceVars, threadVars
<1>9. CASE pwm_exit_joined
  BY <1>9, ProbesAssumption DEF pwm_exit_joined, Alive, deviceVars, threadVars
<1>10. CASE pwm_exit_unregister
  BY <1>10, ProbesAssumption DEF pwm_exit_unregister, At, deviceVars,
    threadVars
<1>11. CASE pwm_exit_unload
  BY <1>11, ProbesAssumption DEF pwm_exit_unload, At, deviceVars, threadVars
<1>12. ASSUME NEW t \in Threads, read_pwm_check(t) PROVE  ReaderInv'
  BY <1>12, ProbesAssumption DEF read_pwm_check, Step, Oops, coreVars,
    deviceVars, threadVars
<1>13. ASSUME NEW t \in Threads, read_pwm_read(t) PROVE  ReaderInv'
  <2> SUFFICES ASSUME ~unbound PROVE  ReaderInv'
    BY <1>13 DEF read_pwm_read, Step, Oops, coreVars
  <2>1. Lives(t) /\ module \in {"loaded", "stop"} /\ mapped = "mapped"
    BY <1>13 DEF read_pwm_read, Step
  <2>2. /\ UNCHANGED <<coreVars, deviceVars, my_thread, stop, oops>>
        /\ \E to : thread' = [thread EXCEPT ![t] = to]
    BY <1>13, <2>1 DEF read_pwm_read, Step
  <2> QED
    BY <2>1, <2>2 DEF coreVars, deviceVars
<1>14. ASSUME NEW t \in Threads, read_pwm_sleep(t) PROVE  ReaderInv'
  <2> SUFFICES ASSUME ~unbound PROVE  ReaderInv'
    BY <1>14 DEF read_pwm_sleep, Step, Oops, coreVars
  <2>1. Lives(t) /\ module \in {"loaded", "stop"} /\ mapped = "mapped"
    BY <1>14 DEF read_pwm_sleep, Step
  <2>2. /\ UNCHANGED <<coreVars, deviceVars, my_thread, stop, oops>>
        /\ \E to : thread' = [thread EXCEPT ![t] = to]
    BY <1>14, <2>1 DEF read_pwm_sleep, Step
  <2> QED
    BY <2>1, <2>2 DEF coreVars, deviceVars
<1>15. CASE UNCHANGED vars
  BY <1>15, ProbesAssumption DEF vars, coreVars, deviceVars, threadVars
<1> QED
  BY <1>1, <1>2, <1>3, <1>4, <1>5, <1>6, <1>7, <1>8, <1>9, <1>10, <1>11,
    <1>12, <1>13, <1>14, <1>15 DEF Next, probe, exiting, read_pwm, Halted

(* Every step keeps the account of the regions.                            *)
LEMMA RegionStep == PwmInv /\ [Next]_vars => NoRegionHeld'
<1> SUFFICES ASSUME PwmInv, [Next]_vars PROVE  NoRegionHeld'
  OBVIOUS
<1> USE DEF PwmInv, TypeOK, OpInv, NoRegionHeld
<1>1. CASE pwm_init
  BY <1>1 DEF pwm_init, At
<1>2. CASE bind
  BY <1>2 DEF bind, Sysfs, At, deviceVars, threadVars
<1>3. CASE unbind
  BY <1>3 DEF unbind, Sysfs, At, deviceVars, threadVars
<1>4. CASE pwm_probe_request
  BY <1>4 DEF pwm_probe_request, At, Oops, coreVars, deviceVars, threadVars
<1>5. CASE pwm_probe_map
  BY <1>5 DEF pwm_probe_map, At, Oops, coreVars, deviceVars, threadVars
<1>6. CASE pwm_probe_run
  BY <1>6 DEF pwm_probe_run, kthread_run, At, deviceVars
<1>7. CASE pwm_remove
  BY <1>7 DEF pwm_remove, released, At, threadVars
<1>8. CASE pwm_exit
  BY <1>8 DEF pwm_exit, to_stop, Dereferenced, Oops, coreVars, deviceVars,
    threadVars
<1>9. CASE pwm_exit_joined
  BY <1>9 DEF pwm_exit_joined, Alive, deviceVars, threadVars
<1>10. CASE pwm_exit_unregister
  BY <1>10 DEF pwm_exit_unregister, At, deviceVars, threadVars
<1>11. CASE pwm_exit_unload
  BY <1>11 DEF pwm_exit_unload, At, deviceVars, threadVars
<1>12. ASSUME NEW t \in Threads, read_pwm_check(t) PROVE  NoRegionHeld'
  BY <1>12 DEF read_pwm_check, Step, Oops, coreVars, deviceVars, threadVars
<1>13. ASSUME NEW t \in Threads, read_pwm_read(t) PROVE  NoRegionHeld'
  BY <1>13 DEF read_pwm_read, Step, Oops, coreVars, deviceVars, threadVars
<1>14. ASSUME NEW t \in Threads, read_pwm_sleep(t) PROVE  NoRegionHeld'
  BY <1>14 DEF read_pwm_sleep, Step, Oops, coreVars, deviceVars, threadVars
<1>15. CASE UNCHANGED vars
  BY <1>15 DEF vars, coreVars, deviceVars, threadVars
<1> QED
  BY <1>1, <1>2, <1>3, <1>4, <1>5, <1>6, <1>7, <1>8, <1>9, <1>10, <1>11,
    <1>12, <1>13, <1>14, <1>15 DEF Next, probe, exiting, read_pwm, Halted

(* The invariant holds at the start.                                       *)
LEMMA PwmInit == Init => PwmInv
<1> SUFFICES ASSUME Init PROVE  PwmInv
  OBVIOUS
<1>1. TypeOK
  <2>1. bound \in BOOLEAN /\ unbound \in BOOLEAN
    BY DEF Init
  <2> QED
    BY <2>1, ProbesAssumption DEF Init, TypeOK, Threads
<1>2. OpInv /\ ReaderInv /\ NoRegionHeld
  BY DEF Init, OpInv, ReaderInv, NoRegionHeld, Lives
<1> QED
  BY <1>1, <1>2 DEF PwmInv

-----------------------------------------------------------------------------
(* The epm driver.                                                         *)

(* While the module is out nothing of it is registered and nobody is in    *)
(* its code; a user is in it only by a node of the present load.           *)
PhaseInv ==
  /\ phase = "out" => objs = {}
  /\ phase = "out" => \A u \in Users : user[u] \in {"idle", "lost"}

EpmInv == EpmSafe /\ PhaseInv

(* What a call of epm_cdev_init returns and leaves, wherever it stops.     *)
LEMMA EpmOutcome ==
  ASSUME NEW c \in epm!Classes, NEW o \in epm!Outcomes(c)
  PROVE  o.ret \in {-1, 0, 1} /\ o.objs \subseteq epm!Objects
<1>1. c \subseteq {"class"}
  BY DEF epm!Classes
<1>2. CASE o = [at |-> "alloc_chrdev_region", ret |-> -1, objs |-> {}]
  BY <1>2
<1>3. CASE o = [at |-> "kmalloc", ret |-> epm!NoMemory, objs |-> {"region"} \cup c]
  BY <1>1, <1>3 DEF epm!NoMemory, epm!Objects
<1>4. CASE o = [at |-> "cdev_add", ret |-> 1, objs |-> {"region", "drv"} \cup c]
  BY <1>1, <1>4 DEF epm!Objects
<1>5. CASE o = [at |-> "end", ret |-> 0,
                objs |-> {"region", "drv", "cdev"} \cup c \cup epm!Node(c)]
  BY <1>1, <1>5 DEF epm!Node, epm!Objects
<1> QED
  BY <1>2, <1>3, <1>4, <1>5 DEF epm!Outcomes

(* Every step of a load, an unload and a user keeps the invariant.         *)
LEMMA EpmStep == EpmInv /\ [epm!Next]_epmVars => EpmInv'
<1> SUFFICES ASSUME EpmInv, [epm!Next]_epmVars PROVE  EpmInv'
  OBVIOUS
<1> USE DEF EpmInv, EpmSafe, PhaseInv, epm!TypeOK, epm!CodeStays,
        epm!CharDevReturned
<1>1. CASE epm!epm_init_cdev
  <2> DEFINE Loaded(c, o) ==
          /\ ret' = o.ret
          /\ IF epm!Fatal(o.ret)
             THEN stale' = stale \cup o.objs /\ UNCHANGED <<phase, objs>>
             ELSE phase' = "coming" /\ objs' = o.objs /\ UNCHANGED stale
          /\ trouble' = trouble \cup (IF c = {} THEN {"class_create"} ELSE {})
                                \cup (IF epm!Fatal(o.ret) THEN {"load"} ELSE {})
  <2>0. PICK c \in epm!Classes : \E o \in epm!Outcomes(c) : Loaded(c, o)
    BY <1>1 DEF epm!epm_init_cdev
  <2>1. PICK o \in epm!Outcomes(c) : Loaded(c, o)
    BY <2>0
  <2>2. o.ret \in {-1, 0, 1} /\ o.objs \subseteq epm!Objects
    BY EpmOutcome
  <2>3. UNCHANGED <<user, epm_oops>> /\ phase = "out"
    BY <1>1 DEF epm!epm_init_cdev
  <2>4. /\ stale \subseteq stale' /\ stale' \subseteq epm!Objects
        /\ objs' \subseteq epm!Objects /\ trouble \subseteq trouble'
        /\ trouble' \subseteq {"class_create", "load"}
        /\ stale' # stale => "load" \in trouble'
        /\ phase' \in {"out", "coming"} /\ (phase' = "out" => objs' = {})
    BY <2>1, <2>2, <2>3
  <2> QED
    BY <2>1, <2>2, <2>3, <2>4
<1>2. CASE epm!epm_init_spi
  <2>1. epm!Lost \in [Users -> {"idle", "lost"}]
    BY DEF epm!Lost
  <2>2. CASE phase' = "live"
    BY <1>2, <2>2 DEF epm!epm_init_spi, epm!Objects
  <2>3. CASE phase' # "live"
    BY <1>2, <2>1, <2>3 DEF epm!epm_init_spi
  <2> QED
    BY <2>2, <2>3
<1>3. CASE epm!epm_exit
  <2>1. epm!Lost = user
    BY <1>3 DEF epm!epm_exit, epm!Lost, epm!Idle, epm!Pins
  <2>2. objs \ epm!Released \subseteq {"spi", "drv"}
    BY DEF epm!Objects, epm!Released
  <2>3. \A u \in Users : user[u] \in {"idle", "lost"}
    BY <1>3 DEF epm!epm_exit, epm!Idle, epm!Pins
  <2> QED
    BY <1>3, <2>1, <2>2, <2>3 DEF epm!epm_exit, epm!Objects
<1>4. CASE epm!spi_match
  BY <1>4 DEF epm!spi_match
<1>5. ASSUME NEW u \in Users, epm!open(u) PROVE  EpmInv'
  BY <1>5 DEF epm!open
<1>6. ASSUME NEW u \in Users, epm!generic_open(u) PROVE  EpmInv'
  BY <1>6 DEF epm!generic_open, epm!GoesOn
<1>7. ASSUME NEW u \in Users, epm!generic_release(u) PROVE  EpmInv'
  BY <1>7 DEF epm!generic_release, epm!GoesOn
<1>8. CASE UNCHANGED epmVars
  BY <1>8 DEF epmVars
<1> QED
  BY <1>1, <1>2, <1>3, <1>4, <1>5, <1>6, <1>7, <1>8
    DEF epm!Next, epm!Oopsed, epm!vars, epmVars

-----------------------------------------------------------------------------
(* The module of the fake V4L2 driver.                                     *)

(* The devices that are allocated are those of loads that failed and those *)
(* in the list, and the list is that of the present load.                  *)
ListInv ==
  /\ dev \subseteq failed \cup fake_vid_list
  /\ fake_vid_list = IF loaded THEN {load} ELSE {}

VideoInv == VideoSafe /\ ListInv

(* The number of the next load.                                            *)
LEMMA NextLoad ==
  ASSUME NEW n \in 0 .. MaxLoads, n < MaxLoads
  PROVE  /\ n + 1 \in 0 .. MaxLoads
         /\ \A S : S \subseteq 1 .. n =>
              /\ S \subseteq 1 .. n + 1 /\ S \cup {n + 1} \subseteq 1 .. n + 1
              /\ n + 1 \notin S
<1>1. n \in Nat /\ n + 1 \in 0 .. MaxLoads
  BY LoadsAssumption
<1>2. 1 .. n \subseteq 1 .. n + 1 /\ n + 1 \in 1 .. n + 1 /\ n + 1 \notin 1 .. n
  BY <1>1
<1> QED
  BY <1>1, <1>2

(* Every step of a load, an unload and a user keeps the invariant.         *)
LEMMA VideoStep == VideoInv /\ [video!Next]_videoVars => VideoInv'
<1> SUFFICES ASSUME VideoInv, [video!Next]_videoVars PROVE  VideoInv'
  OBVIOUS
<1> USE DEF VideoInv, VideoSafe, ListInv, video!TypeOK, video!FilePinsDevice,
        video!DevsReturned, video!LiveNode
<1>1. CASE video!v4l2_init
  <2> DEFINE l == load + 1
  <2>1. load' = l /\ load < MaxLoads /\ UNCHANGED file
    BY <1>1 DEF video!v4l2_init
  <2>2. load \in 0 .. MaxLoads
    OBVIOUS
  <2>3. /\ load' \in 0 .. MaxLoads
        /\ \A S : S \subseteq 1 .. load =>
             /\ S \subseteq 1 .. load' /\ S \cup {l} \subseteq 1 .. load'
             /\ l \notin S
    BY <2>1, <2>2, NextLoad
  <2>4. /\ l \notin dev /\ l \notin node /\ ~loaded
        /\ dev \subseteq 1 .. load' /\ dev \cup {l} \subseteq 1 .. load'
        /\ vdev \subseteq 1 .. load' /\ vdev \cup {l} \subseteq 1 .. load'
        /\ failed \subseteq 1 .. load' /\ failed \cup {l} \subseteq 1 .. load'
    BY <1>1, <2>3 DEF video!v4l2_init
  <2> HIDE DEF l
  <2>5. CASE /\ UNCHANGED <<loaded, fake_vid_list, dev, vdev, node, failed>>
             /\ video_oops' = "NULL pointer"
    BY <2>1, <2>3, <2>4, <2>5
  <2>6. CASE /\ \E call \in VideoFaults \ {"kzalloc"} :
                  vdev' = vdev \cup IF call = "video_register_device" THEN {l} ELSE {}
             /\ dev' = dev \cup {l} /\ failed' = failed \cup {l}
             /\ UNCHANGED <<loaded, fake_vid_list, node, video_oops>>
    <3>1. vdev \subseteq vdev' /\ vdev' \subseteq vdev \cup {l}
      BY <2>6
    <3> QED
      BY <2>1, <2>3, <2>4, <2>6, <3>1
  <2>7. CASE /\ loaded' = TRUE
             /\ dev' = dev \cup {l} /\ vdev' = vdev \cup {l} /\ node' = node \cup {l}
             /\ fake_vid_list' = video!Listed(l)
             /\ UNCHANGED <<failed, video_oops>>
    BY <2>1, <2>3, <2>4, <2>7 DEF video!Listed
  <2> QED
    BY <1>1, <2>5, <2>6, <2>7 DEF video!v4l2_init, l
<1>2. CASE video!v4l2_exit
  <2>1. \A u \in Users : file[u] = 0
    BY <1>2 DEF video!v4l2_exit, video!Pins, video!Open
  <2> QED
    BY <1>2, <2>1 DEF video!v4l2_exit, video!Remaining
<1>3. ASSUME NEW u \in Users, video!close(u) PROVE  VideoInv'
  BY <1>3 DEF video!close
<1>4. ASSUME NEW u \in Users, NEW n \in video!Loads, video!open(u, n) PROVE  VideoInv'
  BY <1>4 DEF video!open
<1>5. CASE UNCHANGED videoVars
  BY <1>5 DEF videoVars
<1> QED
  BY <1>1, <1>2, <1>3, <1>4, <1>5 DEF video!Next, video!Done, video!vars, videoVars

-----------------------------------------------------------------------------
(* The frame buffer driver.                                                *)

(* What is registered belongs to a loaded module; what points into one     *)
(* that is gone is stale after an unload.                                  *)
LoadedInv ==
  /\ pdrv => fb_module
  /\ fb_bound => fb_module
  /\ minor = "in" => fb_module
  /\ pdev = "stale" => "unload" \in cause
  /\ minor = "stale" => "unload" \in cause

(* At most one reference to the DRM device besides those of the files.     *)
CountInv == refs <= Cardinality(fb_file) + 1

(* Until the driver is unbound, the node and the files are those of a      *)
(* bound device, which has one reference besides those of the files.       *)
NotUnboundInv ==
  "unbind" \notin cause =>
    /\ minor = "in" \/ fb_file # {} => fb_bound
    /\ fb_bound => refs = Cardinality(fb_file) + 1 /\ ~fb_released

FbCauses == {"init", "pipe", "reprobe", "unbind", "unload"}

FbType ==
  /\ fb_module \in BOOLEAN /\ pdrv \in BOOLEAN /\ fb_bound \in BOOLEAN
  /\ fb_released \in BOOLEAN /\ fb_oops \in BOOLEAN
  /\ pdev \in {"out", "in", "stale"} /\ minor \in {"out", "in", "stale"}
  /\ refs \in Nat
  /\ fb_file \subseteq Users /\ cause \subseteq FbCauses

FbInv ==
  /\ FbType /\ fb!BoundHasNode /\ fb!FilePinsModule /\ fb!HarmExplained
  /\ LoadedInv /\ CountInv /\ NotUnboundInv

(* Cardinality is the same inside the driver's module and outside it.      *)
LEMMA SameCardinality == \A S : fb!Cardinality(S) = Cardinality(S)
  BY DEF fb!Cardinality, Cardinality

(* How the number of files changes when one is opened or closed.           *)
LEMMA FileCount ==
  ASSUME NEW F, F \subseteq Users
  PROVE  /\ Cardinality(F) \in Nat /\ Cardinality(F) <= Cardinality(Users)
         /\ F = {} <=> Cardinality(F) = 0
         /\ \A u : u \notin F => Cardinality(F \cup {u}) = Cardinality(F) + 1
         /\ \A u : u \in F => Cardinality(F \ {u}) = Cardinality(F) - 1
<1>1. IsFiniteSet(F) /\ Cardinality(F) <= Cardinality(Users)
  BY UsersAssumption, FS_Subset
<1>2. Cardinality(F) \in Nat
  BY <1>1, FS_CardinalityType
<1>3. F = {} <=> Cardinality(F) = 0
  BY <1>1, FS_EmptySet
<1>4. \A u : u \notin F => Cardinality(F \cup {u}) = Cardinality(F) + 1
  BY <1>1, FS_AddElement
<1>5. \A u : u \in F => Cardinality(F \ {u}) = Cardinality(F) - 1
  BY <1>1, FS_RemoveElement
<1> QED
  BY <1>1, <1>2, <1>3, <1>4, <1>5

(* The outcomes of a probe: nothing; or a device that is bound, with its   *)
(* node and one reference, or is not and has none.  What it did to the     *)
(* kernel is explained, and "reprobe" only of a card that is open.         *)
LEMMA ProbeOutcome ==
  ASSUME fb!pdrv_probe
  PROVE  \/ UNCHANGED <<fb_bound, minor, refs, fb_file, fb_released, fb_oops, cause>>
         \/ /\ \E C \in SUBSET {"init", "pipe", "reprobe"} :
                 /\ cause' = cause \cup C /\ fb_oops' \in BOOLEAN
                 /\ fb_oops' => C # {}
                 /\ "reprobe" \in C => fb_file # {}
            /\ \/ fb_bound' = TRUE /\ fb_released' = FALSE /\ minor' = "in" /\ refs' = 1
               \/ fb_bound' = FALSE /\ fb_released' = TRUE /\ minor' = minor /\ refs' = 0
            /\ UNCHANGED fb_file
<1>1. PICK calls \in SUBSET (FbFaults \ {"device", "driver"}) :
        \/ UNCHANGED <<fb_bound, minor, refs, fb_file, fb_released, fb_oops, cause>>
        \/ /\ cause' = cause \cup fb!Causes(calls) /\ fb_oops' \in fb!Harms(calls)
           /\ \/ fb_bound' = TRUE /\ fb_released' = FALSE /\ minor' = "in" /\ refs' = 1
              \/ fb_bound' = FALSE /\ fb_released' = TRUE /\ minor' = minor /\ refs' = 0
           /\ UNCHANGED fb_file
  BY DEF fb!pdrv_probe, fb!Result, fb!Probed, fb!drmVars
<1>2. /\ fb!Causes(calls) \in SUBSET {"init", "pipe", "reprobe"}
      /\ "reprobe" \in fb!Causes(calls) => fb_file # {}
  BY DEF fb!Causes
<1>3. ASSUME fb_oops' \in fb!Harms(calls)
      PROVE  fb_oops' \in BOOLEAN /\ (fb_oops' => fb!Causes(calls) # {})
  BY <1>3 DEF fb!Harms
<1> QED
  BY <1>1, <1>2, <1>3

(* A probe of an unbound device keeps the invariant, whatever the module   *)
(* and its platform device are then: bound or not, at least the module is  *)
(* loaded.                                                                 *)
LEMMA ProbeKeeps ==
  ASSUME FbInv, ~fb_bound, fb!pdrv_probe, fb_module' = TRUE, pdrv' \in BOOLEAN,
         pdev' \in {"out", "in", "stale"}, pdev' = "stale" => pdev = "stale",
         "unbind" \in cause \/ fb_file = {}
  PROVE  FbInv'
<1>1. /\ Cardinality(fb_file) \in Nat /\ (fb_file = {} <=> Cardinality(fb_file) = 0)
  BY FileCount DEF FbInv, FbType
<1> USE DEF FbInv, FbType, fb!BoundHasNode, fb!FilePinsModule, fb!HarmExplained,
        LoadedInv, CountInv, NotUnboundInv
<1>2. CASE UNCHANGED <<fb_bound, minor, refs, fb_file, fb_released, fb_oops, cause>>
  BY <1>2
<1>3. ASSUME NEW C \in SUBSET {"init", "pipe", "reprobe"},
             cause' = cause \cup C, fb_oops' \in BOOLEAN, fb_oops' => C # {},
             "reprobe" \in C => fb_file # {}
      PROVE  /\ cause' \subseteq FbCauses /\ fb!HarmExplained'
             /\ ("unload" \in cause' <=> "unload" \in cause)
             /\ ("unbind" \in cause' <=> "unbind" \in cause)
  <2>1. ("unload" \in cause' <=> "unload" \in cause) /\ ("unbind" \in cause' <=> "unbind" \in cause)
    BY <1>3
  <2>2. cause' \subseteq FbCauses
    BY <1>3 DEF FbCauses
  <2>3. fb!HarmExplained'
    BY <1>3, <2>1
  <2> QED
    BY <2>1, <2>2, <2>3
<1>4. ASSUME cause' \subseteq FbCauses, fb!HarmExplained', fb_oops' \in BOOLEAN,
             "unload" \in cause' <=> "unload" \in cause,
             "unbind" \in cause' <=> "unbind" \in cause, UNCHANGED fb_file,
             fb_bound' = TRUE, fb_released' = FALSE, minor' = "in", refs' = 1
      PROVE  FbInv'
  <2>1. FbType'
    BY <1>1, <1>4
  <2>2. (fb!BoundHasNode /\ fb!FilePinsModule /\ fb!HarmExplained)'
    BY <1>1, <1>4
  <2>3. LoadedInv'
    BY <1>1, <1>4
  <2>4. CountInv'
    BY <1>1, <1>4
  <2>5. NotUnboundInv'
    BY <1>1, <1>4
  <2> QED
    BY <2>1, <2>2, <2>3, <2>4, <2>5
<1>5. ASSUME cause' \subseteq FbCauses, fb!HarmExplained', fb_oops' \in BOOLEAN,
             "unload" \in cause' <=> "unload" \in cause,
             "unbind" \in cause' <=> "unbind" \in cause, UNCHANGED fb_file,
             fb_bound' = FALSE, fb_released' = TRUE, minor' = minor, refs' = 0
      PROVE  FbInv'
  <2>1. FbType'
    BY <1>1, <1>5
  <2>2. (fb!BoundHasNode /\ fb!FilePinsModule /\ fb!HarmExplained)'
    BY <1>1, <1>5
  <2>3. LoadedInv'
    BY <1>1, <1>5
  <2>4. CountInv'
    BY <1>1, <1>5
  <2>5. NotUnboundInv'
    BY <1>1, <1>5
  <2> QED
    BY <2>1, <2>2, <2>3, <2>4, <2>5
<1> QED
  BY <1>2, <1>3, <1>4, <1>5, ProbeOutcome

(* Every step of the module, the driver core and the users keeps the       *)
(* invariant.                                                              *)
LEMMA FbStep == FbInv /\ [fb!Next]_fbVars => FbInv'
<1> SUFFICES ASSUME FbInv, [fb!Next]_fbVars PROVE  FbInv'
  OBVIOUS
<1>0. /\ Cardinality(fb_file) \in Nat /\ (fb_file = {} <=> Cardinality(fb_file) = 0)
      /\ \A u : u \notin fb_file => Cardinality(fb_file \cup {u}) = Cardinality(fb_file) + 1
      /\ \A u : u \in fb_file => Cardinality(fb_file \ {u}) = Cardinality(fb_file) - 1
  BY FileCount DEF FbInv, FbType
<1>1. CASE fb!fb_init
  <2>1. CASE pdev = "stale"
    BY <1>1, <2>1 DEF fb!fb_init, fb!drmVars, FbInv, FbType, fb!BoundHasNode,
      fb!FilePinsModule, fb!HarmExplained, LoadedInv, CountInv, NotUnboundInv
  <2>2. CASE pdev # "stale" /\ pdev' = "in" /\ pdrv'
    <3>1. fb!pdrv_probe /\ fb_module' = TRUE /\ pdrv' \in BOOLEAN
      BY <1>1, <2>2 DEF fb!fb_init
    <3>2. ~fb_bound /\ fb_file = {}
      BY <1>1 DEF fb!fb_init, FbInv, FbType, LoadedInv, fb!FilePinsModule
    <3> QED
      BY <2>2, <3>1, <3>2, ProbeKeeps
  <2>3. CASE pdev # "stale" /\ ~(pdev' = "in" /\ pdrv')
    BY <1>1, <2>3 DEF fb!fb_init, fb!drmVars, FbInv, FbType, fb!BoundHasNode,
      fb!FilePinsModule, fb!HarmExplained, LoadedInv, CountInv, NotUnboundInv
  <2> QED
    BY <2>1, <2>2, <2>3
<1>2. CASE fb!bind
  <2>1. /\ ~fb_bound /\ fb!pdrv_probe /\ fb_module' = TRUE /\ pdrv' \in BOOLEAN
        /\ UNCHANGED pdev
    BY <1>2 DEF fb!bind, FbInv, FbType, LoadedInv
  <2>2. "unbind" \in cause \/ fb_file = {}
    BY <2>1 DEF FbInv, NotUnboundInv
  <2>3. pdev' \in {"out", "in", "stale"}
    BY <2>1 DEF FbInv, FbType
  <2> QED
    BY <2>1, <2>2, <2>3, ProbeKeeps
<1> USE DEF FbInv, FbType, fb!BoundHasNode, fb!FilePinsModule, fb!HarmExplained,
        LoadedInv, CountInv, NotUnboundInv
<1>3. CASE fb!unbind
  <2>1. FbType'
    <3>1. refs' \in Nat
      BY <1>3 DEF fb!unbind, fb!pdrv_remove, fb!Put
    <3>2. /\ fb_module' \in BOOLEAN /\ pdrv' \in BOOLEAN /\ fb_bound' \in BOOLEAN
          /\ fb_released' \in BOOLEAN /\ fb_oops' \in BOOLEAN
      BY <1>3 DEF fb!unbind, fb!pdrv_remove, fb!Put
    <3>3. fb_file' \subseteq Users /\ cause' \subseteq FbCauses
      BY <1>3 DEF FbCauses, fb!unbind, fb!pdrv_remove, fb!Put
    <3>4. pdev' \in {"out", "in", "stale"} /\ minor' \in {"out", "in", "stale"}
      BY <1>3 DEF fb!unbind, fb!pdrv_remove, fb!Put
    <3> QED
      BY <3>1, <3>2, <3>3, <3>4
  <2>2. (fb!BoundHasNode /\ fb!FilePinsModule /\ fb!HarmExplained)'
    BY <1>0, <1>3 DEF fb!unbind, fb!pdrv_remove, fb!Put
  <2>3. LoadedInv'
    BY <1>0, <1>3 DEF fb!unbind, fb!pdrv_remove, fb!Put
  <2>4. CountInv'
    BY <1>0, <1>3 DEF fb!unbind, fb!pdrv_remove, fb!Put
  <2>5. NotUnboundInv'
    BY <1>0, <1>3 DEF fb!unbind, fb!pdrv_remove, fb!Put
  <2> QED
    BY <2>1, <2>2, <2>3, <2>4, <2>5
<1>4. CASE fb!fb_exit
  <2>1. FbType'
    <3>1. refs' \in Nat
      BY <1>4 DEF fb!fb_exit, fb!Pins, fb!Put, fb!Stale
    <3>2. /\ fb_module' \in BOOLEAN /\ pdrv' \in BOOLEAN /\ fb_bound' \in BOOLEAN
          /\ fb_released' \in BOOLEAN /\ fb_oops' \in BOOLEAN
      BY <1>4 DEF fb!fb_exit, fb!Pins, fb!Put, fb!Stale
    <3>3. fb_file' \subseteq Users /\ cause' \subseteq FbCauses
      BY <1>4 DEF FbCauses, fb!fb_exit, fb!Pins, fb!Put, fb!Stale
    <3>4. pdev' \in {"out", "in", "stale"} /\ minor' \in {"out", "in", "stale"}
      BY <1>4 DEF fb!fb_exit, fb!Pins, fb!Put, fb!Stale
    <3> QED
      BY <3>1, <3>2, <3>3, <3>4
  <2>2. (fb!BoundHasNode /\ fb!FilePinsModule /\ fb!HarmExplained)'
    BY <1>0, <1>4 DEF fb!fb_exit, fb!Pins, fb!Put, fb!Stale
  <2>3. LoadedInv'
    BY <1>0, <1>4 DEF fb!fb_exit, fb!Pins, fb!Put, fb!Stale
  <2>4. CountInv'
    BY <1>0, <1>4 DEF fb!fb_exit, fb!Pins, fb!Put, fb!Stale
  <2>5. NotUnboundInv'
    BY <1>0, <1>4 DEF fb!fb_exit, fb!Pins, fb!Put, fb!Stale
  <2> QED
    BY <2>1, <2>2, <2>3, <2>4, <2>5
<1>5. ASSUME NEW u \in Users, fb!open(u) PROVE  FbInv'
  <2>1. FbType'
    <3>1. refs' \in Nat
      BY <1>5 DEF fb!open
    <3>2. /\ fb_module' \in BOOLEAN /\ pdrv' \in BOOLEAN /\ fb_bound' \in BOOLEAN
          /\ fb_released' \in BOOLEAN /\ fb_oops' \in BOOLEAN
      BY <1>5 DEF fb!open
    <3>3. fb_file' \subseteq Users /\ cause' \subseteq FbCauses
      BY <1>5 DEF fb!open
    <3>4. pdev' \in {"out", "in", "stale"} /\ minor' \in {"out", "in", "stale"}
      BY <1>5 DEF fb!open
    <3> QED
      BY <3>1, <3>2, <3>3, <3>4
  <2>2. (fb!BoundHasNode /\ fb!FilePinsModule /\ fb!HarmExplained)'
    BY <1>0, <1>5 DEF fb!open
  <2>3. LoadedInv'
    BY <1>0, <1>5 DEF fb!open
  <2>4. CountInv'
    BY <1>0, <1>5 DEF fb!open
  <2>5. NotUnboundInv'
    BY <1>0, <1>5 DEF fb!open
  <2> QED
    BY <2>1, <2>2, <2>3, <2>4, <2>5
<1>6. ASSUME NEW u \in Users, fb!close(u) PROVE  FbInv'
  <2>1. fb_oops' \in BOOLEAN /\ (fb_oops' => "reprobe" \in cause)
    BY <1>6 DEF fb!close
  <2> QED
    BY <1>0, <1>6, <2>1 DEF fb!close, fb!Put
<1>7. CASE UNCHANGED fbVars
  BY <1>7 DEF fbVars
<1> QED
  BY <1>1, <1>2, <1>3, <1>4, <1>5, <1>6, <1>7
    DEF fb!Next, fb!Oopsed, fb!vars, fbVars

(* The invariant is what the run checks: the number of references has its  *)
(* bound, and fb_release never runs under a user before an unbind.         *)
LEMMA FbInvSafe == FbInv => FbSafe
<1> SUFFICES ASSUME FbInv PROVE  FbSafe
  OBVIOUS
<1>1. /\ Cardinality(fb_file) <= Cardinality(Users) /\ Cardinality(fb_file) \in Nat
      /\ Cardinality(Users) \in Nat
  BY FileCount, UsersAssumption, FS_CardinalityType DEF FbInv, FbType
<1>2. refs \in 0 .. fb!Cardinality(Users) + 1
  BY <1>1, SameCardinality DEF FbInv, FbType, CountInv
<1>3. fb!TypeOK
  <2>1. {fb_module, pdrv, fb_bound, fb_released, fb_oops} \subseteq BOOLEAN
    BY DEF FbInv, FbType
  <2> QED
    BY <1>2, <2>1 DEF FbInv, FbType, FbCauses, fb!TypeOK
<1>4. fb!ReleasedLast
  BY DEF FbInv, FbType, NotUnboundInv, fb!ReleasedLast
<1> QED
  BY <1>3, <1>4 DEF FbInv, FbSafe

-----------------------------------------------------------------------------
(* The custom bus.                                                         *)

(* The driver's list of devices to look at is empty unless it is coming or *)
(* leaving; a driver that leaves has yet to let go whatever it is bound    *)
(* to, and one that is gone has nothing.                                   *)
TodoInv ==
  /\ drv \in {"out", "in"} => todo = {}
  /\ drv = "leaving" => bus_bound \subseteq todo
  /\ drv = "out" => bus_bound = {}

(* Devices and drivers are there only while the bus is.                    *)
OnBusInv == drv # "out" \/ ldm!Registered # {} => bus

(* Only devices that match are bound, and one that has been registered     *)
(* completely is bound if it matches, unless the driver has still to look  *)
(* at it or root took it from the driver, which is then in.                *)
MatchInv ==
  /\ \A n \in bus_bound : ldm!custom_match(n) /\ n \notin bus_unbound
  /\ bus_unbound # {} => drv = "in"
  /\ \A n \in Names :
       (drv \in {"listed", "in"} /\ bus_dev[n] = "in" /\ n \notin todo
          /\ ldm!custom_match(n) /\ n \notin bus_unbound) => n \in bus_bound

BusInv == ldm!TypeOK /\ ldm!Unwound /\ TodoInv /\ OnBusInv /\ MatchInv

(* strncmp over the length of the driver's name finds exactly the names    *)
(* that begin with it.                                                     *)
LEMMA MatchIsPrefix ==
  ASSUME NEW n \in Seq(STRING)
  PROVE  ldm!custom_match(n) <=> ldm!StartsWith(n, ldm!driver_id)
<1> DEFINE d == ldm!driver_id
           S == STRING \cup {"Custom-Device", "1"}
<1>1. d \in Seq(S) /\ Len(d) = 2
  BY DEF ldm!driver_id
<1> HIDE DEF d
<1>2. Len(n) \in Nat /\ \A i \in 1 .. Len(n) : n[i] \in S
  BY LenProperties, ElementOfSeq
<1> HIDE DEF S
<1>3. SubSeq(d, 1, Len(d)) = d
  BY <1>1, SubSeqFull
<1>4. ASSUME Len(d) <= Len(n)
      PROVE  /\ SubSeq(n, 1, Len(d)) \in Seq(S)
             /\ Len(SubSeq(n, 1, Len(d))) = Len(d)
             /\ \A i \in 1 .. Len(d) : SubSeq(n, 1, Len(d))[i] = n[i]
  <2>1. \A i \in 1 .. Len(d) : n[i] \in S
    BY <1>1, <1>2, <1>4
  <2> QED
    BY <1>1, <2>1, SubSeqProperties
<1>5. Len(d) <= Len(n) =>
        (d = SubSeq(n, 1, Len(d)) <=> \A i \in 1 .. Len(d) : n[i] = d[i])
  BY <1>1, <1>4, SeqEqual
<1> QED
  BY <1>1, <1>2, <1>3, <1>5 DEF ldm!custom_match, ldm!IsPrefix, ldm!StartsWith, d

(* Every step of the bus, a device and the driver keeps the invariant,     *)
(* however their registrations interleave.                                 *)
LEMMA BusStep == BusInv /\ [ldm!Next]_busVars => BusInv'
<1> SUFFICES ASSUME BusInv, [ldm!Next]_busVars PROVE  BusInv'
  OBVIOUS
<1> USE DEF BusInv, ldm!TypeOK, ldm!Unwound, ldm!Registered, TodoInv,
  OnBusInv, MatchInv
<1>1. CASE ldm!custom_bus_init
  <2>1. ~bus /\ drv = "out" /\ todo = {} /\ bus_bound = {}
    BY <1>1 DEF ldm!custom_bus_init
  <2>2. UNCHANGED <<drv, todo, bus_bound, bus_unbound>>
    BY <1>1 DEF ldm!custom_bus_init
  <2>3. CASE /\ bus' = TRUE /\ bus_objs' = {"bus", "parent"}
             /\ bus_dev' = [bus_dev EXCEPT ![ldm!cus_dev] = "in"]
    BY <2>1, <2>2, <2>3
  <2>4. CASE /\ \E call \in BusFaults \ {"driver_register"} :
                  bus_objs' = ldm!Built(call) \ ldm!Undone(call)
             /\ UNCHANGED <<bus, bus_dev>>
    <3>1. bus_objs' = {}
      BY <2>4, BusAssumption DEF ldm!Built, ldm!Undone
    <3> QED
      BY <2>1, <2>2, <2>4, <3>1
  <2> QED
    BY <1>1, <2>3, <2>4 DEF ldm!custom_bus_init
<1>2. CASE ldm!custom_bus_exit
  BY <1>2 DEF ldm!custom_bus_exit, ldm!Used, ldm!Own_gone
<1>3. CASE ldm!custom_driver_init
  BY <1>3 DEF ldm!custom_driver_init
<1>4. CASE ldm!custom_driver_exit
  BY <1>4 DEF ldm!custom_driver_exit
<1>5. CASE ldm!driver_done
  BY <1>5 DEF ldm!driver_done
<1>6. ASSUME NEW n \in Names, ldm!custom_register_device(n) PROVE  BusInv'
  BY <1>6 DEF ldm!custom_register_device
<1>7. ASSUME NEW n \in Names, ldm!bus_probe_device(n) PROVE  BusInv'
  BY <1>7 DEF ldm!bus_probe_device, ldm!custom_probe
<1>8. ASSUME NEW n \in Names, ldm!custom_unregister_device(n) PROVE  BusInv'
  BY <1>8 DEF ldm!custom_unregister_device
<1>9. ASSUME NEW n \in Names, ldm!driver_attach(n) PROVE  BusInv'
  BY <1>9 DEF ldm!driver_attach, ldm!custom_probe
<1>10. ASSUME NEW n \in Names, ldm!driver_detach(n) PROVE  BusInv'
  BY <1>10 DEF ldm!driver_detach
<1>11. ASSUME NEW n \in Names, ldm!bind(n) PROVE  BusInv'
  BY <1>11 DEF ldm!bind, ldm!custom_probe
<1>12. ASSUME NEW n \in Names, ldm!unbind(n) PROVE  BusInv'
  BY <1>12 DEF ldm!unbind
<1>13. CASE UNCHANGED busVars
  BY <1>13 DEF busVars
<1> QED
  BY <1>1, <1>2, <1>3, <1>4, <1>5, <1>6, <1>7, <1>8, <1>9, <1>10, <1>11, <1>12, <1>13
    DEF ldm!Next

(* The invariant is what the run checks.                                   *)
LEMMA BusInvSafe == BusInv => BusSafe /\ BoundExactly
<1> SUFFICES ASSUME BusInv PROVE  BusSafe /\ BoundExactly
  OBVIOUS
<1>1. BusSafe
  BY DEF BusInv, BusSafe, ldm!Unwound, ldm!UsersHaveBus, OnBusInv
<1>2. ASSUME NEW n \in Names, drv = "in", bus_dev[n] = "in"
      PROVE  n \in bus_bound <=> ldm!StartsWith(n, ldm!driver_id) /\ n \notin bus_unbound
  <2>1. n \in bus_bound <=> ldm!custom_match(n) /\ n \notin bus_unbound
    BY <1>2 DEF BusInv, TodoInv, MatchInv
  <2> QED
    BY <2>1, NamesAssumption, MatchIsPrefix
<1>3. BoundExactly
  BY <1>2 DEF BusInv, TodoInv, BoundExactly, ldm!BoundExactly
<1> QED
  BY <1>1, <1>3

-----------------------------------------------------------------------------
(* The five modules side by side.                                          *)
ModInv == PwmInv /\ EpmInv /\ VideoInv /\ FbInv /\ BusInv

(* The invariants hold at the start, when no module is loaded.             *)
LEMMA ModStart == ModInit => ModInv
<1> SUFFICES ASSUME ModInit PROVE  ModInv
  OBVIOUS
<1>1. PwmInv
  BY PwmInit DEF ModInit
<1>2. EpmInv
  BY DEF ModInit, epm!Init, EpmInv, EpmSafe, PhaseInv, epm!TypeOK, epm!CodeStays,
    epm!CharDevReturned
<1>3. VideoInv
  <2>1. loaded \in BOOLEAN /\ file \in [Users -> {0} \cup node]
    BY DEF ModInit, video!Init
  <2> QED
    BY <2>1, LoadsAssumption DEF ModInit, video!Init, VideoInv, VideoSafe, ListInv,
      video!TypeOK, video!FilePinsDevice, video!DevsReturned, video!LiveNode
<1>4. FbInv
  <2>1. /\ fb_module = FALSE /\ pdrv = FALSE /\ fb_bound = FALSE
        /\ fb_released = FALSE /\ fb_oops = FALSE /\ refs = 0 /\ fb_file = {}
        /\ pdev = "out" /\ minor = "out" /\ cause = {}
    BY DEF ModInit, fb!Init
  <2>2. FbType
    BY <2>1 DEF FbType
  <2>3. CountInv
    BY <2>1, FS_EmptySet DEF CountInv
  <2>4. fb!BoundHasNode /\ fb!FilePinsModule /\ fb!HarmExplained /\ LoadedInv
    BY <2>1 DEF fb!BoundHasNode, fb!FilePinsModule, fb!HarmExplained, LoadedInv
  <2>5. NotUnboundInv
    BY <2>1 DEF NotUnboundInv
  <2> QED
    BY <2>2, <2>3, <2>4, <2>5 DEF FbInv
<1>5. BusInv
  <2>1. bus \in BOOLEAN /\ ~bus
    BY DEF ModInit, ldm!Init
  <2> QED
    BY <2>1 DEF ModInit, ldm!Init, BusInv, ldm!TypeOK, ldm!Unwound, ldm!Registered,
      TodoInv, OnBusInv, MatchInv
<1> QED
  BY <1>1, <1>2, <1>3, <1>4, <1>5 DEF ModInv

(* The invariants of the five modules hold in every state.                 *)
THEOREM Invariant == ModSpec => []ModInv
<1>1. ModInv /\ [ModNext]_modVars => ModInv'
  <2> SUFFICES ASSUME ModInv, [ModNext]_modVars PROVE  ModInv'
    OBVIOUS
  <2>1. /\ [Next]_vars /\ [epm!Next]_epmVars /\ [video!Next]_videoVars
        /\ [fb!Next]_fbVars /\ [ldm!Next]_busVars
    BY DEF ModNext, modVars
  <2>2. PwmInv'
    BY <2>1, PwmTypeStep, OpStep, ReaderStep, RegionStep DEF ModInv, PwmInv
  <2> QED
    BY <2>1, <2>2, EpmStep, VideoStep, FbStep, BusStep DEF ModInv
<1> QED
  BY <1>1, ModStart, PTL DEF ModSpec

(* Until the device is unbound through sysfs, a read_pwm thread reads only *)
(* mapped registers and is gone before the module is, for any number of    *)
(* loads and any failure (ehrpwm.c:61-70, 157-161, 198-201).               *)
THEOREM ReaderIsConfined == ModSpec => []ReaderConfined
<1>1. ModInv => ReaderConfined
  BY DEF ModInv, PwmInv, ReaderInv, ReaderConfined, Alive, Lives
<1> QED
  BY <1>1, Invariant, PTL

(* Only a sysfs unbind leaves a thread pwm_exit cannot stop, and between   *)
(* bindings no region is held (ehrpwm.c:90-102, 150, 162-164, 198-199).    *)
THEOREM PwmIsReturned == ModSpec => []PwmReturned
<1>1. ModInv => PwmReturned
  BY DEF ModInv, PwmInv, ReaderInv, PwmReturned, ReaderKnown, Alive, Lives
<1> QED
  BY <1>1, Invariant, PTL

(* Unless a load of epm has failed, nobody runs code that is gone, and     *)
(* unloads leave only the SPI driver and the memory of epm_drv behind      *)
(* (epm.c:38, 76-85, 116, 130-133).                                        *)
THEOREM EpmIsSafe == ModSpec => []EpmSafe
<1>1. ModInv => EpmSafe
  BY DEF ModInv, EpmInv
<1> QED
  BY <1>1, Invariant, PTL

(* An open video file has its module and its device, for any number of     *)
(* users, an unload frees the device of every load that succeeded, and of  *)
(* the nodes left behind only that of the present load has its device      *)
(* (vid4linux.c:261, 434-438, 448-458).                                    *)
THEOREM VideoIsSafe == ModSpec => []VideoSafe
<1>1. ModInv => VideoSafe
  BY DEF ModInv, VideoInv
<1> QED
  BY <1>1, Invariant, PTL

(* A bound frame buffer device has its node, a file keeps its module,      *)
(* fb_release runs under a user only after an unbind, and only an unload,  *)
(* a failed initialisation of the device or of its pipe, or a probe under  *)
(* open files does harm (fb_pl111.c:113, 126, 148-223).                    *)
THEOREM FbIsSafe == ModSpec => []FbSafe
<1>1. ModInv => FbSafe
  BY FbInvSafe DEF ModInv
<1> QED
  BY <1>1, Invariant, PTL

(* A load of the bus that fails half way takes back what it did, and       *)
(* whoever is on the bus still has one (custom_device.c:141-175).          *)
THEOREM BusIsSafe == ModSpec => []BusSafe
<1>1. ModInv => BusSafe
  BY BusInvSafe DEF ModInv
<1> QED
  BY <1>1, Invariant, PTL

(* For any set of names and any interleaving of the registrations, device  *)
(* and driver end up bound if and only if the device's name begins with    *)
(* the driver's and root has not unbound it since (custom_device.c:34-57). *)
THEOREM BoundIsExact == ModSpec => []BoundExactly
<1>1. ModInv => BoundExactly
  BY BusInvSafe DEF ModInv
<1> QED
  BY <1>1, Invariant, PTL
=============================================================================
