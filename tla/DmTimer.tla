------------------------------ MODULE DmTimer ------------------------------
(***************************************************************************)
(* The DMTIMER7 platform driver, src/lkml/dmtimer/dmtimer.c, with its      *)
(* nested interrupt chip, src/lkml/dmtimer/irq.c, as built (neither DEBUG  *)
(* nor SINGLE is defined).                                                 *)
(*                                                                         *)
(* The process that loads, binds, unbinds and unloads the driver runs one  *)
(* step of dmtimer_probe, dmtimer_remove or dmtimer_exit at a time.  The   *)
(* processor has one core, so the interrupt handler runs whole between two *)
(* of those steps; the tasklet runs when the kernel gets to it.  The timer *)
(* and the driver core are external: they are modelled from the registers  *)
(* the driver writes and the callbacks it registers.                       *)
(***************************************************************************)
EXTENDS Integers

CONSTANTS
  MaxDescs,   \* bound: probes in a behaviour (each allocates descriptors)
  Faults      \* which calls of dmtimer_probe may fail

ASSUME DescsAssumption  == MaxDescs \in Nat \ {0}
ASSUME FaultsAssumption ==
  Faults \subseteq {"virq", "r_mem", "ioremap", "request_irq", "irq_alloc_descs"}

Regions == {"CM", "T7"}

VARIABLES
  pc,           \* the next step of probe, remove or exit; "idle" between them
  module,       \* "unloaded" or "loaded"
  bound,        \* dmtimer_probe has succeeded for the device
  exiting,      \* dmtimer_exit is running
  other,        \* regions another driver occupies
  regions,      \* regions this driver has requested
  mapped,       \* the two base addresses: "none", "mapped", "NULL" or "stale"
  virq,         \* dmtimer_drv.virq: "zero" or the timer's interrupt "line"
  irq,          \* whose handler the line has: "none", "ours", or "freed", the
                \* one of a copy of the module that is gone
  base,         \* timer_irq_chip.base: "zero", "descs" or "error"
  descs,        \* blocks of four nested descriptors allocated so far
  enabledMask,  \* bits of timer_irq_chip.enabledMask
  tasklet,      \* TASKLET_STATE_SCHED of mytsk
  ticking,      \* the timer block is clocked and started, in auto-reload mode
  inten,        \* its overflow interrupt is enabled
  pending,      \* its overflow bit is set
  oops,         \* why the kernel is in an undefined state, if it is
  faults,       \* history: calls that have failed
  removed       \* history: dmtimer_remove has run

deviceVars == <<other, regions, mapped, virq, irq>>
nestedVars == <<base, descs, enabledMask>>
timerVars  == <<ticking, inten, pending>>
moduleVars == <<module, bound, exiting>>
vars == <<pc, moduleVars, deviceVars, nestedVars, tasklet, timerVars, oops,
          faults, removed>>

At(p)   == oops = "none" /\ pc = p
Goto(p) == pc' = p

(* A call either succeeds or, if it may fail, fails and is recorded.       *)
Succeeds    == UNCHANGED faults
Fails(call) == call \in Faults /\ faults' = faults \cup {call}

Init ==
  /\ pc = "idle" /\ module = "unloaded" /\ bound = FALSE /\ exiting = FALSE
  /\ other \in SUBSET Regions /\ regions = {} /\ mapped = "none"
  /\ virq = "zero" /\ irq = "none"
  /\ base = "zero" /\ descs = 0 /\ enabledMask = {} /\ tasklet = 0
  /\ ticking = FALSE /\ inten = FALSE /\ pending = FALSE
  /\ oops = "none" /\ faults = {} /\ removed = FALSE

-----------------------------------------------------------------------------
(* dmtimer_init.  A new copy of the module has its own zeroed data; the    *)
(* driver core probes the device at once.                                  *)
dmtimer_init ==
  /\ At("idle") /\ module = "unloaded" /\ descs < MaxDescs
  /\ module' = "loaded" /\ base' = "zero" /\ enabledMask' = {}
  /\ mapped' = "none" /\ virq' = "zero"
  /\ Goto("resources")
  /\ UNCHANGED <<bound, exiting, other, regions, irq, descs, tasklet, timerVars,
                 oops, faults, removed>>

(* The driver core binds the device again through sysfs (external).        *)
bind ==
  /\ At("idle") /\ module = "loaded" /\ ~bound /\ descs < MaxDescs
  /\ Goto("resources")
  /\ UNCHANGED <<moduleVars, deviceVars, nestedVars, tasklet, timerVars, oops,
                 faults, removed>>

-----------------------------------------------------------------------------
(* dmtimer_probe.  A failed probe leaves the module loaded and unbound.    *)

(* platform_get_resource and irq_of_parse_and_map, whose result goes to    *)
(* dmtimer_drv.virq whether it is a line or not.                           *)
probe_resources ==
  /\ At("resources")
  /\ \/ Succeeds /\ virq' = "line" /\ Goto("region_CM")
     \/ Fails("virq") /\ virq' = "zero" /\ Goto("idle")
     \/ Fails("r_mem") /\ virq' = "line" /\ Goto("idle")
  /\ UNCHANGED <<moduleVars, other, regions, mapped, irq, nestedVars, tasklet,
                 timerVars, oops, removed>>

(* The first request_mem_region.                                           *)
probe_region_CM ==
  /\ At("region_CM")
  /\ IF "CM" \in other \cup regions
     THEN Goto("idle") /\ UNCHANGED regions
     ELSE Goto("region_T7") /\ regions' = regions \cup {"CM"}
  /\ UNCHANGED <<moduleVars, other, mapped, virq, irq, nestedVars, tasklet,
                 timerVars, oops, faults, removed>>

(* Mutant: the result of the second request_mem_region is not looked at.   *)
probe_region_T7_mutant_unchecked ==
  /\ At("region_T7")
  /\ Goto("ioremap")
  /\ regions' = regions \cup ({"T7"} \ other)
  /\ UNCHANGED <<moduleVars, other, mapped, virq, irq, nestedVars, tasklet,
                 timerVars, oops, faults, removed>>

(* The second one; the early return keeps the first region.                *)
probe_region_T7 ==
  /\ At("region_T7")
  /\ IF "T7" \in other \cup regions
     THEN Goto("idle") /\ UNCHANGED regions
     ELSE Goto("ioremap") /\ regions' = regions \cup {"T7"}
  /\ UNCHANGED <<moduleVars, other, mapped, virq, irq, nestedVars, tasklet,
                 timerVars, oops, faults, removed>>

(* The results of ioremap_nocache are not looked at.                       *)
probe_ioremap ==
  /\ At("ioremap")
  /\ \/ Succeeds /\ mapped' = "mapped"
     \/ Fails("ioremap") /\ mapped' = "NULL"
  /\ Goto("request_irq")
  /\ UNCHANGED <<moduleVars, other, regions, virq, irq, nestedVars, tasklet,
                 timerVars, oops, removed>>

(* Mutant: the timer is started before the nested descriptors exist.       *)
probe_request_irq_mutant_started ==
  /\ At("request_irq")
  /\ irq' = "ours" /\ ticking' = TRUE /\ inten' = TRUE
  /\ Goto("nested")
  /\ UNCHANGED <<moduleVars, other, regions, mapped, virq, nestedVars, tasklet,
                 pending, oops, faults, removed>>

(* request_irq, whose result is overwritten.  The line is not shared: it   *)
(* is refused while a handler is registered, this driver's own after an    *)
(* unbind or that of a module that is gone.                                *)
probe_request_irq ==
  /\ At("request_irq")
  /\ \/ Succeeds /\ irq' = IF irq = "none" THEN "ours" ELSE irq
     \/ Fails("request_irq") /\ UNCHANGED irq
  /\ Goto("nested")
  /\ UNCHANGED <<moduleVars, other, regions, mapped, virq, nestedVars, tasklet,
                 timerVars, oops, removed>>

(* dmtimer_irq_alloc_chip: base is unsigned, so the test for an error      *)
(* never holds and probe goes on with the error in base.                   *)
timer_irq_init ==
  /\ At("nested")
  /\ \/ Succeeds /\ base' = "descs" /\ descs' = descs + 1
     \/ Fails("irq_alloc_descs") /\ base' = "error" /\ UNCHANGED descs
  /\ Goto("request_nested")
  /\ UNCHANGED <<moduleVars, deviceVars, enabledMask, tasklet, timerVars, oops,
                 removed>>

(* dmtimer_irqunmask ORs in the complement of the bit.                     *)
dmtimer_irqunmask(n) == enabledMask' = enabledMask \cup ((0 .. 31) \ {n})

(* request_threaded_irq for nested line 2, which unmasks it; its result is *)
(* not looked at.  Line 2 of an error base does not exist.                 *)
probe_request_nested ==
  /\ At("request_nested")
  /\ IF base = "descs" THEN dmtimer_irqunmask(2) ELSE UNCHANGED enabledMask
  /\ Goto("program")
  /\ UNCHANGED <<moduleVars, deviceVars, base, descs, tasklet, timerVars, oops,
                 faults, removed>>

(* The clock, the interrupt enable, the counter, the reload value and the  *)
(* start bit, in that order.                                               *)
probe_program ==
  /\ At("program")
  /\ IF mapped = "mapped"
     THEN /\ inten' = TRUE /\ ticking' = TRUE /\ bound' = TRUE
          /\ Goto("idle")
          /\ UNCHANGED oops
     ELSE oops' = "NULL base" /\ UNCHANGED <<inten, ticking, bound, pc>>
  /\ UNCHANGED <<module, exiting, deviceVars, nestedVars, tasklet, pending,
                 faults, removed>>

-----------------------------------------------------------------------------
(* dmtimer_remove, called by an unbind or by platform_driver_unregister.   *)

unbind ==
  /\ At("idle") /\ module = "loaded" /\ bound
  /\ Goto("remove")
  /\ UNCHANGED <<moduleVars, deviceVars, nestedVars, tasklet, timerVars, oops,
                 faults, removed>>

(* Of its two writes, one goes to timer7_base + 0x7c, where the timer has  *)
(* no register, the other writes 0 to a set-bits register: neither stops   *)
(* the timer or its interrupt.  Then both addresses are unmapped.          *)
dmtimer_remove ==
  /\ At("remove")
  /\ mapped' = "stale"
  /\ removed' = TRUE
  /\ Goto("release")
  /\ UNCHANGED <<moduleVars, other, regions, virq, irq, nestedVars, tasklet,
                 timerVars, oops, faults>>

(* Mutant: the first region is not released.                               *)
dmtimer_remove_release_mutant_one ==
  /\ At("release")
  /\ regions' = regions \ {"T7"} /\ bound' = FALSE
  /\ Goto(IF exiting THEN "tasklet_kill" ELSE "idle")
  /\ UNCHANGED <<module, exiting, other, mapped, virq, irq, nestedVars, tasklet,
                 timerVars, oops, faults, removed>>

(* release_mem_region, twice.                                              *)
dmtimer_remove_release ==
  /\ At("release")
  /\ regions' = {} /\ bound' = FALSE
  /\ Goto(IF exiting THEN "tasklet_kill" ELSE "idle")
  /\ UNCHANGED <<module, exiting, other, mapped, virq, irq, nestedVars, tasklet,
                 timerVars, oops, faults, removed>>

-----------------------------------------------------------------------------
(* dmtimer_exit.  my_thread is never set in this build.                    *)

dmtimer_exit ==
  /\ At("idle") /\ module = "loaded"
  /\ exiting' = TRUE
  /\ Goto(IF bound THEN "remove" ELSE "tasklet_kill")
  /\ UNCHANGED <<module, bound, deviceVars, nestedVars, tasklet, timerVars, oops,
                 faults, removed>>

(* tasklet_kill waits for the tasklet to have run.                         *)
dmtimer_exit_tasklet_kill ==
  /\ At("tasklet_kill") /\ tasklet = 0
  /\ Goto("free_irq")
  /\ UNCHANGED <<moduleVars, deviceVars, nestedVars, tasklet, timerVars, oops,
                 faults, removed>>

(* free_irq of dmtimer_drv.virq, which only warns when that line has no    *)
(* handler: after a probe that found no line it is 0, and the handler of   *)
(* an earlier probe stays.  The dev_id is NULL for every copy of the       *)
(* module, so the handler of one that is gone is freed too.  Then the      *)
(* kernel frees the module, with the nested handler still registered.  A   *)
(* tasklet scheduled since tasklet_kill leaves freed memory on the list of *)
(* tasklets to run.                                                        *)
dmtimer_exit_free_irq ==
  /\ At("free_irq")
  /\ irq' = IF virq = "line" \/ irq = "none" THEN "none" ELSE "freed"
  /\ module' = "unloaded" /\ exiting' = FALSE
  /\ oops' = IF tasklet = 1 THEN "tasklet" ELSE "none"
  /\ Goto("idle")
  /\ UNCHANGED <<bound, other, regions, mapped, virq, nestedVars, tasklet,
                 timerVars, faults, removed>>

-----------------------------------------------------------------------------
(* The timer overflows and reloads itself (external).                      *)
overflow ==
  /\ oops = "none" /\ ticking /\ ~pending
  /\ pending' = TRUE
  /\ UNCHANGED <<pc, moduleVars, deviceVars, nestedVars, tasklet, ticking,
                 inten, oops, faults, removed>>

(* Is the interrupt line asserted, with a handler to take it?              *)
Interrupt == oops = "none" /\ irq # "none" /\ pending /\ inten

(* Mutant: the interrupt is disabled and not enabled again.                *)
dmtimer_irq_handler_mutant_disabled ==
  /\ Interrupt
  /\ inten' = FALSE /\ pending' = FALSE /\ tasklet' = 1
  /\ UNCHANGED <<pc, moduleVars, deviceVars, nestedVars, ticking, oops, faults,
                 removed>>

(* Mutant: a tasklet that is scheduled already is scheduled once more.     *)
dmtimer_irq_handler_mutant_twice ==
  /\ Interrupt
  /\ pending' = FALSE /\ tasklet' = tasklet + 1
  /\ UNCHANGED <<pc, moduleVars, deviceVars, nestedVars, ticking, inten, oops,
                 faults, removed>>

(* The handler keeps the clock on, disables, clears and enables the        *)
(* interrupt, schedules the tasklet and raises nested line 2.  Registers   *)
(* that are no longer mapped, and a line 2 of nobody's base, may be        *)
(* reachable all the same; the code of a module that is gone is not.       *)
dmtimer_irq_handler ==
  /\ Interrupt
  /\ \/ /\ irq = "ours" /\ mapped # "NULL" /\ base # "error"
        /\ pending' = FALSE /\ tasklet' = 1
        /\ UNCHANGED oops
     \/ /\ irq = "freed" \/ mapped # "mapped" \/ base # "descs"
        /\ oops' = "handler"
        /\ UNCHANGED <<pending, tasklet>>
  /\ UNCHANGED <<pc, moduleVars, deviceVars, nestedVars, ticking, inten, faults,
                 removed>>

dmtimer_tasklet ==
  /\ oops = "none" /\ tasklet = 1
  /\ tasklet' = 0
  /\ UNCHANGED <<pc, moduleVars, deviceVars, nestedVars, timerVars, oops, faults,
                 removed>>

Oopsed == oops # "none" /\ UNCHANGED vars

(* Nothing is left to do once the bound on probes is reached.              *)
Done ==
  /\ pc = "idle" /\ module = "unloaded" /\ descs = MaxDescs
  /\ UNCHANGED vars

probe ==
  \/ probe_resources \/ probe_region_CM \/ probe_region_T7 \/ probe_ioremap
  \/ probe_request_irq \/ timer_irq_init \/ probe_request_nested \/ probe_program

remove == dmtimer_remove \/ dmtimer_remove_release

exit == dmtimer_exit_tasklet_kill \/ dmtimer_exit_free_irq

Next ==
  \/ dmtimer_init \/ bind \/ unbind \/ dmtimer_exit
  \/ probe \/ remove \/ exit
  \/ overflow \/ dmtimer_irq_handler \/ dmtimer_tasklet
  \/ Oopsed \/ Done

(* The hardware counts, raises interrupts and is heard; softirqs run.      *)
Fairness == WF_vars(overflow) /\ WF_vars(dmtimer_irq_handler) /\ WF_vars(dmtimer_tasklet)

Spec == Init /\ [][Next]_vars
FairSpec == Spec /\ Fairness

-----------------------------------------------------------------------------
(* The reload value 0xFE91C9FF, in 16-bit halves: the timer overflows after *)
(* 2^32 - 0xFE91C9FF ticks.                                                *)
reload == [high |-> 65169, low |-> 51711]
Period == (65535 - reload.high) * 65536 + (65536 - reload.low)
clock  == 24000000

-----------------------------------------------------------------------------
(* Properties.                                                             *)

ProcessTypeOK ==
  /\ pc \in {"idle", "resources", "region_CM", "region_T7", "ioremap",
             "request_irq", "nested", "request_nested", "program", "remove",
             "release", "tasklet_kill", "free_irq"}
  /\ module \in {"unloaded", "loaded"}
  /\ bound \in BOOLEAN
  /\ exiting \in BOOLEAN

DeviceTypeOK ==
  /\ other \subseteq Regions
  /\ regions \subseteq Regions
  /\ mapped \in {"none", "mapped", "NULL", "stale"}
  /\ virq \in {"zero", "line"}
  /\ irq \in {"none", "ours", "freed"}

NestedTypeOK ==
  /\ base \in {"zero", "descs", "error"}
  /\ descs \in 0 .. MaxDescs
  /\ enabledMask \subseteq 0 .. 31
  /\ tasklet \in 0 .. 1

TimerTypeOK ==
  /\ ticking \in BOOLEAN
  /\ inten \in BOOLEAN
  /\ pending \in BOOLEAN

HistoryTypeOK ==
  /\ oops \in {"none", "NULL base", "handler", "tasklet"}
  /\ faults \subseteq Faults
  /\ removed \in BOOLEAN

(* Every variable has its type.                                            *)
TypeOK == ProcessTypeOK /\ DeviceTypeOK /\ NestedTypeOK /\ TimerTypeOK /\ HistoryTypeOK

(* Until the driver is first removed, no interrupt finds it half set up    *)
(* and no exit leaves a tasklet behind: the kernel can come to harm only   *)
(* through the two calls whose failure dmtimer_probe does not notice, in   *)
(* the probe itself when ioremap failed, and by an interrupt of the bound  *)
(* driver when irq_alloc_descs did (dmtimer.c:126-127, 176-179, 187-188,   *)
(* 210-237; irq.c:36-40).                                                  *)
FirstLoadSafe ==
  (~removed /\ oops # "none") =>
    \/ oops = "NULL base" /\ "ioremap" \in faults
    \/ oops = "handler" /\ bound /\ base = "error" /\ "irq_alloc_descs" \in faults

(* A bound driver holds both regions and both mappings, and its handler is *)
(* registered unless request_irq failed or the line still has the handler  *)
(* of a module unloaded after a probe that found no line, through every    *)
(* order of binding, unbinding and reloading.  So an interrupt harms the   *)
(* kernel while the driver is bound only through that handler or an error  *)
(* base: the stale addresses of an unbind are gone with the next bind      *)
(* (dmtimer.c:119-128, 140-142, 162-188, 252-284).                         *)
BoundReady ==
  (bound /\ pc = "idle") =>
    /\ regions = Regions /\ mapped = "mapped"
    /\ \/ irq = "ours" \/ "request_irq" \in faults
       \/ irq = "freed" /\ "virq" \in faults
    /\ oops # "none" => base = "error" \/ irq = "freed"

(* Only the first region outlives the module, and only after a probe that  *)
(* another driver's hold on the timer region made fail half way            *)
(* (dmtimer.c:162-172, 261-262).                                           *)
RegionsReturned ==
  module = "unloaded" => regions = {} \/ (regions = {"CM"} /\ "T7" \in other)

(* While the driver stays bound its tasklet is scheduled again and again:  *)
(* every handler run leaves the interrupt enabled (dmtimer.c:233-237,      *)
(* 276-284).                                                               *)
KeepsFiring ==
  (bound /\ irq = "ours" /\ pc = "idle") ~> (tasklet = 1 \/ pc # "idle" \/ oops # "none")

(* "Programming TI Sitara processor's DMTIMER 7 to fire interrupt every 1  *)
(* second", with a 24 MHz clock (dmtimer.c:1-2).                           *)
EverySecond == ticking => Period = clock
=============================================================================
