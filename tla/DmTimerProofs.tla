--------------------------- MODULE DmTimerProofs ---------------------------
(***************************************************************************)
(* Proofs about DmTimer, for any number of probes and any set of injected  *)
(* failures.                                                               *)
(*                                                                         *)
(* The invariants the runs check are not inductive: whether an interrupt   *)
(* finds the driver set up depends on how far probe, remove or exit is.    *)
(* Inv records, for every position of the process, what it has requested,  *)
(* mapped and started there.                                               *)
(***************************************************************************)
EXTENDS DmTimer, TLAPS

(* The steps of dmtimer_probe after both regions have been requested.      *)
HoldingRegions == {"ioremap", "request_irq", "nested", "request_nested", "program"}
Probing == HoldingRegions \cup {"resources", "region_CM", "region_T7"}
Leaving == {"tasklet_kill", "free_irq"}

(* Which of probe, remove and exit is running, and what the driver core    *)
(* knows meanwhile.                                                        *)
ControlInv ==
  /\ module = "unloaded" => pc = "idle" /\ ~bound /\ irq # "ours"
  /\ pc \in Probing \cup Leaving => ~bound
  /\ pc \in {"remove", "release"} => bound
  /\ pc \in Probing \ {"request_nested", "program"} => descs < MaxDescs

(* The regions requested at each position.  Outside a probe a driver that  *)
(* is not bound holds none, unless the second request was refused.         *)
RegionInv ==
  /\ pc = "region_T7" => regions = {"CM"}
  /\ (pc \in HoldingRegions \/ bound) => regions = Regions
  /\ (~bound /\ pc \in {"idle", "resources", "region_CM"} \cup Leaving) =>
       regions = {} \/ (regions = {"CM"} /\ "T7" \in other)

(* The mappings, the nested descriptors and the handler at each position.  *)
SetupInv ==
  /\ pc \in {"request_irq", "nested", "request_nested", "program"} =>
       mapped = "mapped" \/ (mapped = "NULL" /\ "ioremap" \in faults)
  /\ (bound /\ pc # "release") => mapped = "mapped"
  /\ (bound \/ pc \in {"request_nested", "program"}) => base # "zero"
  /\ base = "error" => "irq_alloc_descs" \in faults
  /\ (bound \/ pc \in {"nested", "request_nested", "program"}) =>
       irq # "none" \/ "request_irq" \in faults
  /\ (bound \/ pc \in HoldingRegions \cup {"region_CM", "region_T7"}) => virq = "line"
  /\ (irq = "freed" \/ (irq = "ours" /\ virq = "zero")) => "virq" \in faults

(* While the driver is bound an interrupt finds its registers and, but for *)
(* a failed allocation, its descriptors.                                   *)
BoundInv ==
  (bound /\ pc = "idle" /\ oops # "none") => base = "error" \/ irq = "freed"

(* Until the driver is removed, the timer runs and the tasklet is          *)
(* scheduled only while the driver is bound, and a registered handler is   *)
(* that of a probe that goes on to bind it.                                *)
FirstLoadInv ==
  ~removed => /\ pc # "release"
              /\ ticking => bound
              /\ pending => ticking
              /\ tasklet = 1 => ticking
              /\ irq # "none" =>
                   /\ irq = "ours"
                   /\ bound \/ pc \in {"nested", "request_nested", "program"}

Inv ==
  /\ TypeOK /\ ControlInv /\ RegionInv /\ SetupInv /\ BoundInv
  /\ FirstLoadInv /\ FirstLoadSafe

-----------------------------------------------------------------------------
(* Every step of the process, the timer and the kernel keeps the types.    *)
LEMMA TypeStep == Inv /\ [Next]_vars => TypeOK'
<1> SUFFICES ASSUME Inv, [Next]_vars PROVE  TypeOK'
  OBVIOUS
<1> USE DEF Inv, TypeOK
<1>1. CASE dmtimer_init
  <2>1. ProcessTypeOK'
    BY <1>1 DEF dmtimer_init, timerVars, At, Goto, ProcessTypeOK
  <2>2. DeviceTypeOK'
    BY <1>1 DEF dmtimer_init, timerVars, At, Goto, DeviceTypeOK
  <2>3. NestedTypeOK'
    BY <1>1 DEF dmtimer_init, timerVars, At, Goto, NestedTypeOK
  <2>4. TimerTypeOK'
    BY <1>1 DEF dmtimer_init, timerVars, At, Goto, TimerTypeOK
  <2>5. HistoryTypeOK'
    BY <1>1 DEF dmtimer_init, timerVars, At, Goto, HistoryTypeOK
  <2> QED
    BY <2>1, <2>2, <2>3, <2>4, <2>5
<1>2. CASE bind
  <2>1. ProcessTypeOK'
    BY <1>2 DEF bind, moduleVars, deviceVars, nestedVars, timerVars, At, Goto,
      ProcessTypeOK
  <2>2. DeviceTypeOK'
    BY <1>2 DEF bind, moduleVars, deviceVars, nestedVars, timerVars, At, Goto,
      DeviceTypeOK
  <2>3. NestedTypeOK'
    BY <1>2 DEF bind, moduleVars, deviceVars, nestedVars, timerVars, At, Goto,
      NestedTypeOK
  <2>4. TimerTypeOK'
    BY <1>2 DEF bind, moduleVars, deviceVars, nestedVars, timerVars, At, Goto,
      TimerTypeOK
  <2>5. HistoryTypeOK'
    BY <1>2 DEF bind, moduleVars, deviceVars, nestedVars, timerVars, At, Goto,
      HistoryTypeOK
  <2> QED
    BY <2>1, <2>2, <2>3, <2>4, <2>5
<1>3. CASE unbind
  <2>1. ProcessTypeOK'
    BY <1>3 DEF unbind, moduleVars, deviceVars, nestedVars, timerVars, At,
      Goto, ProcessTypeOK
  <2>2. DeviceTypeOK'
    BY <1>3 DEF unbind, moduleVars, deviceVars, nestedVars, timerVars, At,
      Goto, DeviceTypeOK
  <2>3. NestedTypeOK'
    BY <1>3 DEF unbind, moduleVars, deviceVars, nestedVars, timerVars, At,
      Goto, NestedTypeOK
  <2>4. TimerTypeOK'
    BY <1>3 DEF unbind, moduleVars, deviceVars, nestedVars, timerVars, At,
      Goto, TimerTypeOK
  <2>5. HistoryTypeOK'
    BY <1>3 DEF unbind, moduleVars, deviceVars, nestedVars, timerVars, At,
      Goto, HistoryTypeOK
  <2> QED
    BY <2>1, <2>2, <2>3, <2>4, <2>5
<1>4. CASE dmtimer_exit
  <2>1. ProcessTypeOK'
    BY <1>4 DEF dmtimer_exit, deviceVars, nestedVars, timerVars, At, Goto,
      ProcessTypeOK
  <2>2. DeviceTypeOK'
    BY <1>4 DEF dmtimer_exit, deviceVars, nestedVars, timerVars, At, Goto,
      DeviceTypeOK
  <2>3. NestedTypeOK'
    BY <1>4 DEF dmtimer_exit, deviceVars, nestedVars, timerVars, At, Goto,
      NestedTypeOK
  <2>4. TimerTypeOK'
    BY <1>4 DEF dmtimer_exit, deviceVars, nestedVars, timerVars, At, Goto,
      TimerTypeOK
  <2>5. HistoryTypeOK'
    BY <1>4 DEF dmtimer_exit, deviceVars, nestedVars, timerVars, At, Goto,
      HistoryTypeOK
  <2> QED
    BY <2>1, <2>2, <2>3, <2>4, <2>5
<1>5. CASE probe_resources
  <2>1. ProcessTypeOK'
    BY <1>5 DEF probe_resources, Succeeds, Fails, moduleVars, deviceVars,
      nestedVars, timerVars, At, Goto, ProcessTypeOK
  <2>2. DeviceTypeOK'
    BY <1>5 DEF probe_resources, Succeeds, Fails, moduleVars, deviceVars,
      nestedVars, timerVars, At, Goto, DeviceTypeOK
  <2>3. NestedTypeOK'
    BY <1>5 DEF probe_resources, Succeeds, Fails, moduleVars, deviceVars,
      nestedVars, timerVars, At, Goto, NestedTypeOK
  <2>4. TimerTypeOK'
    BY <1>5 DEF probe_resources, Succeeds, Fails, moduleVars, deviceVars,
      nestedVars, timerVars, At, Goto, TimerTypeOK
  <2>5. HistoryTypeOK'
    BY <1>5 DEF probe_resources, Succeeds, Fails, moduleVars, deviceVars,
      nestedVars, timerVars, At, Goto, HistoryTypeOK
  <2> QED
    BY <2>1, <2>2, <2>3, <2>4, <2>5
<1>6. CASE probe_region_CM
  <2>1. ProcessTypeOK'
    BY <1>6 DEF probe_region_CM, Regions, moduleVars, nestedVars, timerVars,
      At, Goto, ProcessTypeOK
  <2>2. DeviceTypeOK'
    BY <1>6 DEF probe_region_CM, Regions, moduleVars, nestedVars, timerVars,
      At, Goto, DeviceTypeOK
  <2>3. NestedTypeOK'
    BY <1>6 DEF probe_region_CM, Regions, moduleVars, nestedVars, timerVars,
      At, Goto, NestedTypeOK
  <2>4. TimerTypeOK'
    BY <1>6 DEF probe_region_CM, Regions, moduleVars, nestedVars, timerVars,
      At, Goto, TimerTypeOK
  <2>5. HistoryTypeOK'
    BY <1>6 DEF probe_region_CM, Regions, moduleVars, nestedVars, timerVars,
      At, Goto, HistoryTypeOK
  <2> QED
    BY <2>1, <2>2, <2>3, <2>4, <2>5
<1>7. CASE probe_region_T7
  <2>1. ProcessTypeOK'
    BY <1>7 DEF probe_region_T7, Regions, moduleVars, nestedVars, timerVars,
      At, Goto, ProcessTypeOK
  <2>2. DeviceTypeOK'
    BY <1>7 DEF probe_region_T7, Regions, moduleVars, nestedVars, timerVars,
      At, Goto, DeviceTypeOK
  <2>3. NestedTypeOK'
    BY <1>7 DEF probe_region_T7, Regions, moduleVars, nestedVars, timerVars,
      At, Goto, NestedTypeOK
  <2>4. TimerTypeOK'
    BY <1>7 DEF probe_region_T7, Regions, moduleVars, nestedVars, timerVars,
      At, Goto, TimerTypeOK
  <2>5. HistoryTypeOK'
    BY <1>7 DEF probe_region_T7, Regions, moduleVars, nestedVars, timerVars,
      At, Goto, HistoryTypeOK
  <2> QED
    BY <2>1, <2>2, <2>3, <2>4, <2>5
<1>8. CASE probe_ioremap
  <2>1. ProcessTypeOK'
    BY <1>8 DEF probe_ioremap, Succeeds, Fails, moduleVars, nestedVars,
      timerVars, At, Goto, ProcessTypeOK
  <2>2. DeviceTypeOK'
    BY <1>8 DEF probe_ioremap, Succeeds, Fails, moduleVars, nestedVars,
      timerVars, At, Goto, DeviceTypeOK
  <2>3. NestedTypeOK'
    BY <1>8 DEF probe_ioremap, Succeeds, Fails, moduleVars, nestedVars,
      timerVars, At, Goto, NestedTypeOK
  <2>4. TimerTypeOK'
    BY <1>8 DEF probe_ioremap, Succeeds, Fails, moduleVars, nestedVars,
      timerVars, At, Goto, TimerTypeOK
  <2>5. HistoryTypeOK'
    BY <1>8 DEF probe_ioremap, Succeeds, Fails, moduleVars, nestedVars,
      timerVars, At, Goto, HistoryTypeOK
  <2> QED
    BY <2>1, <2>2, <2>3, <2>4, <2>5
<1>9. CASE probe_request_irq
  <2>1. ProcessTypeOK'
    BY <1>9 DEF probe_request_irq, Succeeds, Fails, moduleVars, nestedVars,
      timerVars, At, Goto, ProcessTypeOK
  <2>2. DeviceTypeOK'
    BY <1>9 DEF probe_request_irq, Succeeds, Fails, moduleVars, nestedVars,
      timerVars, At, Goto, DeviceTypeOK
  <2>3. NestedTypeOK'
    BY <1>9 DEF probe_request_irq, Succeeds, Fails, moduleVars, nestedVars,
      timerVars, At, Goto, NestedTypeOK
  <2>4. TimerTypeOK'
    BY <1>9 DEF probe_request_irq, Succeeds, Fails, moduleVars, nestedVars,
      timerVars, At, Goto, TimerTypeOK
  <2>5. HistoryTypeOK'
    BY <1>9 DEF probe_request_irq, Succeeds, Fails, moduleVars, nestedVars,
      timerVars, At, Goto, HistoryTypeOK
  <2> QED
    BY <2>1, <2>2, <2>3, <2>4, <2>5
<1>10. CASE timer_irq_init
  <2>1. ProcessTypeOK'
    BY <1>10 DEF timer_irq_init, Succeeds, Fails, moduleVars, deviceVars,
      timerVars, At, Goto, ProcessTypeOK
  <2>2. DeviceTypeOK'
    BY <1>10 DEF timer_irq_init, Succeeds, Fails, moduleVars, deviceVars,
      timerVars, At, Goto, DeviceTypeOK
  <2>3. NestedTypeOK'
    BY <1>10, DescsAssumption DEF timer_irq_init, Succeeds, Fails, moduleVars,
      deviceVars, timerVars, At, Goto, NestedTypeOK, ControlInv, Probing,
      HoldingRegions
  <2>4. TimerTypeOK'
    BY <1>10 DEF timer_irq_init, Succeeds, Fails, moduleVars, deviceVars,
      timerVars, At, Goto, TimerTypeOK
  <2>5. HistoryTypeOK'
    BY <1>10 DEF timer_irq_init, Succeeds, Fails, moduleVars, deviceVars,
      timerVars, At, Goto, HistoryTypeOK
  <2> QED
    BY <2>1, <2>2, <2>3, <2>4, <2>5
<1>11. CASE probe_request_nested
  <2>1. ProcessTypeOK'
    BY <1>11 DEF probe_request_nested, dmtimer_irqunmask, moduleVars,
      deviceVars, timerVars, At, Goto, ProcessTypeOK
  <2>2. DeviceTypeOK'
    BY <1>11 DEF probe_request_nested, dmtimer_irqunmask, moduleVars,
      deviceVars, timerVars, At, Goto, DeviceTypeOK
  <2>3. NestedTypeOK'
    BY <1>11 DEF probe_request_nested, dmtimer_irqunmask, moduleVars,
      deviceVars, timerVars, At, Goto, NestedTypeOK
  <2>4. TimerTypeOK'
    BY <1>11 DEF probe_request_nested, dmtimer_irqunmask, moduleVars,
      deviceVars, timerVars, At, Goto, TimerTypeOK
  <2>5. HistoryTypeOK'
    BY <1>11 DEF probe_request_nested, dmtimer_irqunmask, moduleVars,
      deviceVars, timerVars, At, Goto, HistoryTypeOK
  <2> QED
    BY <2>1, <2>2, <2>3, <2>4, <2>5
<1>12. CASE probe_program
  <2>1. ProcessTypeOK'
    BY <1>12 DEF probe_program, deviceVars, nestedVars, At, Goto,
      ProcessTypeOK
  <2>2. DeviceTypeOK'
    BY <1>12 DEF probe_program, deviceVars, nestedVars, At, Goto, DeviceTypeOK
  <2>3. NestedTypeOK'
    BY <1>12 DEF probe_program, deviceVars, nestedVars, At, Goto, NestedTypeOK
  <2>4. TimerTypeOK'
    BY <1>12 DEF probe_program, deviceVars, nestedVars, At, Goto, TimerTypeOK
  <2>5. HistoryTypeOK'
    BY <1>12 DEF probe_program, deviceVars, nestedVars, At, Goto,
      HistoryTypeOK
  <2> QED
    BY <2>1, <2>2, <2>3, <2>4, <2>5
<1>13. CASE dmtimer_remove
  <2>1. ProcessTypeOK'
    BY <1>13 DEF dmtimer_remove, moduleVars, nestedVars, timerVars, At, Goto,
      ProcessTypeOK
  <2>2. DeviceTypeOK'
    BY <1>13 DEF dmtimer_remove, moduleVars, nestedVars, timerVars, At, Goto,
      DeviceTypeOK
  <2>3. NestedTypeOK'
    BY <1>13 DEF dmtimer_remove, moduleVars, nestedVars, timerVars, At, Goto,
      NestedTypeOK
  <2>4. TimerTypeOK'
    BY <1>13 DEF dmtimer_remove, moduleVars, nestedVars, timerVars, At, Goto,
      TimerTypeOK
  <2>5. HistoryTypeOK'
    BY <1>13 DEF dmtimer_remove, moduleVars, nestedVars, timerVars, At, Goto,
      HistoryTypeOK
  <2> QED
    BY <2>1, <2>2, <2>3, <2>4, <2>5
<1>14. CASE dmtimer_remove_release
  <2>1. ProcessTypeOK'
    BY <1>14 DEF dmtimer_remove_release, nestedVars, timerVars, At, Goto,
      ProcessTypeOK
  <2>2. DeviceTypeOK'
    BY <1>14 DEF dmtimer_remove_release, nestedVars, timerVars, At, Goto,
      DeviceTypeOK
  <2>3. NestedTypeOK'
    BY <1>14 DEF dmtimer_remove_release, nestedVars, timerVars, At, Goto,
      NestedTypeOK
  <2>4. TimerTypeOK'
    BY <1>14 DEF dmtimer_remove_release, nestedVars, timerVars, At, Goto,
      TimerTypeOK
  <2>5. HistoryTypeOK'
    BY <1>14 DEF dmtimer_remove_release, nestedVars, timerVars, At, Goto,
      HistoryTypeOK
  <2> QED
    BY <2>1, <2>2, <2>3, <2>4, <2>5
<1>15. CASE dmtimer_exit_tasklet_kill
  <2>1. ProcessTypeOK'
    BY <1>15 DEF dmtimer_exit_tasklet_kill, moduleVars, deviceVars,
      nestedVars, timerVars, At, Goto, ProcessTypeOK
  <2>2. DeviceTypeOK'
    BY <1>15 DEF dmtimer_exit_tasklet_kill, moduleVars, deviceVars,
      nestedVars, timerVars, At, Goto, DeviceTypeOK
  <2>3. NestedTypeOK'
    BY <1>15 DEF dmtimer_exit_tasklet_kill, moduleVars, deviceVars,
      nestedVars, timerVars, At, Goto, NestedTypeOK
  <2>4. TimerTypeOK'
    BY <1>15 DEF dmtimer_exit_tasklet_kill, moduleVars, deviceVars,
      nestedVars, timerVars, At, Goto, TimerTypeOK
  <2>5. HistoryTypeOK'
    BY <1>15 DEF dmtimer_exit_tasklet_kill, moduleVars, deviceVars,
      nestedVars, timerVars, At, Goto, HistoryTypeOK
  <2> QED
    BY <2>1, <2>2, <2>3, <2>4, <2>5
<1>16. CASE dmtimer_exit_free_irq
  <2>1. ProcessTypeOK'
    BY <1>16 DEF dmtimer_exit_free_irq, nestedVars, timerVars, At, Goto,
      ProcessTypeOK
  <2>2. DeviceTypeOK'
    BY <1>16 DEF dmtimer_exit_free_irq, nestedVars, timerVars, At, Goto,
      DeviceTypeOK
  <2>3. NestedTypeOK'
    BY <1>16 DEF dmtimer_exit_free_irq, nestedVars, timerVars, At, Goto,
      NestedTypeOK
  <2>4. TimerTypeOK'
    BY <1>16 DEF dmtimer_exit_free_irq, nestedVars, timerVars, At, Goto,
      TimerTypeOK
  <2>5. HistoryTypeOK'
    BY <1>16 DEF dmtimer_exit_free_irq, nestedVars, timerVars, At, Goto,
      HistoryTypeOK
  <2> QED
    BY <2>1, <2>2, <2>3, <2>4, <2>5
<1>17. CASE overflow
  <2>1. ProcessTypeOK'
    BY <1>17 DEF overflow, moduleVars, deviceVars, nestedVars, ProcessTypeOK
  <2>2. DeviceTypeOK'
    BY <1>17 DEF overflow, moduleVars, deviceVars, nestedVars, DeviceTypeOK
  <2>3. NestedTypeOK'
    BY <1>17 DEF overflow, moduleVars, deviceVars, nestedVars, NestedTypeOK
  <2>4. TimerTypeOK'
    BY <1>17 DEF overflow, moduleVars, deviceVars, nestedVars, TimerTypeOK
  <2>5. HistoryTypeOK'
    BY <1>17 DEF overflow, moduleVars, deviceVars, nestedVars, HistoryTypeOK
  <2> QED
    BY <2>1, <2>2, <2>3, <2>4, <2>5
<1>18. CASE dmtimer_irq_handler
  <2>1. ProcessTypeOK'
    BY <1>18 DEF dmtimer_irq_handler, Interrupt, moduleVars, deviceVars,
      nestedVars, ProcessTypeOK
  <2>2. DeviceTypeOK'
    BY <1>18 DEF dmtimer_irq_handler, Interrupt, moduleVars, deviceVars,
      nestedVars, DeviceTypeOK
  <2>3. NestedTypeOK'
    <3>1. tasklet' = 1 \/ UNCHANGED tasklet
      BY <1>18 DEF dmtimer_irq_handler
    <3>2. tasklet' \in 0 .. 1
      BY <3>1 DEF NestedTypeOK
    <3> QED
      BY <1>18, <3>2 DEF dmtimer_irq_handler, nestedVars, NestedTypeOK
  <2>4. TimerTypeOK'
    BY <1>18 DEF dmtimer_irq_handler, Interrupt, moduleVars, deviceVars,
      nestedVars, TimerTypeOK
  <2>5. HistoryTypeOK'
    BY <1>18 DEF dmtimer_irq_handler, Interrupt, moduleVars, deviceVars,
      nestedVars, HistoryTypeOK
  <2> QED
    BY <2>1, <2>2, <2>3, <2>4, <2>5
<1>19. CASE dmtimer_tasklet
  <2>1. ProcessTypeOK'
    BY <1>19 DEF dmtimer_tasklet, moduleVars, deviceVars, nestedVars,
      timerVars, ProcessTypeOK
  <2>2. DeviceTypeOK'
    BY <1>19 DEF dmtimer_tasklet, moduleVars, deviceVars, nestedVars,
      timerVars, DeviceTypeOK
  <2>3. NestedTypeOK'
    BY <1>19 DEF dmtimer_tasklet, moduleVars, deviceVars, nestedVars,
      timerVars, NestedTypeOK
  <2>4. TimerTypeOK'
    BY <1>19 DEF dmtimer_tasklet, moduleVars, deviceVars, nestedVars,
      timerVars, TimerTypeOK
  <2>5. HistoryTypeOK'
    BY <1>19 DEF dmtimer_tasklet, moduleVars, deviceVars, nestedVars,
      timerVars, HistoryTypeOK
  <2> QED
    BY <2>1, <2>2, <2>3, <2>4, <2>5
<1>20. CASE UNCHANGED vars
  <2>1. ProcessTypeOK'
    BY <1>20 DEF vars, moduleVars, deviceVars, nestedVars, timerVars,
      ProcessTypeOK
  <2>2. DeviceTypeOK'
    BY <1>20 DEF vars, moduleVars, deviceVars, nestedVars, timerVars,
      DeviceTypeOK
  <2>3. NestedTypeOK'
    BY <1>20 DEF vars, moduleVars, deviceVars, nestedVars, timerVars,
      NestedTypeOK
  <2>4. TimerTypeOK'
    BY <1>20 DEF vars, moduleVars, deviceVars, nestedVars, timerVars,
      TimerTypeOK
  <2>5. HistoryTypeOK'
    BY <1>20 DEF vars, moduleVars, deviceVars, nestedVars, timerVars,
      HistoryTypeOK
  <2> QED
    BY <2>1, <2>2, <2>3, <2>4, <2>5
<1> QED
  BY <1>1, <1>2, <1>3, <1>4, <1>5, <1>6, <1>7, <1>8, <1>9, <1>10, <1>11,
      <1>12, <1>13, <1>14, <1>15, <1>16, <1>17, <1>18, <1>19, <1>20
  DEF Next, probe, remove, exit, Oopsed, Done

(* Every step keeps the process and the driver core in agreement.          *)
LEMMA ControlStep == Inv /\ [Next]_vars => ControlInv'
<1> SUFFICES ASSUME Inv, [Next]_vars PROVE  ControlInv'
  OBVIOUS
<1> USE DEF Inv
<1>1. CASE dmtimer_init
  BY <1>1 DEF dmtimer_init, timerVars, At, Goto, ControlInv, Probing,
      HoldingRegions, Leaving
<1>2. CASE bind
  BY <1>2 DEF bind, moduleVars, deviceVars, nestedVars, timerVars, At, Goto,
      ControlInv, Probing, HoldingRegions, Leaving
<1>3. CASE unbind
  BY <1>3 DEF unbind, moduleVars, deviceVars, nestedVars, timerVars, At, Goto,
      ControlInv, Probing, HoldingRegions, Leaving
<1>4. CASE dmtimer_exit
  BY <1>4 DEF dmtimer_exit, deviceVars, nestedVars, timerVars, At, Goto,
      ControlInv, Probing, HoldingRegions, Leaving
<1>5. CASE probe_resources
  BY <1>5 DEF probe_resources, Succeeds, Fails, moduleVars, deviceVars,
      nestedVars, timerVars, At, Goto, ControlInv, Probing, HoldingRegions,
      Leaving
<1>6. CASE probe_region_CM
  BY <1>6 DEF probe_region_CM, Regions, moduleVars, nestedVars, timerVars, At,
      Goto, ControlInv, Probing, HoldingRegions, Leaving
<1>7. CASE probe_region_T7
  BY <1>7 DEF probe_region_T7, Regions, moduleVars, nestedVars, timerVars, At,
      Goto, ControlInv, Probing, HoldingRegions, Leaving
<1>8. CASE probe_ioremap
  BY <1>8 DEF probe_ioremap, Succeeds, Fails, moduleVars, nestedVars,
      timerVars, At, Goto, ControlInv, Probing, HoldingRegions, Leaving
<1>9. CASE probe_request_irq
  BY <1>9 DEF probe_request_irq, Succeeds, Fails, moduleVars, nestedVars,
      timerVars, At, Goto, ControlInv, Probing, HoldingRegions, Leaving
<1>10. CASE timer_irq_init
  BY <1>10 DEF timer_irq_init, Succeeds, Fails, moduleVars, deviceVars,
      timerVars, At, Goto, ControlInv, Probing, HoldingRegions, Leaving
<1>11. CASE probe_request_nested
  BY <1>11 DEF probe_request_nested, dmtimer_irqunmask, moduleVars,
      deviceVars, timerVars, At, Goto, ControlInv, Probing, HoldingRegions,
      Leaving
<1>12. CASE probe_program
  BY <1>12 DEF probe_program, deviceVars, nestedVars, At, Goto, ControlInv,
      Probing, HoldingRegions, Leaving
<1>13. CASE dmtimer_remove
  BY <1>13 DEF dmtimer_remove, moduleVars, nestedVars, timerVars, At, Goto,
      ControlInv, Probing, HoldingRegions, Leaving
<1>14. CASE dmtimer_remove_release
  BY <1>14 DEF dmtimer_remove_release, nestedVars, timerVars, At, Goto,
      ControlInv, Probing, HoldingRegions, Leaving
<1>15. CASE dmtimer_exit_tasklet_kill
  BY <1>15 DEF dmtimer_exit_tasklet_kill, moduleVars, deviceVars, nestedVars,
      timerVars, At, Goto, ControlInv, Probing, HoldingRegions, Leaving
<1>16. CASE dmtimer_exit_free_irq
  BY <1>16 DEF dmtimer_exit_free_irq, nestedVars, timerVars, At, Goto,
      ControlInv, Probing, HoldingRegions, Leaving
<1>17. CASE overflow
  BY <1>17 DEF overflow, moduleVars, deviceVars, nestedVars, ControlInv,
      Probing, HoldingRegions, Leaving
<1>18. CASE dmtimer_irq_handler
  BY <1>18 DEF dmtimer_irq_handler, Interrupt, moduleVars, deviceVars,
      nestedVars, ControlInv, Probing, HoldingRegions, Leaving
<1>19. CASE dmtimer_tasklet
  BY <1>19 DEF dmtimer_tasklet, moduleVars, deviceVars, nestedVars, timerVars,
      ControlInv, Probing, HoldingRegions, Leaving
<1>20. CASE UNCHANGED vars
  BY <1>20 DEF vars, moduleVars, deviceVars, nestedVars, timerVars,
      ControlInv, Probing, HoldingRegions, Leaving
<1> QED
  BY <1>1, <1>2, <1>3, <1>4, <1>5, <1>6, <1>7, <1>8, <1>9, <1>10, <1>11,
      <1>12, <1>13, <1>14, <1>15, <1>16, <1>17, <1>18, <1>19, <1>20
  DEF Next, probe, remove, exit, Oopsed, Done

(* Every step keeps account of the two memory regions.                     *)
LEMMA RegionStep == Inv /\ [Next]_vars => RegionInv'
<1> SUFFICES ASSUME Inv, [Next]_vars PROVE  RegionInv'
  OBVIOUS
<1> USE DEF Inv
<1>1. CASE dmtimer_init
  BY <1>1 DEF dmtimer_init, timerVars, At, Goto, RegionInv, ControlInv,
      Regions, Probing, HoldingRegions, Leaving
<1>2. CASE bind
  BY <1>2 DEF bind, moduleVars, deviceVars, nestedVars, timerVars, At, Goto,
      RegionInv, ControlInv, Regions, Probing, HoldingRegions, Leaving
<1>3. CASE unbind
  BY <1>3 DEF unbind, moduleVars, deviceVars, nestedVars, timerVars, At, Goto,
      RegionInv, ControlInv, Regions, Probing, HoldingRegions, Leaving
<1>4. CASE dmtimer_exit
  BY <1>4 DEF dmtimer_exit, deviceVars, nestedVars, timerVars, At, Goto,
      RegionInv, ControlInv, Regions, Probing, HoldingRegions, Leaving
<1>5. CASE probe_resources
  BY <1>5 DEF probe_resources, Succeeds, Fails, moduleVars, deviceVars,
      nestedVars, timerVars, At, Goto, RegionInv, ControlInv, Regions,
      Probing, HoldingRegions, Leaving
<1>6. CASE probe_region_CM
  BY <1>6 DEF probe_region_CM, Regions, moduleVars, nestedVars, timerVars, At,
      Goto, RegionInv, ControlInv, Regions, Probing, HoldingRegions, Leaving
<1>7. CASE probe_region_T7
  BY <1>7 DEF probe_region_T7, Regions, moduleVars, nestedVars, timerVars, At,
      Goto, RegionInv, ControlInv, Regions, Probing, HoldingRegions, Leaving
<1>8. CASE probe_ioremap
  BY <1>8 DEF probe_ioremap, Succeeds, Fails, moduleVars, nestedVars,
      timerVars, At, Goto, RegionInv, ControlInv, Regions, Probing,
      HoldingRegions, Leaving
<1>9. CASE probe_request_irq
  BY <1>9 DEF probe_request_irq, Succeeds, Fails, moduleVars, nestedVars,
      timerVars, At, Goto, RegionInv, ControlInv, Regions, Probing,
      HoldingRegions, Leaving
<1>10. CASE timer_irq_init
  BY <1>10 DEF timer_irq_init, Succeeds, Fails, moduleVars, deviceVars,
      timerVars, At, Goto, RegionInv, ControlInv, Regions, Probing,
      HoldingRegions, Leaving
<1>11. CASE probe_request_nested
  BY <1>11 DEF probe_request_nested, dmtimer_irqunmask, moduleVars,
      deviceVars, timerVars, At, Goto, RegionInv, ControlInv, Regions,
      Probing, HoldingRegions, Leaving
<1>12. CASE probe_program
  BY <1>12 DEF probe_program, deviceVars, nestedVars, At, Goto, RegionInv,
      ControlInv, Regions, Probing, HoldingRegions, Leaving
<1>13. CASE dmtimer_remove
  BY <1>13 DEF dmtimer_remove, moduleVars, nestedVars, timerVars, At, Goto,
      RegionInv, ControlInv, Regions, Probing, HoldingRegions, Leaving
<1>14. CASE dmtimer_remove_release
  BY <1>14 DEF dmtimer_remove_release, nestedVars, timerVars, At, Goto,
      RegionInv, ControlInv, Regions, Probing, HoldingRegions, Leaving
<1>15. CASE dmtimer_exit_tasklet_kill
  BY <1>15 DEF dmtimer_exit_tasklet_kill, moduleVars, deviceVars, nestedVars,
      timerVars, At, Goto, RegionInv, ControlInv, Regions, Probing,
      HoldingRegions, Leaving
<1>16. CASE dmtimer_exit_free_irq
  BY <1>16 DEF dmtimer_exit_free_irq, nestedVars, timerVars, At, Goto,
      RegionInv, ControlInv, Regions, Probing, HoldingRegions, Leaving
<1>17. CASE overflow
  BY <1>17 DEF overflow, moduleVars, deviceVars, nestedVars, RegionInv,
      ControlInv, Regions, Probing, HoldingRegions, Leaving
<1>18. CASE dmtimer_irq_handler
  BY <1>18 DEF dmtimer_irq_handler, Interrupt, moduleVars, deviceVars,
      nestedVars, RegionInv, ControlInv, Regions, Probing, HoldingRegions,
      Leaving
<1>19. CASE dmtimer_tasklet
  BY <1>19 DEF dmtimer_tasklet, moduleVars, deviceVars, nestedVars, timerVars,
      RegionInv, ControlInv, Regions, Probing, HoldingRegions, Leaving
<1>20. CASE UNCHANGED vars
  BY <1>20 DEF vars, moduleVars, deviceVars, nestedVars, timerVars, RegionInv,
      ControlInv, Regions, Probing, HoldingRegions, Leaving
<1> QED
  BY <1>1, <1>2, <1>3, <1>4, <1>5, <1>6, <1>7, <1>8, <1>9, <1>10, <1>11,
      <1>12, <1>13, <1>14, <1>15, <1>16, <1>17, <1>18, <1>19, <1>20
  DEF Next, probe, remove, exit, Oopsed, Done

(* Every step keeps account of mappings, descriptors and handler.          *)
LEMMA SetupStep == Inv /\ [Next]_vars => SetupInv'
<1> SUFFICES ASSUME Inv, [Next]_vars PROVE  SetupInv'
  OBVIOUS
<1> USE DEF Inv
<1>1. CASE dmtimer_init
  BY <1>1 DEF dmtimer_init, timerVars, At, Goto, SetupInv, ControlInv,
      Probing, HoldingRegions, Leaving
<1>2. CASE bind
  BY <1>2 DEF bind, moduleVars, deviceVars, nestedVars, timerVars, At, Goto,
      SetupInv, ControlInv, Probing, HoldingRegions, Leaving
<1>3. CASE unbind
  BY <1>3 DEF unbind, moduleVars, deviceVars, nestedVars, timerVars, At, Goto,
      SetupInv, ControlInv, Probing, HoldingRegions, Leaving
<1>4. CASE dmtimer_exit
  BY <1>4 DEF dmtimer_exit, deviceVars, nestedVars, timerVars, At, Goto,
      SetupInv, ControlInv, Probing, HoldingRegions, Leaving
<1>5. CASE probe_resources
  BY <1>5 DEF probe_resources, Succeeds, Fails, moduleVars, deviceVars,
      nestedVars, timerVars, At, Goto, SetupInv, ControlInv, Probing,
      HoldingRegions, Leaving
<1>6. CASE probe_region_CM
  BY <1>6 DEF probe_region_CM, Regions, moduleVars, nestedVars, timerVars, At,
      Goto, SetupInv, ControlInv, Probing, HoldingRegions, Leaving
<1>7. CASE probe_region_T7
  BY <1>7 DEF probe_region_T7, Regions, moduleVars, nestedVars, timerVars, At,
      Goto, SetupInv, ControlInv, Probing, HoldingRegions, Leaving
<1>8. CASE probe_ioremap
  BY <1>8 DEF probe_ioremap, Succeeds, Fails, moduleVars, nestedVars,
      timerVars, At, Goto, SetupInv, ControlInv, Probing, HoldingRegions,
      Leaving
<1>9. CASE probe_request_irq
  BY <1>9 DEF probe_request_irq, Succeeds, Fails, moduleVars, nestedVars,
      timerVars, At, Goto, SetupInv, ControlInv, Probing, HoldingRegions,
      Leaving
<1>10. CASE timer_irq_init
  BY <1>10 DEF timer_irq_init, Succeeds, Fails, moduleVars, deviceVars,
      timerVars, At, Goto, SetupInv, ControlInv, Probing, HoldingRegions,
      Leaving
<1>11. CASE probe_request_nested
  BY <1>11 DEF probe_request_nested, dmtimer_irqunmask, moduleVars,
      deviceVars, timerVars, At, Goto, SetupInv, ControlInv, Probing,
      HoldingRegions, Leaving
<1>12. CASE probe_program
  BY <1>12 DEF probe_program, deviceVars, nestedVars, At, Goto, SetupInv,
      ControlInv, Probing, HoldingRegions, Leaving
<1>13. CASE dmtimer_remove
  BY <1>13 DEF dmtimer_remove, moduleVars, nestedVars, timerVars, At, Goto,
      SetupInv, ControlInv, Probing, HoldingRegions, Leaving
<1>14. CASE dmtimer_remove_release
  BY <1>14 DEF dmtimer_remove_release, nestedVars, timerVars, At, Goto,
      SetupInv, ControlInv, Probing, HoldingRegions, Leaving
<1>15. CASE dmtimer_exit_tasklet_kill
  BY <1>15 DEF dmtimer_exit_tasklet_kill, moduleVars, deviceVars, nestedVars,
      timerVars, At, Goto, SetupInv, ControlInv, Probing, HoldingRegions,
      Leaving
<1>16. CASE dmtimer_exit_free_irq
  BY <1>16 DEF dmtimer_exit_free_irq, nestedVars, timerVars, At, Goto,
      SetupInv, ControlInv, TypeOK, DeviceTypeOK, Probing, HoldingRegions,
      Leaving
<1>17. CASE overflow
  BY <1>17 DEF overflow, moduleVars, deviceVars, nestedVars, SetupInv,
      ControlInv, Probing, HoldingRegions, Leaving
<1>18. CASE dmtimer_irq_handler
  BY <1>18 DEF dmtimer_irq_handler, Interrupt, moduleVars, deviceVars,
      nestedVars, SetupInv, ControlInv, Probing, HoldingRegions, Leaving
<1>19. CASE dmtimer_tasklet
  BY <1>19 DEF dmtimer_tasklet, moduleVars, deviceVars, nestedVars, timerVars,
      SetupInv, ControlInv, Probing, HoldingRegions, Leaving
<1>20. CASE UNCHANGED vars
  BY <1>20 DEF vars, moduleVars, deviceVars, nestedVars, timerVars, SetupInv,
      ControlInv, Probing, HoldingRegions, Leaving
<1> QED
  BY <1>1, <1>2, <1>3, <1>4, <1>5, <1>6, <1>7, <1>8, <1>9, <1>10, <1>11,
      <1>12, <1>13, <1>14, <1>15, <1>16, <1>17, <1>18, <1>19, <1>20
  DEF Next, probe, remove, exit, Oopsed, Done

(* No step of a bound driver harms the kernel but for an error base or the *)
(* handler of a module that is gone.                                       *)
LEMMA BoundStep == Inv /\ [Next]_vars => BoundInv'
<1> SUFFICES ASSUME Inv, [Next]_vars PROVE  BoundInv'
  OBVIOUS
<1> USE DEF Inv
<1>1. CASE dmtimer_init
  BY <1>1 DEF dmtimer_init, timerVars, At, Goto, BoundInv, SetupInv, ControlInv,
      Probing, HoldingRegions, Leaving
<1>2. CASE bind
  BY <1>2 DEF bind, moduleVars, deviceVars, nestedVars, timerVars, At, Goto,
      BoundInv, SetupInv, ControlInv, Probing, HoldingRegions, Leaving
<1>3. CASE unbind
  BY <1>3 DEF unbind, moduleVars, deviceVars, nestedVars, timerVars, At, Goto,
      BoundInv, SetupInv, ControlInv, Probing, HoldingRegions, Leaving
<1>4. CASE dmtimer_exit
  BY <1>4 DEF dmtimer_exit, deviceVars, nestedVars, timerVars, At, Goto,
      BoundInv, SetupInv, ControlInv, Probing, HoldingRegions, Leaving
<1>5. CASE probe_resources
  BY <1>5 DEF probe_resources, Succeeds, Fails, moduleVars, deviceVars,
      nestedVars, timerVars, At, Goto, BoundInv, SetupInv, ControlInv, Probing,
      HoldingRegions, Leaving
<1>6. CASE probe_region_CM
  BY <1>6 DEF probe_region_CM, Regions, moduleVars, nestedVars, timerVars, At,
      Goto, BoundInv, SetupInv, ControlInv, Probing, HoldingRegions, Leaving
<1>7. CASE probe_region_T7
  BY <1>7 DEF probe_region_T7, Regions, moduleVars, nestedVars, timerVars, At,
      Goto, BoundInv, SetupInv, ControlInv, Probing, HoldingRegions, Leaving
<1>8. CASE probe_ioremap
  BY <1>8 DEF probe_ioremap, Succeeds, Fails, moduleVars, nestedVars,
      timerVars, At, Goto, BoundInv, SetupInv, ControlInv, Probing, HoldingRegions,
      Leaving
<1>9. CASE probe_request_irq
  BY <1>9 DEF probe_request_irq, Succeeds, Fails, moduleVars, nestedVars,
      timerVars, At, Goto, BoundInv, SetupInv, ControlInv, Probing, HoldingRegions,
      Leaving
<1>10. CASE timer_irq_init
  BY <1>10 DEF timer_irq_init, Succeeds, Fails, moduleVars, deviceVars,
      timerVars, At, Goto, BoundInv, SetupInv, ControlInv, Probing, HoldingRegions,
      Leaving
<1>11. CASE probe_request_nested
  BY <1>11 DEF probe_request_nested, dmtimer_irqunmask, moduleVars,
      deviceVars, timerVars, At, Goto, BoundInv, SetupInv, ControlInv, Probing,
      HoldingRegions, Leaving
<1>12. CASE probe_program
  BY <1>12 DEF probe_program, deviceVars, nestedVars, At, Goto, BoundInv, SetupInv,
      ControlInv, Probing, HoldingRegions, Leaving
<1>13. CASE dmtimer_remove
  BY <1>13 DEF dmtimer_remove, moduleVars, nestedVars, timerVars, At, Goto,
      BoundInv, SetupInv, ControlInv, Probing, HoldingRegions, Leaving
<1>14. CASE dmtimer_remove_release
  BY <1>14 DEF dmtimer_remove_release, nestedVars, timerVars, At, Goto,
      BoundInv, SetupInv, ControlInv, Probing, HoldingRegions, Leaving
<1>15. CASE dmtimer_exit_tasklet_kill
  BY <1>15 DEF dmtimer_exit_tasklet_kill, moduleVars, deviceVars, nestedVars,
      timerVars, At, Goto, BoundInv, SetupInv, ControlInv, Probing, HoldingRegions,
      Leaving
<1>16. CASE dmtimer_exit_free_irq
  BY <1>16 DEF dmtimer_exit_free_irq, nestedVars, timerVars, At, Goto,
      BoundInv, SetupInv, ControlInv, Probing, HoldingRegions, Leaving
<1>17. CASE overflow
  BY <1>17 DEF overflow, moduleVars, deviceVars, nestedVars, BoundInv, SetupInv,
      ControlInv, Probing, HoldingRegions, Leaving
<1>18. CASE dmtimer_irq_handler
  BY <1>18 DEF dmtimer_irq_handler, Interrupt, moduleVars, deviceVars,
      nestedVars, BoundInv, SetupInv, ControlInv, TypeOK, NestedTypeOK, Probing,
      HoldingRegions, Leaving
<1>19. CASE dmtimer_tasklet
  BY <1>19 DEF dmtimer_tasklet, moduleVars, deviceVars, nestedVars, timerVars,
      BoundInv, SetupInv, ControlInv, Probing, HoldingRegions, Leaving
<1>20. CASE UNCHANGED vars
  BY <1>20 DEF vars, moduleVars, deviceVars, nestedVars, timerVars, BoundInv, SetupInv,
      ControlInv, Probing, HoldingRegions, Leaving
<1> QED
  BY <1>1, <1>2, <1>3, <1>4, <1>5, <1>6, <1>7, <1>8, <1>9, <1>10, <1>11,
      <1>12, <1>13, <1>14, <1>15, <1>16, <1>17, <1>18, <1>19, <1>20
  DEF Next, probe, remove, exit, Oopsed, Done

(* Until the driver is removed, no step starts the timer early or leaves   *)
(* it running behind.                                                      *)
LEMMA FirstLoadStep == Inv /\ [Next]_vars => FirstLoadInv'
<1> SUFFICES ASSUME Inv, [Next]_vars PROVE  FirstLoadInv'
  OBVIOUS
<1> USE DEF Inv
<1>1. CASE dmtimer_init
  BY <1>1 DEF dmtimer_init, timerVars, At, Goto, FirstLoadInv, ControlInv,
      TypeOK, TimerTypeOK, NestedTypeOK, Probing, HoldingRegions, Leaving
<1>2. CASE bind
  BY <1>2 DEF bind, moduleVars, deviceVars, nestedVars, timerVars, At, Goto,
      FirstLoadInv, ControlInv, TypeOK, TimerTypeOK, NestedTypeOK, Probing,
      HoldingRegions, Leaving
<1>3. CASE unbind
  BY <1>3 DEF unbind, moduleVars, deviceVars, nestedVars, timerVars, At, Goto,
      FirstLoadInv, ControlInv, TypeOK, TimerTypeOK, NestedTypeOK, Probing,
      HoldingRegions, Leaving
<1>4. CASE dmtimer_exit
  BY <1>4 DEF dmtimer_exit, deviceVars, nestedVars, timerVars, At, Goto,
      FirstLoadInv, ControlInv, TypeOK, TimerTypeOK, NestedTypeOK, Probing,
      HoldingRegions, Leaving
<1>5. CASE probe_resources
  BY <1>5 DEF probe_resources, Succeeds, Fails, moduleVars, deviceVars,
      nestedVars, timerVars, At, Goto, FirstLoadInv, ControlInv, TypeOK,
      TimerTypeOK, NestedTypeOK, Probing, HoldingRegions, Leaving
<1>6. CASE probe_region_CM
  BY <1>6 DEF probe_region_CM, Regions, moduleVars, nestedVars, timerVars, At,
      Goto, FirstLoadInv, ControlInv, TypeOK, TimerTypeOK, NestedTypeOK,
      Probing, HoldingRegions, Leaving
<1>7. CASE probe_region_T7
  BY <1>7 DEF probe_region_T7, Regions, moduleVars, nestedVars, timerVars, At,
      Goto, FirstLoadInv, ControlInv, TypeOK, TimerTypeOK, NestedTypeOK,
      Probing, HoldingRegions, Leaving
<1>8. CASE probe_ioremap
  BY <1>8 DEF probe_ioremap, Succeeds, Fails, moduleVars, nestedVars,
      timerVars, At, Goto, FirstLoadInv, ControlInv, TypeOK, TimerTypeOK,
      NestedTypeOK, Probing, HoldingRegions, Leaving
<1>9. CASE probe_request_irq
  BY <1>9 DEF probe_request_irq, Succeeds, Fails, moduleVars, nestedVars,
      timerVars, At, Goto, FirstLoadInv, ControlInv, TypeOK, TimerTypeOK,
      NestedTypeOK, Probing, HoldingRegions, Leaving
<1>10. CASE timer_irq_init
  BY <1>10 DEF timer_irq_init, Succeeds, Fails, moduleVars, deviceVars,
      timerVars, At, Goto, FirstLoadInv, ControlInv, TypeOK, TimerTypeOK,
      NestedTypeOK, Probing, HoldingRegions, Leaving
<1>11. CASE probe_request_nested
  BY <1>11 DEF probe_request_nested, dmtimer_irqunmask, moduleVars,
      deviceVars, timerVars, At, Goto, FirstLoadInv, ControlInv, TypeOK,
      TimerTypeOK, NestedTypeOK, Probing, HoldingRegions, Leaving
<1>12. CASE probe_program
  BY <1>12 DEF probe_program, deviceVars, nestedVars, At, Goto, FirstLoadInv,
      ControlInv, TypeOK, TimerTypeOK, NestedTypeOK, Probing, HoldingRegions,
      Leaving
<1>13. CASE dmtimer_remove
  BY <1>13 DEF dmtimer_remove, moduleVars, nestedVars, timerVars, At, Goto,
      FirstLoadInv, ControlInv, TypeOK, TimerTypeOK, NestedTypeOK, Probing,
      HoldingRegions, Leaving
<1>14. CASE dmtimer_remove_release
  BY <1>14 DEF dmtimer_remove_release, nestedVars, timerVars, At, Goto,
      FirstLoadInv, ControlInv, TypeOK, TimerTypeOK, NestedTypeOK, Probing,
      HoldingRegions, Leaving
<1>15. CASE dmtimer_exit_tasklet_kill
  BY <1>15 DEF dmtimer_exit_tasklet_kill, moduleVars, deviceVars, nestedVars,
      timerVars, At, Goto, FirstLoadInv, ControlInv, TypeOK, TimerTypeOK,
      NestedTypeOK, Probing, HoldingRegions, Leaving
<1>16. CASE dmtimer_exit_free_irq
  BY <1>16 DEF dmtimer_exit_free_irq, nestedVars, timerVars, At, Goto,
      FirstLoadInv, ControlInv, TypeOK, TimerTypeOK, NestedTypeOK, Probing,
      HoldingRegions, Leaving
<1>17. CASE overflow
  BY <1>17 DEF overflow, moduleVars, deviceVars, nestedVars, FirstLoadInv,
      ControlInv, TypeOK, TimerTypeOK, NestedTypeOK, Probing, HoldingRegions,
      Leaving
<1>18. CASE dmtimer_irq_handler
  BY <1>18 DEF dmtimer_irq_handler, Interrupt, moduleVars, deviceVars,
      nestedVars, FirstLoadInv, ControlInv, TypeOK, TimerTypeOK, NestedTypeOK,
      Probing, HoldingRegions, Leaving
<1>19. CASE dmtimer_tasklet
  BY <1>19 DEF dmtimer_tasklet, moduleVars, deviceVars, nestedVars, timerVars,
      FirstLoadInv, ControlInv, TypeOK, TimerTypeOK, NestedTypeOK, Probing,
      HoldingRegions, Leaving
<1>20. CASE UNCHANGED vars
  BY <1>20 DEF vars, moduleVars, deviceVars, nestedVars, timerVars,
      FirstLoadInv, ControlInv, TypeOK, TimerTypeOK, NestedTypeOK, Probing,
      HoldingRegions, Leaving
<1> QED
  BY <1>1, <1>2, <1>3, <1>4, <1>5, <1>6, <1>7, <1>8, <1>9, <1>10, <1>11,
      <1>12, <1>13, <1>14, <1>15, <1>16, <1>17, <1>18, <1>19, <1>20
  DEF Next, probe, remove, exit, Oopsed, Done

(* Until the driver is removed, no interrupt or exit harms the kernel      *)
(* unless a failure went unnoticed.                                        *)
LEMMA SafeStep == Inv /\ [Next]_vars => FirstLoadSafe'
<1> SUFFICES ASSUME Inv, [Next]_vars PROVE  FirstLoadSafe'
  OBVIOUS
<1> USE DEF Inv
<1>1. CASE dmtimer_init
  BY <1>1 DEF dmtimer_init, timerVars, At, Goto, FirstLoadSafe, FirstLoadInv,
      SetupInv, ControlInv, TypeOK, NestedTypeOK, HistoryTypeOK, Probing,
      HoldingRegions, Leaving
<1>2. CASE bind
  BY <1>2 DEF bind, moduleVars, deviceVars, nestedVars, timerVars, At, Goto,
      FirstLoadSafe, FirstLoadInv, SetupInv, ControlInv, TypeOK, NestedTypeOK,
      HistoryTypeOK, Probing, HoldingRegions, Leaving
<1>3. CASE unbind
  BY <1>3 DEF unbind, moduleVars, deviceVars, nestedVars, timerVars, At, Goto,
      FirstLoadSafe, FirstLoadInv, SetupInv, ControlInv, TypeOK, NestedTypeOK,
      HistoryTypeOK, Probing, HoldingRegions, Leaving
<1>4. CASE dmtimer_exit
  BY <1>4 DEF dmtimer_exit, deviceVars, nestedVars, timerVars, At, Goto,
      FirstLoadSafe, FirstLoadInv, SetupInv, ControlInv, TypeOK, NestedTypeOK,
      HistoryTypeOK, Probing, HoldingRegions, Leaving
<1>5. CASE probe_resources
  BY <1>5 DEF probe_resources, Succeeds, Fails, moduleVars, deviceVars,
      nestedVars, timerVars, At, Goto, FirstLoadSafe, FirstLoadInv, SetupInv,
      ControlInv, TypeOK, NestedTypeOK, HistoryTypeOK, Probing,
      HoldingRegions, Leaving
<1>6. CASE probe_region_CM
  BY <1>6 DEF probe_region_CM, Regions, moduleVars, nestedVars, timerVars, At,
      Goto, FirstLoadSafe, FirstLoadInv, SetupInv, ControlInv, TypeOK,
      NestedTypeOK, HistoryTypeOK, Probing, HoldingRegions, Leaving
<1>7. CASE probe_region_T7
  BY <1>7 DEF probe_region_T7, Regions, moduleVars, nestedVars, timerVars, At,
      Goto, FirstLoadSafe, FirstLoadInv, SetupInv, ControlInv, TypeOK,
      NestedTypeOK, HistoryTypeOK, Probing, HoldingRegions, Leaving
<1>8. CASE probe_ioremap
  BY <1>8 DEF probe_ioremap, Succeeds, Fails, moduleVars, nestedVars,
      timerVars, At, Goto, FirstLoadSafe, FirstLoadInv, SetupInv, ControlInv,
      TypeOK, NestedTypeOK, HistoryTypeOK, Probing, HoldingRegions, Leaving
<1>9. CASE probe_request_irq
  BY <1>9 DEF probe_request_irq, Succeeds, Fails, moduleVars, nestedVars,
      timerVars, At, Goto, FirstLoadSafe, FirstLoadInv, SetupInv, ControlInv,
      TypeOK, NestedTypeOK, HistoryTypeOK, Probing, HoldingRegions, Leaving
<1>10. CASE timer_irq_init
  BY <1>10 DEF timer_irq_init, Succeeds, Fails, moduleVars, deviceVars,
      timerVars, At, Goto, FirstLoadSafe, FirstLoadInv, SetupInv, ControlInv,
      TypeOK, NestedTypeOK, HistoryTypeOK, Probing, HoldingRegions, Leaving
<1>11. CASE probe_request_nested
  BY <1>11 DEF probe_request_nested, dmtimer_irqunmask, moduleVars,
      deviceVars, timerVars, At, Goto, FirstLoadSafe, FirstLoadInv, SetupInv,
      ControlInv, TypeOK, NestedTypeOK, HistoryTypeOK, Probing,
      HoldingRegions, Leaving
<1>12. CASE probe_program
  BY <1>12 DEF probe_program, deviceVars, nestedVars, At, Goto, FirstLoadSafe,
      FirstLoadInv, SetupInv, ControlInv, TypeOK, NestedTypeOK, HistoryTypeOK,
      Probing, HoldingRegions, Leaving
<1>13. CASE dmtimer_remove
  BY <1>13 DEF dmtimer_remove, moduleVars, nestedVars, timerVars, At, Goto,
      FirstLoadSafe, FirstLoadInv, SetupInv, ControlInv, TypeOK, NestedTypeOK,
      HistoryTypeOK, Probing, HoldingRegions, Leaving
<1>14. CASE dmtimer_remove_release
  BY <1>14 DEF dmtimer_remove_release, nestedVars, timerVars, At, Goto,
      FirstLoadSafe, FirstLoadInv, SetupInv, ControlInv, TypeOK, NestedTypeOK,
      HistoryTypeOK, Probing, HoldingRegions, Leaving
<1>15. CASE dmtimer_exit_tasklet_kill
  BY <1>15 DEF dmtimer_exit_tasklet_kill, moduleVars, deviceVars, nestedVars,
      timerVars, At, Goto, FirstLoadSafe, FirstLoadInv, SetupInv, ControlInv,
      TypeOK, NestedTypeOK, HistoryTypeOK, Probing, HoldingRegions, Leaving
<1>16. CASE dmtimer_exit_free_irq
  BY <1>16 DEF dmtimer_exit_free_irq, nestedVars, timerVars, At, Goto,
      FirstLoadSafe, FirstLoadInv, SetupInv, ControlInv, TypeOK, NestedTypeOK,
      HistoryTypeOK, Probing, HoldingRegions, Leaving
<1>17. CASE overflow
  BY <1>17 DEF overflow, moduleVars, deviceVars, nestedVars, FirstLoadSafe,
      FirstLoadInv, SetupInv, ControlInv, TypeOK, NestedTypeOK, HistoryTypeOK,
      Probing, HoldingRegions, Leaving
<1>18. CASE dmtimer_irq_handler
  BY <1>18 DEF dmtimer_irq_handler, Interrupt, moduleVars, deviceVars,
      nestedVars, FirstLoadSafe, FirstLoadInv, SetupInv, ControlInv, TypeOK,
      NestedTypeOK, HistoryTypeOK, Probing, HoldingRegions, Leaving
<1>19. CASE dmtimer_tasklet
  BY <1>19 DEF dmtimer_tasklet, moduleVars, deviceVars, nestedVars, timerVars,
      FirstLoadSafe, FirstLoadInv, SetupInv, ControlInv, TypeOK, NestedTypeOK,
      HistoryTypeOK, Probing, HoldingRegions, Leaving
<1>20. CASE UNCHANGED vars
  BY <1>20 DEF vars, moduleVars, deviceVars, nestedVars, timerVars,
      FirstLoadSafe, FirstLoadInv, SetupInv, ControlInv, TypeOK, NestedTypeOK,
      HistoryTypeOK, Probing, HoldingRegions, Leaving
<1> QED
  BY <1>1, <1>2, <1>3, <1>4, <1>5, <1>6, <1>7, <1>8, <1>9, <1>10, <1>11,
      <1>12, <1>13, <1>14, <1>15, <1>16, <1>17, <1>18, <1>19, <1>20
  DEF Next, probe, remove, exit, Oopsed, Done

-----------------------------------------------------------------------------
(* The inductive invariant of the driver's life: what probe, remove and    *)
(* exit have requested, mapped, registered and started at every step.      *)
THEOREM Invariant == Spec => []Inv
<1>1. Init => Inv
  <2> SUFFICES ASSUME Init PROVE  Inv
    OBVIOUS
  <2>1. ProcessTypeOK /\ DeviceTypeOK
    BY DEF Init, ProcessTypeOK, DeviceTypeOK, Regions
  <2>2. NestedTypeOK
    BY DescsAssumption DEF Init, NestedTypeOK
  <2>3. TimerTypeOK /\ HistoryTypeOK
    BY DEF Init, TimerTypeOK, HistoryTypeOK
  <2>4. ControlInv
    BY DEF Init, ControlInv, Probing, HoldingRegions, Leaving
  <2>5. RegionInv
    BY DEF Init, RegionInv, HoldingRegions
  <2>6. SetupInv /\ BoundInv
    BY DEF Init, SetupInv, BoundInv, HoldingRegions
  <2>7. FirstLoadInv /\ FirstLoadSafe
    BY DEF Init, FirstLoadInv, FirstLoadSafe
  <2> QED
    BY <2>1, <2>2, <2>3, <2>4, <2>5, <2>6, <2>7 DEF Inv, TypeOK
<1>2. Inv /\ [Next]_vars => Inv'
  BY TypeStep, ControlStep, RegionStep, SetupStep, BoundStep, FirstLoadStep,
    SafeStep DEF Inv
<1> QED
  BY <1>1, <1>2, PTL DEF Spec

(* Every variable keeps its type through any sequence of loads, binds and  *)
(* interrupts.                                                             *)
THEOREM TypeCorrect == Spec => []TypeOK
<1>1. Inv => TypeOK
  BY DEF Inv
<1> QED
  BY <1>1, Invariant, PTL

(* Until the driver is first removed, an interrupt, the tasklet and        *)
(* dmtimer_exit find everything they use in place, unless ioremap failed   *)
(* unnoticed, or irq_alloc_descs did and the driver is bound.              *)
THEOREM FirstLoadIsSafe == Spec => []FirstLoadSafe
<1>1. Inv => FirstLoadSafe
  BY DEF Inv
<1> QED
  BY <1>1, Invariant, PTL

(* A bound driver has its regions, its mappings and, unless request_irq    *)
(* failed or the line has the handler of a module that is gone, its        *)
(* handler, however often it was unbound or reloaded before; its           *)
(* interrupts harm the kernel only through that handler or an error base.  *)
THEOREM BoundIsReady == Spec => []BoundReady
<1>1. Inv => BoundReady
  BY DEF Inv, BoundReady, RegionInv, SetupInv, BoundInv, TypeOK, DeviceTypeOK
<1> QED
  BY <1>1, Invariant, PTL

(* An unloaded module has given back its regions, but for the first when   *)
(* another driver held the timer's.                                        *)
THEOREM RegionsAreReturned == Spec => []RegionsReturned
<1>1. Inv => RegionsReturned
  BY DEF Inv, RegionsReturned, ControlInv, RegionInv
<1> QED
  BY <1>1, Invariant, PTL
=============================================================================
