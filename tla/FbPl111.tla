------------------------------ MODULE FbPl111 ------------------------------
(***************************************************************************)
(* The frame buffer driver src/lkml/drm/fb_pl111.c: its static platform    *)
(* device and DRM device while the module comes and goes, root unbinds and *)
(* binds, and users open the card.  The DRM core and the platform bus are  *)
(* external: the DRM device lives on references, one dropped when the      *)
(* driver is unbound (devm_drm_dev_init) and one for every open file; an   *)
(* open file also keeps the module of its fops.  The display pipe's        *)
(* callbacks only log.                                                     *)
(***************************************************************************)
EXTENDS Naturals, FiniteSets

CONSTANTS
  Users,
  Faults       \* which calls may fail

VARIABLES
  module,      \* the module is loaded
  pdev, pdrv,  \* the platform device ("out", "in" or "stale") and driver (BOOLEAN)
  bound,       \* the driver is bound to the device
  minor,       \* the DRM device's node: "out", "in" or "stale"
  refs,        \* references to the DRM device
  file,        \* users that have it open
  released,    \* fb_release has run since the last probe
  oops, cause  \* the kernel is in an undefined state; history of what explains it

vars == <<module, pdev, pdrv, bound, minor, refs, file, released, oops, cause>>
drmVars == <<minor, refs, file, released>>

Init ==
  /\ module = FALSE /\ pdev = "out" /\ pdrv = FALSE /\ bound = FALSE
  /\ minor = "out" /\ refs = 0 /\ file = {} /\ released = FALSE
  /\ oops = FALSE /\ cause = {}

-----------------------------------------------------------------------------
(* What pdrv_probe returns: the result of its last call.                   *)
Result_mutant_zero(failed) == TRUE
Result(failed) == "drm_dev_register" \notin failed

(* The references a probe leaves to the DRM device.                        *)
Probed_mutant_extra_put == 0
Probed == 1

(* What a probe may do to the kernel.  After a failed devm_drm_dev_init it *)
(* registers a device that was never set up.  A failed drm_simple_display_ *)
(* pipe_init may have stopped before the plane had the device that drm_    *)
(* plane_enable_fb_damage_clips goes through, or later.  And a probe after *)
(* an unbind initialises the lists, the locks and the references of a      *)
(* device that may still be open.  Without a connector the card only has   *)
(* nothing to show.                                                        *)
Causes(failed) ==
  (IF "devm_drm_dev_init" \in failed THEN {"init"} ELSE {})
    \cup (IF "drm_simple_display_pipe_init" \in failed THEN {"pipe"} ELSE {})
    \cup (IF file # {} THEN {"reprobe"} ELSE {})

Harms(failed) ==
  IF "init" \in Causes(failed) THEN {TRUE}
  ELSE IF Causes(failed) # {} THEN BOOLEAN ELSE {FALSE}

(* pdrv_probe, with the calls that fail.  Nodes of an earlier probe stay.  *)
pdrv_probe ==
  \E failed \in SUBSET (Faults \ {"device", "driver"}) :
    \/ "dma_mask" \in failed /\ UNCHANGED <<bound, drmVars, oops, cause>>
    \/ /\ "dma_mask" \notin failed
       /\ cause' = cause \cup Causes(failed)
       /\ oops' \in Harms(failed)
       /\ bound' = Result(failed) /\ released' = ~Result(failed)
       /\ minor' = IF "drm_dev_register" \in failed THEN minor ELSE "in"
       /\ refs' = IF Result(failed) THEN Probed ELSE 0
       /\ UNCHANGED file

(* fb_init, which looks at no result; the registration of the driver       *)
(* probes.  A stale device is met by the next registration on the bus.     *)
fb_init ==
  /\ ~oops /\ ~module
  /\ module' = TRUE
  /\ IF pdev = "stale"
     THEN oops' = TRUE /\ UNCHANGED <<pdev, pdrv, bound, drmVars, cause>>
     ELSE /\ pdev' \in {"in"} \cup {s \in {"out"} : "device" \in Faults}
          /\ pdrv' \in {TRUE} \cup {s \in {FALSE} : "driver" \in Faults}
          /\ IF pdev' = "in" /\ pdrv' THEN pdrv_probe
             ELSE UNCHANGED <<bound, drmVars, oops, cause>>

(* Root binds the driver.                                                  *)
bind ==
  /\ ~oops /\ pdrv /\ pdev = "in" /\ ~bound
  /\ pdrv_probe
  /\ UNCHANGED <<module, pdev, pdrv>>

(* Dropping a reference; the last one runs fb_release, which only logs.    *)
Put ==
  /\ refs' = IF refs = 0 THEN 0 ELSE refs - 1
  /\ released' = (released \/ refs = 1)

(* A registration that points into memory that is gone.                    *)
Stale(s) == IF s = "in" THEN "stale" ELSE s

(* What pdrv_remove leaves of the node: it does not unregister it, and the *)
(* DRM device is static.                                                   *)
pdrv_remove_mutant_devm_memory == Stale(minor)
pdrv_remove == minor

(* Root unbinds the driver.                                                *)
unbind ==
  /\ ~oops /\ bound
  /\ bound' = FALSE /\ minor' = pdrv_remove /\ Put
  /\ cause' = cause \cup {"unbind"}
  /\ UNCHANGED <<module, pdev, pdrv, file, oops>>

(* fb_fops.owner keeps the module while the card is open.                  *)
Pins_mutant_no_owner == FALSE
Pins == TRUE

(* fb_exit unregisters the driver alone.                                   *)
fb_exit ==
  /\ ~oops /\ module /\ (Pins => file = {})
  /\ module' = FALSE /\ pdrv' = FALSE /\ bound' = FALSE
  /\ pdev' = Stale(pdev) /\ minor' = Stale(minor)
  /\ IF bound THEN Put ELSE UNCHANGED <<refs, released>>
  /\ cause' = cause \cup {"unload"}
  /\ UNCHANGED <<file, oops>>

-----------------------------------------------------------------------------
open(u) ==
  /\ ~oops /\ u \notin file /\ minor # "out"
  /\ IF minor = "stale" THEN oops' = TRUE /\ UNCHANGED <<refs, file>>
     ELSE file' = file \cup {u} /\ refs' = refs + 1 /\ UNCHANGED oops
  /\ UNCHANGED <<module, pdev, pdrv, bound, minor, released, cause>>

(* A probe under open files has cut them off the list this takes one from. *)
close(u) ==
  /\ ~oops /\ u \in file
  /\ file' = file \ {u} /\ Put
  /\ oops' \in IF "reprobe" \in cause THEN BOOLEAN ELSE {FALSE}
  /\ UNCHANGED <<module, pdev, pdrv, bound, minor, cause>>

Oopsed == oops /\ UNCHANGED vars

Next ==
  \/ fb_init \/ bind \/ unbind \/ fb_exit \/ Oopsed
  \/ \E u \in Users : open(u) \/ close(u)

Spec == Init /\ [][Next]_vars

-----------------------------------------------------------------------------
(* Properties.                                                             *)

(* Every variable has its type.                                            *)
TypeOK ==
  /\ {module, pdrv, bound, released, oops} \subseteq BOOLEAN
  /\ pdev \in {"out", "in", "stale"} /\ minor \in {"out", "in", "stale"}
  /\ refs \in 0 .. Cardinality(Users) + 1
  /\ file \subseteq Users /\ cause \subseteq {"init", "pipe", "reprobe", "unbind", "unload"}

(* A bound device has its node, however many of the earlier calls of       *)
(* pdrv_probe have failed (fb_pl111.c:148-183).                            *)
BoundHasNode == bound => minor = "in"

(* fb_release never runs under a user or a bound driver, unless the driver *)
(* was unbound: pdrv_remove leaves the node, so the card may be opened     *)
(* after its last reference is gone (fb_pl111.c:113, 187-190).             *)
ReleasedLast == released /\ "unbind" \notin cause => file = {} /\ ~bound

(* A file keeps the code it calls (fb_pl111.c:26, 126).                    *)
FilePinsModule == file # {} => module

(* The kernel is harmed only after an unload, which leaves the device and  *)
(* the node, a failed devm_drm_dev_init or drm_simple_display_pipe_init,   *)
(* which pdrv_probe only prints, or a probe of a card that was unbound     *)
(* while it was open (fb_pl111.c:148-173, 187-190, 202, 223).              *)
HarmExplained ==
  /\ oops => cause \cap {"unload", "init", "pipe", "reprobe"} # {}
  /\ "reprobe" \in cause => "unbind" \in cause
=============================================================================
