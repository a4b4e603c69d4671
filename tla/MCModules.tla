----------------------------- MODULE MCModules -----------------------------
(***************************************************************************)
(* The five driver modules that share nothing, side by side for model      *)
(* checking: the EHRPWM driver, the epm driver, the fake V4L2 driver's     *)
(* module, the frame buffer driver and the custom bus.  One of them runs   *)
(* in a behaviour, so that the union of their state graphs is explored and *)
(* not their product.                                                      *)
(***************************************************************************)
EXTENDS Ehrpwm, FiniteSets, Sequences

CONSTANTS Users, MaxLoads, Names, EpmFaults, VideoFaults, FbFaults, BusFaults

ASSUME UsersAssumption == IsFiniteSet(Users)
ASSUME LoadsAssumption == MaxLoads \in Nat
ASSUME NamesAssumption == Names \subseteq Seq(STRING)
ASSUME BusAssumption ==
  BusFaults \subseteq {"bus_register", "custom_bus_parent", "cus_dev", "driver_register"}

(* The device of the bus, one whose name begins with the driver's, one     *)
(* whose name the driver's begins with, and another.                       *)
MCNames == {<<"Custom-Device", "1">>, <<"Custom-Device", "1", "0">>, <<"Custom-Device">>,
            <<"Sensor">>}

VARIABLES
  part,                                                             \* the part that runs
  phase, ret, objs, stale, user, epm_oops, trouble,                 \* Epm
  load, loaded, fake_vid_list, dev, vdev, node, file, failed, video_oops,    \* VidModule
  fb_module, pdev, pdrv, fb_bound, minor, refs, fb_file, fb_released, fb_oops, cause, \* FbPl111
  bus, bus_objs, bus_dev, drv, todo, bus_bound, bus_unbound         \* CustomBus

epm   == INSTANCE Epm WITH oops <- epm_oops, Faults <- EpmFaults
video == INSTANCE VidModule WITH oops <- video_oops, Faults <- VideoFaults
fb    == INSTANCE FbPl111 WITH module <- fb_module, bound <- fb_bound, file <- fb_file,
                               released <- fb_released, oops <- fb_oops, Faults <- FbFaults
ldm   == INSTANCE CustomBus WITH objs <- bus_objs, dev <- bus_dev, bound <- bus_bound,
                                 unbound <- bus_unbound, Faults <- BusFaults

epmVars   == <<phase, ret, objs, stale, user, epm_oops, trouble>>
videoVars == <<load, loaded, fake_vid_list, dev, vdev, node, file, failed, video_oops>>
fbVars    == <<fb_module, pdev, pdrv, fb_bound, minor, refs, fb_file, fb_released, fb_oops,
               cause>>
busVars   == <<bus, bus_objs, bus_dev, drv, todo, bus_bound, bus_unbound>>
modVars   == <<part, vars, epmVars, videoVars, fbVars, busVars>>

ModInit ==
  /\ part \in {"pwm", "epm", "video", "fb", "ldm"}
  /\ Init /\ (part # "pwm" => other = {})
  /\ epm!Init /\ video!Init /\ fb!Init /\ ldm!Init

ModNext ==
  /\ \/ part = "pwm" /\ Next /\ UNCHANGED <<epmVars, videoVars, fbVars, busVars>>
     \/ part = "epm" /\ epm!Next /\ UNCHANGED <<vars, videoVars, fbVars, busVars>>
     \/ part = "video" /\ video!Next /\ UNCHANGED <<vars, epmVars, fbVars, busVars>>
     \/ part = "fb" /\ fb!Next /\ UNCHANGED <<vars, epmVars, videoVars, busVars>>
     \/ part = "ldm" /\ ldm!Next /\ UNCHANGED <<vars, epmVars, videoVars, fbVars>>
  /\ UNCHANGED part

(* The fairness of Ehrpwm: outside of "pwm" none of its actions under      *)
(* fairness is enabled.                                                    *)
ModSpec == ModInit /\ [][ModNext]_modVars /\ Fairness

-----------------------------------------------------------------------------
(* Properties.  The parts of a conjunction are stated in the part's own    *)
(* module; ReaderConfined and ExitCompletes are Ehrpwm's.                  *)

(* Only a sysfs unbind leaves a read_pwm thread that pwm_exit cannot stop, *)
(* and between bindings the driver holds no memory region, whatever        *)
(* pwm_probe was refused (ehrpwm.c:90-102, 150, 162-164, 198-199).         *)
PwmReturned == TypeOK /\ ReaderKnown /\ NoRegionHeld

(* Unless a load of epm has failed, nobody runs code that is gone, even    *)
(* one that sleeps in open during an unload, and unloads leave only the    *)
(* SPI driver and the memory of epm_drv behind (epm.c:38, 76, 79-85, 116,  *)
(* 130-133).                                                               *)
EpmSafe == epm!TypeOK /\ epm!CodeStays /\ epm!CharDevReturned

(* An open video file has its module and its fake_vid_device, an unload    *)
(* frees the device of every load that succeeded, and of the nodes that    *)
(* stay behind only that of the present load can be opened without harm    *)
(* (vid4linux.c:261, 434-438, 448-458).                                    *)
VideoSafe ==
  video!TypeOK /\ video!FilePinsDevice /\ video!DevsReturned /\ video!LiveNode

(* A bound frame buffer device has its node; a file of the card keeps its  *)
(* module; fb_release runs under a user only after an unbind, and only an  *)
(* unload, a failed initialisation that pdrv_probe goes on after, or a     *)
(* probe under open files does harm (fb_pl111.c:113, 126, 148-190, 223).   *)
FbSafe ==
  /\ fb!TypeOK /\ fb!BoundHasNode /\ fb!ReleasedLast
  /\ fb!FilePinsModule /\ fb!HarmExplained

(* A load of the bus that fails half way takes back what it did, and       *)
(* whoever is on the bus still has one (custom_device.c:141-175, custom_   *)
(* driver.c:11).                                                           *)
BusSafe == ldm!TypeOK /\ ldm!Unwound /\ ldm!UsersHaveBus

(* Once device and driver are registered, however the two registrations    *)
(* interleaved, they are bound if and only if the device's name begins     *)
(* with the driver's and root has not unbound it since the last probe      *)
(* (custom_device.c:34-57).                                                *)
BoundExactly == ldm!BoundExactly
=============================================================================
