----------------------------- MODULE MCPrograms -----------------------------
(***************************************************************************)
(* The two test programs that share nothing, side by side for model        *)
(* checking: drv.c on the driver with mmap, and the DRM program on an      *)
(* arbitrary card.  One of them runs in a behaviour.                       *)
(***************************************************************************)
EXTENDS MmapApp, Sequences

CONSTANTS Cards, Sizes, Pads, Rounds

ASSUME CardsAssumption == \A c \in Cards : c \in Seq(Nat) /\ Len(c) <= 10
ASSUME SizesAssumption == Sizes \subseteq Nat /\ Pads \subseteq Nat /\ Rounds \in Nat

(* No connector, 201 alone, first, in the third entry, at the end and      *)
(* alone in its entry there, and absent.                                   *)
MCCards == {<<>>, <<201>>, <<201, 7>>, <<7, 8, 201>>, <<1, 2, 3, 4, 201, 6>>,
            <<1, 2, 3, 4, 5, 6, 201>>, <<1, 2, 3, 4>>}

VARIABLES
  part,                                                     \* the part that runs
  drm_pc, card, count, res_conn_buf, i, j, round, mode, fb  \* DrmApp

drm == INSTANCE DrmApp WITH pc <- drm_pc

drmVars  == <<drm_pc, card, count, res_conn_buf, i, j, round, mode, fb>>
progVars == <<part, appVars, drmVars>>

ProgInit ==
  /\ part \in {"mmap", "drm"}
  /\ AppInit /\ (part # "mmap" => programs = Files)
  /\ drm!Init /\ (part # "drm" => card = <<>>)

ProgNext ==
  /\ \/ part = "mmap" /\ AppNext /\ UNCHANGED drmVars
     \/ part = "drm" /\ drm!Next /\ UNCHANGED appVars
  /\ UNCHANGED part

(* The scheduler runs the DRM program, and every ioctl and sleep returns.  *)
ProgSpec == ProgInit /\ [][ProgNext]_progVars /\ WF_drmVars(part = "drm" /\ drm!Step)

-----------------------------------------------------------------------------
(* Properties.  The parts of a conjunction are stated in the part's own    *)
(* module; NoBlockLost is SomMmap's.                                       *)

(* Users see only memory of the driver as long as no two files are open at *)
(* a time; a block is freed twice only by overlapping files or by one that *)
(* mapped nothing; and unloading harms only after a call of a load failed  *)
(* (char-drv.c:43-48, 81-92, 116-129, 153-156).                            *)
MmapSafe == TypeOK /\ MappedIsOwned /\ FreedOnce /\ UnloadSafe

(* The test program reads the greeting unless another has the driver open, *)
(* and where only it is run, one instance at a time, no block is freed     *)
(* twice unless the kernel has refused a mapping (drv.c:14-19, char-       *)
(* drv.c:46).                                                              *)
ProgramSafe == ReadsHello /\ AloneIsSafe

(* The DRM program draws only if the card has connector 201, and only in   *)
(* what it has mapped (drm_app.c:95, 184, 203-204, 231-233, 299-302).      *)
DrmSafe == drm!TypeOK /\ drm!Only201 /\ drm!DrawsInMapping

(* Whatever the card answers, the DRM program ends (drm_app.c:151, 292).   *)
DrawingEnds == part = "drm" ~> drm_pc \in {"end", "killed"}
=============================================================================
