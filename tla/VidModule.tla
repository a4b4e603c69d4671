----------------------------- MODULE VidModule -----------------------------
(***************************************************************************)
(* Loading and unloading the fake V4L2 driver, v4l2_init and v4l2_exit of  *)
(* src/lkml/v4l2/vid4linux.c, while users open and close its nodes.  What  *)
(* happens on a node between open and close is module FakeVid.  The V4L2   *)
(* core is external: every registered video_device has a node, which keeps *)
(* the module that owns its fops while it is open.                         *)
(***************************************************************************)
EXTENDS Naturals

CONSTANTS
  Users,
  MaxLoads,    \* bound: how often the module is loaded
  Faults       \* which calls may fail

Loads == 1 .. MaxLoads

VARIABLES
  load,           \* the loads so far
  loaded,         \* the module is loaded
  fake_vid_list,  \* the loads whose device is in the list
  dev,            \* the loads whose fake_vid_device is allocated
  vdev,           \* the loads whose video_device is allocated
  node,           \* the loads whose node is registered
  file,           \* the node each user has open, or 0
  failed,         \* history: loads that have failed
  oops            \* why the kernel is in an undefined state, if it is

vars == <<load, loaded, fake_vid_list, dev, vdev, node, file, failed, oops>>

Runs == oops = "none"
Open == \E u \in Users : file[u] # 0

Init ==
  /\ load = 0 /\ loaded = FALSE /\ fake_vid_list = {} /\ dev = {} /\ vdev = {} /\ node = {}
  /\ file = [u \in Users |-> 0] /\ failed = {} /\ oops = "none"

-----------------------------------------------------------------------------
(* v4l2_init.  Nobody looks whether kzalloc has found memory before it is  *)
(* cleared, and no failure frees anything.                                 *)
Listed_mutant_never(l) == fake_vid_list
Listed(l) == fake_vid_list \cup {l}

v4l2_init ==
  LET l == load + 1 IN
  /\ Runs /\ ~loaded /\ load < MaxLoads
  /\ load' = l
  /\ \/ /\ "kzalloc" \in Faults
        /\ oops' = "NULL pointer" /\ UNCHANGED <<loaded, fake_vid_list, dev, vdev, node, failed>>
     \/ /\ \E call \in Faults \ {"kzalloc"} :
             vdev' = vdev \cup IF call = "video_register_device" THEN {l} ELSE {}
        /\ dev' = dev \cup {l} /\ failed' = failed \cup {l}
        /\ UNCHANGED <<loaded, fake_vid_list, node, oops>>
     \/ /\ loaded' = TRUE
        /\ dev' = dev \cup {l} /\ vdev' = vdev \cup {l} /\ node' = node \cup {l}
        /\ fake_vid_list' = Listed(l)
        /\ UNCHANGED <<failed, oops>>
  /\ UNCHANGED file

(* v4l2_exit frees every listed device as it takes it off the list.        *)
Remaining_mutant_listed == fake_vid_list
Remaining == {}

(* vid4linux_fops.owner: an open file keeps the module.                    *)
Pins_mutant_no_owner == FALSE
Pins == TRUE

(* v4l2_exit.  The video_device it passes to video_unregister_device is    *)
(* the embedded one, not the one that was registered, so no node goes.     *)
v4l2_exit ==
  /\ Runs /\ loaded /\ (Pins => ~Open)
  /\ loaded' = FALSE /\ fake_vid_list' = Remaining /\ dev' = dev \ fake_vid_list
  /\ UNCHANGED <<load, vdev, node, file, failed, oops>>

open(u, n) ==
  /\ Runs /\ file[u] = 0 /\ n \in node
  /\ IF loaded /\ n \in dev THEN file' = [file EXCEPT ![u] = n] /\ UNCHANGED oops
                            ELSE oops' = "stale node" /\ UNCHANGED file
  /\ UNCHANGED <<load, loaded, fake_vid_list, dev, vdev, node, failed>>

close(u) ==
  /\ Runs /\ file[u] # 0
  /\ file' = [file EXCEPT ![u] = 0]
  /\ UNCHANGED <<load, loaded, fake_vid_list, dev, vdev, node, failed, oops>>

(* Nothing more happens after an oops or the last unload.                  *)
Done == (~Runs \/ load = MaxLoads) /\ UNCHANGED vars

Next ==
  \/ v4l2_init \/ v4l2_exit \/ Done
  \/ \E u \in Users : close(u) \/ \E n \in Loads : open(u, n)

Spec == Init /\ [][Next]_vars

-----------------------------------------------------------------------------
(* Properties.                                                             *)

(* Every variable has its type.                                            *)
TypeOK ==
  /\ load \in 0 .. MaxLoads /\ loaded \in BOOLEAN
  /\ fake_vid_list \subseteq dev /\ dev \subseteq 1 .. load
  /\ node \subseteq vdev /\ vdev \subseteq 1 .. load /\ failed \subseteq 1 .. load
  /\ file \in [Users -> {0} \cup node] /\ oops \in {"none", "NULL pointer", "stale node"}

(* An open file has its module and its fake_vid_device, whatever loads and *)
(* unloads went before or are tried (vid4linux.c:261, 448-458): what module*)
(* FakeVid starts from.                                                    *)
FilePinsDevice == \A u \in Users : file[u] # 0 => loaded /\ file[u] \in dev

(* Unloading frees the fake_vid_device of every load that succeeded        *)
(* (vid4linux.c:438, 448-457).                                             *)
DevsReturned == ~loaded => dev \subseteq failed

(* Of the nodes the loads leave behind, the one of the present load still  *)
(* has its device and no other does, so an open does harm only through a   *)
(* node that an unload has left (vid4linux.c:434-438, 448-458).            *)
LiveNode ==
  /\ node \cap dev = IF loaded THEN {load} ELSE {}
  /\ oops = "stale node" => node \ dev # {}
=============================================================================
