----------------------------- MODULE MCNetwork -----------------------------
(***************************************************************************)
(* The three network parts, which share nothing, side by side for model    *)
(* checking: the netfilter module, the capture module and the sender.  One *)
(* of them runs in a behaviour, so that the union of their state graphs is *)
(* explored and not their product.                                         *)
(***************************************************************************)
EXTENDS NetFilter

CONSTANTS Skbs, Tags, MaxLoads, MaxIndex, SenderFaults

ASSUME CaptureAssumption == MaxLoads \in Nat /\ Tags \subseteq Nat

VARIABLES
  part,                                                             \* the part that runs
  module, dev, enx, dev_refs, loads, skb, logged, wild, cap_oops,   \* NetCapture
  sender_pc, server, sd, bound, vlan100, index, sent                \* VlanSender

cap  == INSTANCE NetCapture WITH oops <- cap_oops
vlan == INSTANCE VlanSender WITH pc <- sender_pc, Faults <- SenderFaults

capVars    == <<module, dev, enx, dev_refs, loads, skb, logged, wild, cap_oops>>
senderVars == <<sender_pc, server, sd, bound, vlan100, index, sent>>
netVars    == <<part, vars, capVars, senderVars>>

NetInit ==
  /\ part \in {"filter", "capture", "sender"}
  /\ Init /\ (part # "filter" => \A p \in Packets : path[p] = Hooks)
  /\ cap!Init /\ (part # "capture" => enx = "up")
  /\ vlan!Init

NetNext ==
  /\ \/ part = "filter" /\ Next /\ UNCHANGED <<capVars, senderVars>>
     \/ part = "capture" /\ cap!Next /\ UNCHANGED <<vars, senderVars>>
     \/ part = "sender" /\ vlan!Next /\ UNCHANGED <<vars, capVars>>
  /\ UNCHANGED part

(* The scheduler runs the sender, and a sleep of two seconds ends.         *)
NetSpec ==
  NetInit /\ [][NetNext]_netVars /\ WF_senderVars(part = "sender" /\ vlan!Main)

-----------------------------------------------------------------------------
(* Properties.  The parts of a conjunction are stated in the part's own    *)
(* module; DisableIsFirm is NetFilter's.                                   *)

(* Tear-down of the netfilter module takes back everything through which   *)
(* its code can be entered while packets and writers are inside; it harms  *)
(* the kernel only after sysfs_create_file or nf_register_hook has failed  *)
(* (netfilter.c:78-81, 92-93, 98-102).                                     *)
FilterSafe == TypeOK /\ CallbackInModule /\ HarmExplained

(* Every buffer has one reference per handler that has yet to run, none is *)
(* touched when it is freed, packet_rcv never runs in a module that is     *)
(* gone, and the filter names an interface only while that exists: with    *)
(* none it takes any (netcapture.c:63, 84-87, 105).                        *)
CaptureSafe ==
  /\ cap!TypeOK /\ cap!NoUseAfterFree /\ cap!RefPerHandler
  /\ cap!DevAlive /\ cap!CapturesOnInterface

(* No packet of the sender leaves otherwise than through vlan100           *)
(* (vlan_packet.c:31).                                                     *)
PrivateVlan == vlan!PrivateVlan

(* A sender that has reached an interface that stays keeps sending on it   *)
(* (vlan_packet.c:58-61).                                                  *)
KeepsSending == vlan!KeepsSending
=============================================================================
