----------------------------- MODULE NetFilter -----------------------------
(***************************************************************************)
(* The netfilter module, src/lkml/netfilter/netfilter.c: its two hooks on  *)
(* the paths of packets, the sysfs file that sets their verdict, and the   *)
(* set-up and tear-down of both.  nf_unregister_hook waits for packets     *)
(* inside the hook, and the removal of a sysfs directory for writers       *)
(* inside nf_store; both waits are the kernel's.                           *)
(***************************************************************************)
EXTENDS Naturals

CONSTANTS
  Packets,     \* the packets of a behaviour
  MaxWrites,   \* bound: writes to the sysfs file
  Faults       \* which calls of nf_module may fail

ASSUME WritesAssumption == MaxWrites \in Nat
ASSUME FaultsAssumption ==
  Faults \subseteq {"kobject", "sysfs_create_file", "nf_register_hook"}

Hooks == {"rx", "tx"}

VARIABLES
  pc,        \* "unloaded", "loaded", or the next step of load or unload
  dkobj,     \* the directory: "none", "added" or "released"
  file,      \* the attribute file is there
  ret,       \* the verdict: "NF_ACCEPT" or "NF_DROP"
  hooks,     \* hooks registered
  input,     \* what the writer inside nf_store wrote, or "none"
  writes,    \* writes so far
  path,      \* hooks each packet has yet to pass, "rx" before "tx"
  at,        \* "new", "moving", "rx" or "tx" (inside the hook), "passed", "dropped"
  oops,      \* what has left the kernel in an undefined state, or "none"
  faults,    \* history: calls that have failed
  allowed    \* history: packets on their way at a time when traffic was allowed

moduleVars == <<pc, dkobj, file, hooks, faults>>
storeVars  == <<input, writes>>
packetVars == <<path, at>>
vars == <<moduleVars, ret, storeVars, packetVars, oops, allowed>>

Runs == oops = "none"

(* Communication is disabled: the module is set up and says NF_DROP.       *)
Disabled == pc = "loaded" /\ ret = "NF_DROP"

(* Keeps the history: a conjunct of every step.                            *)
Observe ==
  allowed' = IF Disabled /\ Disabled' THEN allowed
             ELSE allowed \cup {p \in Packets : at'[p] # "new"}

Init ==
  /\ pc = "unloaded" /\ dkobj = "none" /\ file = FALSE /\ ret = "NF_ACCEPT"
  /\ hooks = {} /\ input = "none" /\ writes = 0
  /\ path \in [Packets -> SUBSET Hooks \ {{}}] /\ at = [p \in Packets |-> "new"]
  /\ oops = "none" /\ faults = {} /\ allowed = {}

-----------------------------------------------------------------------------
(* The loading and unloading process.                                      *)
Loader(from, to) == Runs /\ pc = from /\ pc' = to /\ UNCHANGED packetVars

Fails(call) == call \in Faults /\ faults' = faults \cup {call}

(* nf_module; ret is initialised with the module's data.                   *)
nf_module ==
  /\ ret' = "NF_ACCEPT"
  /\ \/ Loader("unloaded", "file") /\ dkobj' = "added" /\ UNCHANGED faults
     \/ Loader("unloaded", "unloaded") /\ Fails("kobject") /\ UNCHANGED dkobj
  /\ UNCHANGED <<file, hooks, storeVars, oops>>

(* Mutant: the result of sysfs_create_file is read the wrong way round.    *)
Released_mutant_inverted(failed) == ~failed
Released(failed) == failed

(* sysfs_create_file: on failure the directory is released, and set-up     *)
(* goes on.                                                                *)
nf_module_file ==
  /\ Loader("file", "hook_rx")
  /\ \/ file' = TRUE /\ UNCHANGED faults
     \/ Fails("sysfs_create_file") /\ file' = FALSE
  /\ dkobj' = IF Released(~file') THEN "released" ELSE dkobj
  /\ UNCHANGED <<ret, hooks, storeVars, oops>>

(* nf_register_hook, twice; the results are not looked at.                 *)
nf_module_hook(h, from, to) ==
  /\ Loader(from, to)
  /\ \/ hooks' = hooks \cup {h} /\ UNCHANGED faults
     \/ Fails("nf_register_hook") /\ UNCHANGED hooks
  /\ UNCHANGED <<dkobj, file, ret, storeVars, oops>>

(* remove_hooks: kobject_put removes the file and frees the directory, or  *)
(* touches a directory that is freed already.                              *)
remove_hooks ==
  /\ Loader("loaded", "unhook_rx") /\ input = "none"
  /\ file' = FALSE /\ dkobj' = "released"
  /\ oops' \in {"none"} \cup IF dkobj = "released" THEN {"kobject_put"} ELSE {}
  /\ UNCHANGED <<ret, hooks, storeVars, faults>>

(* Mutant: the second call names the first hook again.                     *)
Unregistered_mutant_same(h) == {"rx"}
Unregistered(h) == {h}

(* nf_unregister_hook; after the second call the module is freed.  A hook  *)
(* whose registration failed has null list links, which list_del follows   *)
(* unless the kernel was built to check them first.                        *)
remove_hooks_unhook(h, from, to) ==
  /\ Loader(from, to)
  /\ \A p \in Packets : at[p] \notin Unregistered(h)
  /\ hooks' = hooks \ Unregistered(h)
  /\ oops' \in {"none"} \cup IF Unregistered(h) \subseteq hooks THEN {} ELSE {"list_del"}
  /\ UNCHANGED <<dkobj, file, ret, storeVars, faults>>

-----------------------------------------------------------------------------
(* nf_store: a number, or text that sscanf leaves rt at 0 for.             *)
Inputs == {"0", "1", "2", "text"}

write(i) ==
  /\ Runs /\ file /\ input = "none" /\ writes < MaxWrites
  /\ input' = i /\ writes' = writes + 1
  /\ UNCHANGED <<moduleVars, ret, packetVars, oops>>

(* Mutant: the number itself is the verdict.                               *)
Verdict_mutant_raw(i) == i
Verdict(i) ==
  CASE i \in {"0", "text"} -> "NF_ACCEPT" [] i = "1" -> "NF_DROP" [] OTHER -> ret

nf_store ==
  /\ Runs /\ input # "none"
  /\ ret' = Verdict(input) /\ input' = "none"
  /\ UNCHANGED <<moduleVars, writes, packetVars, oops>>

-----------------------------------------------------------------------------
(* Packets.                                                                *)
NextHook(p) == IF "rx" \in path[p] THEN "rx" ELSE "tx"

(* The packet is past its next hook.                                       *)
Past(p) ==
  /\ path' = [path EXCEPT ![p] = @ \ {NextHook(p)}]
  /\ at' = [at EXCEPT ![p] = IF path'[p] = {} THEN "passed" ELSE "moving"]

arrive(p) ==
  /\ Runs /\ at[p] = "new"
  /\ at' = [at EXCEPT ![p] = "moving"]
  /\ UNCHANGED <<moduleVars, ret, storeVars, path, oops>>

(* It enters the hook if one is registered.                                *)
forward(p) ==
  /\ Runs /\ at[p] = "moving"
  /\ IF NextHook(p) \in hooks
     THEN at' = [at EXCEPT ![p] = NextHook(p)] /\ UNCHANGED path
     ELSE Past(p)
  /\ UNCHANGED <<moduleVars, ret, storeVars, oops>>

(* Mutant: the tx hook lets everything through.                            *)
hook_ret_mutant_tx(h) == IF h = "tx" THEN "NF_ACCEPT" ELSE ret
hook_ret(h) == ret

(* rx_hook_func and tx_hook_func.                                          *)
hook_func(p) ==
  /\ Runs /\ at[p] \in Hooks
  /\ IF hook_ret(at[p]) = "NF_DROP"
     THEN at' = [at EXCEPT ![p] = "dropped"] /\ UNCHANGED path
     ELSE Past(p)
  /\ UNCHANGED <<moduleVars, ret, storeVars, oops>>

Oopsed == ~Runs /\ UNCHANGED vars

Step ==
  \/ nf_module \/ nf_module_file
  \/ nf_module_hook("rx", "hook_rx", "hook_tx")
  \/ nf_module_hook("tx", "hook_tx", "loaded")
  \/ remove_hooks
  \/ remove_hooks_unhook("rx", "unhook_rx", "unhook_tx")
  \/ remove_hooks_unhook("tx", "unhook_tx", "unloaded")
  \/ \E i \in Inputs : write(i)
  \/ nf_store
  \/ \E p \in Packets : arrive(p) \/ forward(p) \/ hook_func(p)

Next == (Step /\ Observe) \/ Oopsed

Spec == Init /\ [][Next]_vars

-----------------------------------------------------------------------------
(* Properties.                                                             *)

(* Every variable has its type.                                            *)
TypeOK ==
  /\ pc \in {"unloaded", "file", "hook_rx", "hook_tx", "loaded", "unhook_rx",
             "unhook_tx"}
  /\ dkobj \in {"none", "added", "released"} /\ file \in BOOLEAN
  /\ ret \in {"NF_ACCEPT", "NF_DROP"} /\ hooks \subseteq Hooks
  /\ input \in Inputs \cup {"none"} /\ writes \in 0 .. MaxWrites
  /\ path \in [Packets -> SUBSET Hooks]
  /\ at \in [Packets -> {"new", "moving", "rx", "tx", "passed", "dropped"}]
  /\ oops \in {"none", "kobject_put", "list_del"}
  /\ faults \subseteq Faults /\ allowed \subseteq Packets

(* "1: Disable Comm": a packet passes only if it was on its way at some    *)
(* moment when communication was not disabled, whatever is written while   *)
(* it is inside a hook, or if a hook could not be registered               *)
(* (netfilter.c:28, 36-43, 57, 65, 92-93).                                 *)
DisableIsFirm ==
  \A p \in Packets :
    at[p] = "passed" => p \in allowed \/ "nf_register_hook" \in faults

(* No packet and no writer is inside the module's code once that is freed: *)
(* remove_hooks takes back everything through which it can be entered      *)
(* (netfilter.c:98-102).                                                   *)
CallbackInModule ==
  pc = "unloaded" =>
    hooks = {} /\ ~file /\ input = "none" /\ \A p \in Packets : at[p] \notin Hooks

(* The directory is released twice only after sysfs_create_file has        *)
(* failed, and a hook is taken off a list it is not on only after its      *)
(* nf_register_hook has: nothing else harms the kernel, in any load        *)
(* (netfilter.c:78-81, 92-93, 100-102).                                    *)
HarmExplained ==
  /\ oops = "kobject_put" => "sysfs_create_file" \in faults
  /\ oops = "list_del" => "nf_register_hook" \in faults
=============================================================================
