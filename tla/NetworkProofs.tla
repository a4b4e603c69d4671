--------------------------- MODULE NetworkProofs ---------------------------
(***************************************************************************)
(* Proofs about the network parts, for any set of packets, buffers and     *)
(* tags, any number of writes and loads and any choice of failures.        *)
(*                                                                         *)
(* Each part has an inductive invariant of its own: FilterInv, CaptureInv  *)
(* and SenderInv.  A step of one part leaves the variables of the others   *)
(* alone, so that the three together are invariant of NetSpec.             *)
(***************************************************************************)
EXTENDS MCNetwork, FiniteSetTheorems, TLAPS

-----------------------------------------------------------------------------
(* The netfilter module.                                                   *)

(* What is set up at each step of nf_module and remove_hooks.  A packet is *)
(* inside a hook only while that is registered, a writer inside nf_store   *)
(* only while the file is there.                                           *)
SetupInv ==
  /\ pc \in {"unloaded", "file", "hook_rx"} => hooks = {}
  /\ pc = "hook_tx" => hooks \subseteq {"rx"}
  /\ pc = "unhook_tx" => hooks \subseteq {"tx"}
  /\ pc \in {"unloaded", "file", "unhook_rx", "unhook_tx"} => ~file
  /\ input # "none" => file
  /\ \A p \in Packets : at[p] \in Hooks => at[p] \in hooks

(* Unless a registration has failed, both hooks are there from the end of  *)
(* nf_module to their turn in remove_hooks; and a directory is released    *)
(* while the module is set up only if its file could not be created.       *)
FailureInv ==
  /\ (pc = "hook_tx" /\ hooks # {"rx"}) => "nf_register_hook" \in faults
  /\ (pc \in {"loaded", "unhook_rx"} /\ hooks # Hooks) => "nf_register_hook" \in faults
  /\ (pc = "unhook_tx" /\ "tx" \notin hooks) => "nf_register_hook" \in faults
  /\ pc = "file" => dkobj = "added"
  /\ (pc \in {"hook_rx", "hook_tx", "loaded"} /\ dkobj = "released") =>
       "sysfs_create_file" \in faults
  /\ HarmExplained

(* While communication is not disabled, every packet on its way is one     *)
(* that may pass.                                                          *)
AllowedInv ==
  /\ ~Disabled => \A p \in Packets : at[p] # "new" => p \in allowed
  /\ DisableIsFirm

FilterInv == TypeOK /\ SetupInv /\ FailureInv /\ AllowedInv

(* Every step keeps the types.                                             *)
LEMMA FilterTypeStep == FilterInv /\ Step /\ Observe => TypeOK'
<1> SUFFICES ASSUME FilterInv, Step, Observe PROVE  TypeOK'
  OBVIOUS
<1> USE DEF FilterInv, TypeOK, Hooks
<1>1. CASE nf_module
  BY <1>1, WritesAssumption DEF nf_module, Loader, Fails, moduleVars,
    storeVars, packetVars, Observe
<1>2. CASE nf_module_file
  BY <1>2, WritesAssumption DEF nf_module_file, Released, Loader, Fails,
    moduleVars, storeVars, packetVars, Observe
<1>3. CASE nf_module_hook("rx", "hook_rx", "hook_tx")
  BY <1>3, WritesAssumption DEF nf_module_hook, Loader, Fails, moduleVars,
    storeVars, packetVars, Observe
<1>4. CASE nf_module_hook("tx", "hook_tx", "loaded")
  BY <1>4, WritesAssumption DEF nf_module_hook, Loader, Fails, moduleVars,
    storeVars, packetVars, Observe
<1>5. CASE remove_hooks
  BY <1>5, WritesAssumption DEF remove_hooks, Loader, moduleVars, storeVars,
    packetVars, Observe
<1>6. CASE remove_hooks_unhook("rx", "unhook_rx", "unhook_tx")
  BY <1>6, WritesAssumption DEF remove_hooks_unhook, Unregistered, Loader,
    moduleVars, storeVars, packetVars, Observe
<1>7. CASE remove_hooks_unhook("tx", "unhook_tx", "unloaded")
  BY <1>7, WritesAssumption DEF remove_hooks_unhook, Unregistered, Loader,
    moduleVars, storeVars, packetVars, Observe
<1>8. ASSUME NEW i \in Inputs, write(i) PROVE  TypeOK'
  BY <1>8, WritesAssumption DEF write, moduleVars, storeVars, packetVars,
    Observe
<1>9. CASE nf_store
  BY <1>9, WritesAssumption DEF nf_store, Verdict, moduleVars, storeVars,
    packetVars, Observe
<1>10. ASSUME NEW p \in Packets, arrive(p) PROVE  TypeOK'
  BY <1>10, WritesAssumption DEF arrive, moduleVars, storeVars, packetVars,
    Observe
<1>11. ASSUME NEW p \in Packets, forward(p) PROVE  TypeOK'
  BY <1>11, WritesAssumption DEF forward, NextHook, Past, moduleVars,
    storeVars, packetVars, Observe
<1>12. ASSUME NEW p \in Packets, hook_func(p) PROVE  TypeOK'
  BY <1>12, WritesAssumption DEF hook_func, hook_ret, NextHook, Past,
    moduleVars, storeVars, packetVars, Observe
<1> QED
  BY <1>1, <1>2, <1>3, <1>4, <1>5, <1>6, <1>7, <1>8, <1>9, <1>10, <1>11,
    <1>12 DEF Step

(* Every step keeps the account of what is set up.                         *)
LEMMA SetupStep == FilterInv /\ Step => SetupInv'
<1> SUFFICES ASSUME FilterInv, Step PROVE  SetupInv'
  OBVIOUS
<1> USE DEF FilterInv, TypeOK, SetupInv, Hooks
<1>1. CASE nf_module
  BY <1>1 DEF nf_module, Loader, Fails, moduleVars, storeVars, packetVars
<1>2. CASE nf_module_file
  BY <1>2 DEF nf_module_file, Released, Loader, Fails, moduleVars, storeVars,
    packetVars
<1>3. CASE nf_module_hook("rx", "hook_rx", "hook_tx")
  BY <1>3 DEF nf_module_hook, Loader, Fails, moduleVars, storeVars, packetVars
<1>4. CASE nf_module_hook("tx", "hook_tx", "loaded")
  BY <1>4 DEF nf_module_hook, Loader, Fails, moduleVars, storeVars, packetVars
<1>5. CASE remove_hooks
  BY <1>5 DEF remove_hooks, Loader, moduleVars, storeVars, packetVars
<1>6. CASE remove_hooks_unhook("rx", "unhook_rx", "unhook_tx")
  BY <1>6 DEF remove_hooks_unhook, Unregistered, Loader, moduleVars,
    storeVars, packetVars
<1>7. CASE remove_hooks_unhook("tx", "unhook_tx", "unloaded")
  BY <1>7 DEF remove_hooks_unhook, Unregistered, Loader, moduleVars,
    storeVars, packetVars
<1>8. ASSUME NEW i \in Inputs, write(i) PROVE  SetupInv'
  BY <1>8 DEF write, moduleVars, storeVars, packetVars
<1>9. CASE nf_store
  BY <1>9 DEF nf_store, Verdict, moduleVars, storeVars, packetVars
<1>10. ASSUME NEW p \in Packets, arrive(p) PROVE  SetupInv'
  BY <1>10 DEF arrive, moduleVars, storeVars, packetVars
<1>11. ASSUME NEW p \in Packets, forward(p) PROVE  SetupInv'
  BY <1>11 DEF forward, NextHook, Past, moduleVars, storeVars, packetVars
<1>12. ASSUME NEW p \in Packets, hook_func(p) PROVE  SetupInv'
  BY <1>12 DEF hook_func, hook_ret, NextHook, Past, moduleVars, storeVars,
    packetVars
<1> QED
  BY <1>1, <1>2, <1>3, <1>4, <1>5, <1>6, <1>7, <1>8, <1>9, <1>10, <1>11,
    <1>12 DEF Step

(* Every step keeps the account of what has failed.                        *)
LEMMA FailureStep == FilterInv /\ Step => FailureInv'
<1> SUFFICES ASSUME FilterInv, Step PROVE  FailureInv'
  OBVIOUS
<1> USE DEF FilterInv, TypeOK, SetupInv, FailureInv, HarmExplained, Hooks
<1>1. CASE nf_module
  BY <1>1 DEF nf_module, Loader, Fails, moduleVars, storeVars, packetVars
<1>2. CASE nf_module_file
  BY <1>2 DEF nf_module_file, Released, Loader, Fails, moduleVars, storeVars,
    packetVars
<1>3. CASE nf_module_hook("rx", "hook_rx", "hook_tx")
  BY <1>3 DEF nf_module_hook, Loader, Fails, moduleVars, storeVars, packetVars
<1>4. CASE nf_module_hook("tx", "hook_tx", "loaded")
  BY <1>4 DEF nf_module_hook, Loader, Fails, moduleVars, storeVars, packetVars
<1>5. CASE remove_hooks
  BY <1>5 DEF remove_hooks, Loader, moduleVars, storeVars, packetVars
<1>6. CASE remove_hooks_unhook("rx", "unhook_rx", "unhook_tx")
  BY <1>6 DEF remove_hooks_unhook, Unregistered, Loader, moduleVars,
    storeVars, packetVars
<1>7. CASE remove_hooks_unhook("tx", "unhook_tx", "unloaded")
  BY <1>7 DEF remove_hooks_unhook, Unregistered, Loader, moduleVars,
    storeVars, packetVars
<1>8. ASSUME NEW i \in Inputs, write(i) PROVE  FailureInv'
  BY <1>8 DEF write, moduleVars, storeVars, packetVars
<1>9. CASE nf_store
  BY <1>9 DEF nf_store, Verdict, moduleVars, storeVars, packetVars
<1>10. ASSUME NEW p \in Packets, arrive(p) PROVE  FailureInv'
  BY <1>10 DEF arrive, moduleVars, storeVars, packetVars
<1>11. ASSUME NEW p \in Packets, forward(p) PROVE  FailureInv'
  BY <1>11 DEF forward, NextHook, Past, moduleVars, storeVars, packetVars
<1>12. ASSUME NEW p \in Packets, hook_func(p) PROVE  FailureInv'
  BY <1>12 DEF hook_func, hook_ret, NextHook, Past, moduleVars, storeVars,
    packetVars
<1> QED
  BY <1>1, <1>2, <1>3, <1>4, <1>5, <1>6, <1>7, <1>8, <1>9, <1>10, <1>11,
    <1>12 DEF Step

(* Every step keeps the account of who may pass.                           *)
LEMMA AllowedStep == FilterInv /\ Step /\ Observe => AllowedInv'
<1> SUFFICES ASSUME FilterInv, Step, Observe PROVE  AllowedInv'
  OBVIOUS
<1> USE DEF FilterInv, TypeOK, SetupInv, FailureInv, AllowedInv,
  DisableIsFirm, Disabled, Hooks
<1>1. CASE nf_module
  BY <1>1 DEF nf_module, Loader, Fails, moduleVars, storeVars, packetVars,
    Observe
<1>2. CASE nf_module_file
  BY <1>2 DEF nf_module_file, Released, Loader, Fails, moduleVars, storeVars,
    packetVars, Observe
<1>3. CASE nf_module_hook("rx", "hook_rx", "hook_tx")
  BY <1>3 DEF nf_module_hook, Loader, Fails, moduleVars, storeVars,
    packetVars, Observe
<1>4. CASE nf_module_hook("tx", "hook_tx", "loaded")
  BY <1>4 DEF nf_module_hook, Loader, Fails, moduleVars, storeVars,
    packetVars, Observe
<1>5. CASE remove_hooks
  BY <1>5 DEF remove_hooks, Loader, moduleVars, storeVars, packetVars, Observe
<1>6. CASE remove_hooks_unhook("rx", "unhook_rx", "unhook_tx")
  BY <1>6 DEF remove_hooks_unhook, Unregistered, Loader, moduleVars,
    storeVars, packetVars, Observe
<1>7. CASE remove_hooks_unhook("tx", "unhook_tx", "unloaded")
  BY <1>7 DEF remove_hooks_unhook, Unregistered, Loader, moduleVars,
    storeVars, packetVars, Observe
<1>8. ASSUME NEW i \in Inputs, write(i) PROVE  AllowedInv'
  BY <1>8 DEF write, moduleVars, storeVars, packetVars, Observe
<1>9. CASE nf_store
  BY <1>9 DEF nf_store, Verdict, moduleVars, storeVars, packetVars, Observe
<1>10. ASSUME NEW p \in Packets, arrive(p) PROVE  AllowedInv'
  BY <1>10 DEF arrive, moduleVars, storeVars, packetVars, Observe
<1>11. ASSUME NEW p \in Packets, forward(p) PROVE  AllowedInv'
  BY <1>11 DEF forward, NextHook, Past, moduleVars, storeVars, packetVars,
    Observe
<1>12. ASSUME NEW p \in Packets, hook_func(p) PROVE  AllowedInv'
  BY <1>12 DEF hook_func, hook_ret, NextHook, Past, moduleVars, storeVars,
    packetVars, Observe
<1> QED
  BY <1>1, <1>2, <1>3, <1>4, <1>5, <1>6, <1>7, <1>8, <1>9, <1>10, <1>11,
    <1>12 DEF Step

(* The invariant holds at the start and every step keeps it.               *)
LEMMA FilterInit == Init => FilterInv
<1> SUFFICES ASSUME Init PROVE  FilterInv
  OBVIOUS
<1>1. TypeOK
  <2>1. path \in [Packets -> SUBSET Hooks]
    BY DEF Init
  <2>2. at \in [Packets -> {"new", "moving", "rx", "tx", "passed", "dropped"}]
    BY DEF Init
  <2>3. file \in BOOLEAN
    BY DEF Init
  <2> QED
    BY <2>1, <2>2, <2>3, WritesAssumption DEF Init, TypeOK
<1>2. SetupInv /\ FailureInv
  BY DEF Init, SetupInv, FailureInv, HarmExplained, Hooks
<1>3. AllowedInv
  BY DEF Init, AllowedInv, DisableIsFirm
<1> QED
  BY <1>1, <1>2, <1>3 DEF FilterInv

(* Every step of the module, of a writer and of a packet keeps the         *)
(* invariant; so does a step of another part.                              *)
LEMMA FilterStep == FilterInv /\ [Next]_vars => FilterInv'
<1> SUFFICES ASSUME FilterInv, [Next]_vars PROVE  FilterInv'
  OBVIOUS
<1>1. CASE Step /\ Observe
  BY <1>1, FilterTypeStep, SetupStep, FailureStep, AllowedStep DEF FilterInv
<1>2. CASE UNCHANGED vars
  BY <1>2 DEF FilterInv, TypeOK, SetupInv, FailureInv, HarmExplained, AllowedInv,
    DisableIsFirm, Disabled, vars, moduleVars, storeVars, packetVars
<1> QED
  BY <1>1, <1>2 DEF Next, Oopsed

-----------------------------------------------------------------------------
(* The capture module.                                                     *)

(* A listed packet_type is one of a module that is loaded, and its handler *)
(* runs only while the module's code is there.                             *)
ListedInv ==
  /\ dev # "none" => module = "in"
  /\ \A s \in Skbs : "packet_rcv" \in skb[s].todo => module # "out"

(* The interface stays while it is referred to, and a filter that names it *)
(* has a reference.                                                        *)
InterfaceInv ==
  /\ dev = "enx" => dev_refs > 0
  /\ dev_refs > 0 => enx # "absent"

(* Only the wildcard lets packets of another interface through.            *)
WildcardInv ==
  /\ dev = "any" => wild
  /\ \A s \in Skbs : ("packet_rcv" \in skb[s].todo /\ skb[s].on = "other") => wild

CaptureInv ==
  /\ cap!TypeOK /\ cap!NoUseAfterFree /\ cap!RefPerHandler
  /\ cap!CapturesOnInterface
  /\ ListedInv /\ InterfaceInv /\ WildcardInv

(* Cardinality is the same inside the capture module and outside it.       *)
LEMMA SameCardinality == \A S : cap!Cardinality(S) = Cardinality(S)
  BY DEF cap!Cardinality, Cardinality

(* How many handlers a set of handlers has.                                *)
LEMMA HandlerCount ==
  /\ cap!Cardinality({}) = 0
  /\ cap!Cardinality({"ip_rcv"}) = 1
  /\ cap!Cardinality({"packet_rcv"}) = 1
  /\ cap!Cardinality({"ip_rcv", "packet_rcv"}) = 2
<1>1. Cardinality({}) = 0
  BY FS_EmptySet
<1>2. Cardinality({"ip_rcv"}) = 1 /\ Cardinality({"packet_rcv"}) = 1
  BY FS_Singleton
<1>3. IsFiniteSet({"packet_rcv"})
  BY FS_Singleton
<1>4. {"ip_rcv", "packet_rcv"} = {"packet_rcv"} \cup {"ip_rcv"}
  OBVIOUS
<1>5. Cardinality({"packet_rcv"} \cup {"ip_rcv"}) = Cardinality({"packet_rcv"}) + 1
  BY <1>3, FS_AddElement
<1> QED
  BY <1>1, <1>2, <1>4, <1>5, SameCardinality

(* The types in three parts: scalars, buffers and the log.                 *)
Buffer ==
  [on : cap!Ifaces, tci : Tags, users : 0 .. 2,
   todo : SUBSET {"ip_rcv", "packet_rcv"}] \cup {cap!Free}

Vids == 0 .. 4095

Entry == [on : cap!Ifaces, tci : Tags, id : Vids] \cup {cap!NoLog}

ScalarType ==
  /\ module \in {"out", "in", "leaving"} /\ dev \in {"none", "any", "enx"}
  /\ enx \in {"absent", "up", "leaving"} /\ loads \in 0 .. MaxLoads
  /\ dev_refs \in 0 .. loads /\ wild \in BOOLEAN /\ cap_oops \in BOOLEAN

(* The three parts are the type invariant.                                 *)
LEMMA CaptureTypeParts ==
  cap!TypeOK <=> ScalarType /\ skb \in [Skbs -> Buffer] /\ logged \in Entry
<1>1. {wild, cap_oops} \subseteq BOOLEAN <=> wild \in BOOLEAN /\ cap_oops \in BOOLEAN
  OBVIOUS
<1> QED
  BY <1>1 DEF cap!TypeOK, ScalarType, Buffer, Entry, Vids

(* The same of the next state.                                             *)
LEMMA CaptureTypePartsNext ==
  cap!TypeOK' <=> ScalarType' /\ skb' \in [Skbs -> Buffer] /\ logged' \in Entry
<1>1. {wild', cap_oops'} \subseteq BOOLEAN <=> wild' \in BOOLEAN /\ cap_oops' \in BOOLEAN
  OBVIOUS
<1> QED
  BY <1>1 DEF cap!TypeOK, ScalarType, Buffer, Entry, Vids

(* The fields of a buffer.                                                 *)
LEMMA BufferFields ==
  ASSUME NEW b \in Buffer
  PROVE  /\ b.on \in {"enx", "other", "none"} /\ b.users \in 0 .. 2
         /\ b.todo \subseteq {"ip_rcv", "packet_rcv"}
         /\ b.todo # {} => b.on \in cap!Ifaces /\ b.tci \in Tags
<1>1. CASE b = cap!Free
  BY <1>1 DEF cap!Free
<1>2. CASE b \in [on : cap!Ifaces, tci : Tags, users : 0 .. 2,
                  todo : SUBSET {"ip_rcv", "packet_rcv"}]
  BY <1>2 DEF cap!Ifaces
<1> QED
  BY <1>1, <1>2 DEF Buffer

(* kfree_skb by one of the handlers that have yet to run: of the           *)
(* references, as of the handlers, the others are left, and a buffer       *)
(* without any is free.                                                    *)
LEMMA AfterFields ==
  ASSUME NEW b \in Buffer, NEW h \in {"ip_rcv", "packet_rcv"}, h \in b.todo,
         b.users = cap!Cardinality(b.todo)
  PROVE  /\ cap!After(b, h) \in Buffer
         /\ cap!After(b, h).todo = b.todo \ {h}
         /\ cap!After(b, h).users = cap!Cardinality(b.todo \ {h})
         /\ cap!After(b, h).on \in {b.on, "none"}
<1>1. b \in [on : cap!Ifaces, tci : Tags, users : 0 .. 2,
             todo : SUBSET {"ip_rcv", "packet_rcv"}]
  <2>1. cap!Free.todo = {}
    BY DEF cap!Free
  <2> QED
    BY <2>1 DEF Buffer
<1>2. CASE b.todo = {h}
  <2>1. b.users = 1 /\ b.todo \ {h} = {}
    BY <1>2, HandlerCount
  <2>2. cap!After(b, h) = cap!Free
    BY <1>2, <2>1 DEF cap!After
  <2> QED
    BY <2>1, <2>2, HandlerCount DEF cap!Free, Buffer
<1>3. CASE b.todo # {h}
  <2>1. b.todo = {"ip_rcv", "packet_rcv"} /\ b.users = 2
    <3>1. b.todo = {"ip_rcv", "packet_rcv"}
      BY <1>1, <1>3
    <3> QED
      BY <3>1, HandlerCount
  <2>2. cap!Cardinality(b.todo \ {h}) = 1
    <3>1. b.todo \ {h} \in {{"ip_rcv"}, {"packet_rcv"}}
      BY <2>1
    <3> QED
      BY <3>1, HandlerCount
  <2>3. cap!After(b, h) = [b EXCEPT !.users = @ - 1, !.todo = @ \ {h}]
    BY <1>3 DEF cap!After
  <2>4. /\ cap!After(b, h).todo = b.todo \ {h} /\ cap!After(b, h).users = 1
        /\ cap!After(b, h).on = b.on
    BY <1>1, <2>1, <2>3
  <2>5. cap!After(b, h) \in [on : cap!Ifaces, tci : Tags, users : 0 .. 2,
                             todo : SUBSET {"ip_rcv", "packet_rcv"}]
    <3>1. b.users - 1 \in 0 .. 2 /\ b.todo \ {h} \in SUBSET {"ip_rcv", "packet_rcv"}
      BY <2>1
    <3> QED
      BY <1>1, <2>3, <3>1
  <2> QED
    BY <2>2, <2>4, <2>5 DEF Buffer
<1> QED
  BY <1>2, <1>3

(* The handlers an arriving packet is given to, each with a reference.     *)
LEMMA ArrivalFields ==
  ASSUME NEW i \in cap!Ifaces, NEW t \in Tags,
         NEW b, b = [on |-> i, tci |-> t, todo |-> cap!Handlers(i),
                     users |-> cap!Cardinality(cap!Handlers(i))]
  PROVE  /\ b \in Buffer /\ b.users = cap!Cardinality(b.todo) /\ b.on = i
         /\ "packet_rcv" \in b.todo => dev \in {i, "any"}
<1>1. cap!Handlers(i) \in {{"ip_rcv"}, {"ip_rcv", "packet_rcv"}}
  BY DEF cap!Handlers
<1>2. cap!Cardinality(cap!Handlers(i)) \in 0 .. 2
  BY <1>1, HandlerCount
<1>3. /\ b.on = i /\ b.todo = cap!Handlers(i)
      /\ b.users = cap!Cardinality(cap!Handlers(i))
  OBVIOUS
<1>4. "packet_rcv" \in cap!Handlers(i) => dev \in {i, "any"}
  BY DEF cap!Handlers
<1>5. cap!Handlers(i) \in SUBSET {"ip_rcv", "packet_rcv"}
  BY <1>1
<1>6. b \in Buffer
  BY <1>2, <1>5 DEF Buffer
<1> QED
  BY <1>3, <1>4, <1>6

(* The mask of packet_rcv leaves the twelve bits of a VLAN id.             *)
LEMMA Masked ==
  ASSUME NEW n \in Int
  PROVE  n % 4096 \in Vids
BY DEF Vids

(* What a line of packet_rcv's log holds.                                  *)
LEMMA LogFields ==
  ASSUME NEW b \in Buffer, b.todo # {}
  PROVE  [on |-> b.on, tci |-> b.tci, id |-> cap!vlan_id(b.tci)] \in Entry
<1>1. b.on \in cap!Ifaces /\ b.tci \in Tags
  BY BufferFields
<1>2. b.tci \in Nat
  BY <1>1, CaptureAssumption
<1>3. cap!vlan_id(b.tci) \in Vids
  <2>1. cap!ntohs(b.tci) \in Int
    BY <1>2 DEF cap!ntohs
  <2>2. PICK n \in Int : n = cap!ntohs(b.tci)
    BY <2>1
  <2>3. cap!vlan_id(b.tci) = n % 4096
    BY <2>2 DEF cap!vlan_id
  <2> QED
    BY <2>3, Masked
<1> QED
  BY <1>1, <1>3 DEF Entry

(* A handler that runs and drops its reference leaves every buffer with    *)
(* one reference per handler to run, and no new handler to run.            *)
LEMMA HandledBuffers ==
  ASSUME CaptureInv, NEW s \in Skbs, NEW h \in {"ip_rcv", "packet_rcv"},
         h \in skb[s].todo, skb' = [skb EXCEPT ![s] = cap!After(@, h)]
  PROVE  /\ skb' \in [Skbs -> Buffer]
         /\ \A x \in Skbs : /\ skb'[x].users = cap!Cardinality(skb'[x].todo)
                            /\ skb'[x].todo \subseteq skb[x].todo
                            /\ skb'[x].on \in {skb[x].on, "none"}
<1>1. skb \in [Skbs -> Buffer]
  BY CaptureTypeParts DEF CaptureInv
<1>2. \A x \in Skbs : skb[x].users = cap!Cardinality(skb[x].todo)
  BY DEF CaptureInv, cap!RefPerHandler
<1> DEFINE b == cap!After(skb[s], h)
<1>3. /\ b \in Buffer /\ b.todo = skb[s].todo \ {h}
      /\ b.users = cap!Cardinality(skb[s].todo \ {h}) /\ b.on \in {skb[s].on, "none"}
  BY <1>1, <1>2, AfterFields
<1>4. skb' = [skb EXCEPT ![s] = b]
  OBVIOUS
<1> HIDE DEF b
<1>5. skb'[s] = b /\ \A x \in Skbs \ {s} : skb'[x] = skb[x]
  BY <1>1, <1>4
<1>6. skb' \in [Skbs -> Buffer]
  BY <1>1, <1>3, <1>4
<1>7. ASSUME NEW x \in Skbs
      PROVE  /\ skb'[x].users = cap!Cardinality(skb'[x].todo)
             /\ skb'[x].todo \subseteq skb[x].todo
             /\ skb'[x].on \in {skb[x].on, "none"}
  <2>1. CASE x = s
    BY <1>3, <1>5, <2>1
  <2>2. CASE x # s
    BY <1>2, <1>5, <2>2
  <2> QED
    BY <2>1, <2>2
<1> QED
  BY <1>6, <1>7

(* A packet that arrives on i is one buffer more, given to packet_rcv only *)
(* if the filter is i or the wildcard.                                     *)
LEMMA ArrivedBuffers ==
  ASSUME CaptureInv, NEW s \in Skbs, NEW i \in cap!Ifaces, NEW t \in Tags,
         cap!arrive(s, i, t)
  PROVE  /\ skb' \in [Skbs -> Buffer]
         /\ \A x \in Skbs : skb'[x].users = cap!Cardinality(skb'[x].todo)
         /\ \A x \in Skbs : skb'[x] # skb[x] =>
              /\ skb'[x].on = i
              /\ "packet_rcv" \in skb'[x].todo => dev \in {i, "any"}
<1>1. skb \in [Skbs -> Buffer]
  BY CaptureTypeParts DEF CaptureInv
<1>2. \A x \in Skbs : skb[x].users = cap!Cardinality(skb[x].todo)
  BY DEF CaptureInv, cap!RefPerHandler
<1> DEFINE b == [on |-> i, tci |-> t, todo |-> cap!Handlers(i),
                 users |-> cap!Cardinality(cap!Handlers(i))]
<1>3. /\ b \in Buffer /\ b.users = cap!Cardinality(b.todo) /\ b.on = i
      /\ "packet_rcv" \in b.todo => dev \in {i, "any"}
  BY ArrivalFields
<1>4. skb' = [skb EXCEPT ![s] = b]
  BY DEF cap!arrive
<1> HIDE DEF b
<1>5. skb'[s] = b /\ \A x \in Skbs \ {s} : skb'[x] = skb[x]
  BY <1>1, <1>4
<1>6. skb' \in [Skbs -> Buffer]
  BY <1>1, <1>3, <1>4
<1>7. \A x \in Skbs : skb'[x].users = cap!Cardinality(skb'[x].todo)
  BY <1>2, <1>3, <1>5
<1> QED
  BY <1>3, <1>5, <1>6, <1>7

(* A buffer with a handler to run has a reference.                         *)
LEMMA Referenced ==
  ASSUME CaptureInv, NEW s \in Skbs, skb[s].todo # {}
  PROVE  skb[s].users # 0
<1>1. skb[s].todo \in {{"ip_rcv"}, {"packet_rcv"}, {"ip_rcv", "packet_rcv"}}
  <2>1. skb[s] \in Buffer
    BY CaptureTypeParts DEF CaptureInv
  <2> QED
    BY <2>1, BufferFields
<1>2. skb[s].users = cap!Cardinality(skb[s].todo)
  BY DEF CaptureInv, cap!RefPerHandler
<1> QED
  BY <1>1, <1>2, HandlerCount

(* Every step of the module, the stack and the interface keeps the types.  *)
LEMMA CaptureTypeStep == CaptureInv /\ [cap!Next]_capVars => cap!TypeOK'
<1> SUFFICES ASSUME CaptureInv, [cap!Next]_capVars PROVE  cap!TypeOK'
  OBVIOUS
<1>0. ScalarType /\ skb \in [Skbs -> Buffer] /\ logged \in Entry
  BY CaptureTypeParts DEF CaptureInv
<1>1. CASE cap!net_init
  BY <1>1, <1>0, CaptureTypePartsNext, CaptureAssumption DEF cap!net_init,
    cap!Held, cap!dev_get_by_name, ScalarType
<1>2. CASE cap!net_cleanup
  BY <1>2, <1>0, CaptureTypePartsNext, CaptureAssumption DEF cap!net_cleanup,
    ScalarType
<1>3. CASE cap!net_cleanup_done
  BY <1>3, <1>0, CaptureTypePartsNext, CaptureAssumption DEF
    cap!net_cleanup_done, cap!dev_remove_pack, ScalarType
<1>4. CASE cap!plug
  BY <1>4, <1>0, CaptureTypePartsNext, CaptureAssumption DEF cap!plug,
    ScalarType
<1>5. ASSUME NEW s \in Skbs, cap!ip_rcv(s) PROVE  cap!TypeOK'
  <2>1. skb' \in [Skbs -> Buffer]
    BY <1>5, HandledBuffers DEF cap!ip_rcv
  <2>2. logged' \in Entry
    BY <1>5, <1>0 DEF cap!ip_rcv
  <2>3. ScalarType'
    BY <1>5, <1>0 DEF cap!ip_rcv, ScalarType
  <2> QED
    BY <2>1, <2>2, <2>3, CaptureTypePartsNext
<1>6. ASSUME NEW s \in Skbs, cap!packet_rcv(s) PROVE  cap!TypeOK'
  <2>1. skb' \in [Skbs -> Buffer]
    BY <1>6, HandledBuffers DEF cap!packet_rcv, cap!Received
  <2>2. logged' \in Entry
    <3>1. skb[s] \in Buffer /\ skb[s].todo # {}
      BY <1>6, <1>0 DEF cap!packet_rcv
    <3> QED
      BY <1>6, <3>1, LogFields DEF cap!packet_rcv
  <2>3. ScalarType'
    BY <1>6, <1>0 DEF cap!packet_rcv, ScalarType
  <2> QED
    BY <2>1, <2>2, <2>3, CaptureTypePartsNext
<1>7. ASSUME NEW s \in Skbs, NEW i \in cap!Ifaces, NEW t \in Tags,
  cap!arrive(s, i, t) PROVE  cap!TypeOK'
  BY <1>7, <1>0, CaptureTypePartsNext, CaptureAssumption, ArrivedBuffers DEF
    cap!arrive, ScalarType
<1>8. CASE UNCHANGED capVars
  BY <1>8, <1>0, CaptureTypePartsNext, CaptureAssumption DEF capVars,
    ScalarType
<1> QED
  BY <1>1, <1>2, <1>3, <1>4, <1>5, <1>6, <1>7, <1>8 DEF cap!Next

(* The filter is listed while the module is in, and packet_rcv has to run  *)
(* only while the module's code is there: dev_remove_pack waits.           *)
LEMMA ListedStep == CaptureInv /\ [cap!Next]_capVars => ListedInv'
<1> SUFFICES ASSUME CaptureInv, [cap!Next]_capVars PROVE  ListedInv'
  OBVIOUS
<1> USE DEF CaptureInv, ListedInv
<1>1. CASE cap!net_init
  BY <1>1 DEF cap!net_init, cap!Held, cap!dev_get_by_name
<1>2. CASE cap!net_cleanup
  BY <1>2 DEF cap!net_cleanup
<1>3. CASE cap!net_cleanup_done
  BY <1>3 DEF cap!net_cleanup_done, cap!dev_remove_pack
<1>4. CASE cap!plug
  BY <1>4 DEF cap!plug
<1>5. ASSUME NEW s \in Skbs, cap!ip_rcv(s) PROVE  ListedInv'
  BY <1>5, HandledBuffers DEF cap!ip_rcv
<1>6. ASSUME NEW s \in Skbs, cap!packet_rcv(s) PROVE  ListedInv'
  BY <1>6, HandledBuffers DEF cap!packet_rcv, cap!Received
<1>7. ASSUME NEW s \in Skbs, NEW i \in cap!Ifaces, NEW t \in Tags,
  cap!arrive(s, i, t) PROVE  ListedInv'
  BY <1>7, ArrivedBuffers DEF cap!arrive, cap!Ifaces
<1>8. CASE UNCHANGED capVars
  BY <1>8 DEF capVars
<1> QED
  BY <1>1, <1>2, <1>3, <1>4, <1>5, <1>6, <1>7, <1>8 DEF cap!Next

(* The reference net_init takes keeps the interface.                       *)
LEMMA InterfaceStep == CaptureInv /\ [cap!Next]_capVars => InterfaceInv'
<1> SUFFICES ASSUME CaptureInv, [cap!Next]_capVars PROVE  InterfaceInv'
  OBVIOUS
<1> USE DEF CaptureInv, InterfaceInv
<1>0. ScalarType
  BY CaptureTypeParts DEF CaptureInv
<1>1. CASE cap!net_init
  BY <1>1, <1>0 DEF cap!net_init, cap!Held, cap!dev_get_by_name, ScalarType
<1>2. CASE cap!net_cleanup
  BY <1>2, <1>0 DEF cap!net_cleanup, ScalarType
<1>3. CASE cap!net_cleanup_done
  BY <1>3, <1>0 DEF cap!net_cleanup_done, cap!dev_remove_pack, ScalarType
<1>4. CASE cap!plug
  BY <1>4, <1>0 DEF cap!plug, ScalarType
<1>5. ASSUME NEW s \in Skbs, cap!ip_rcv(s) PROVE  InterfaceInv'
  BY <1>5, <1>0 DEF cap!ip_rcv, ScalarType
<1>6. ASSUME NEW s \in Skbs, cap!packet_rcv(s) PROVE  InterfaceInv'
  BY <1>6, <1>0 DEF cap!packet_rcv, ScalarType
<1>7. ASSUME NEW s \in Skbs, NEW i \in cap!Ifaces, NEW t \in Tags,
  cap!arrive(s, i, t) PROVE  InterfaceInv'
  BY <1>7, <1>0 DEF cap!arrive, ScalarType
<1>8. CASE UNCHANGED capVars
  BY <1>8, <1>0 DEF capVars, ScalarType
<1> QED
  BY <1>1, <1>2, <1>3, <1>4, <1>5, <1>6, <1>7, <1>8 DEF cap!Next

(* Packets of another interface are handed to packet_rcv only after a load *)
(* that found none.                                                        *)
LEMMA WildcardStep == CaptureInv /\ [cap!Next]_capVars => WildcardInv'
<1> SUFFICES ASSUME CaptureInv, [cap!Next]_capVars PROVE  WildcardInv'
  OBVIOUS
<1> USE DEF CaptureInv, WildcardInv
<1>0. ScalarType
  BY CaptureTypeParts DEF CaptureInv
<1>1. CASE cap!net_init
  <2>1. wild' <=> wild \/ enx # "up"
    BY <1>1, <1>0 DEF cap!net_init, ScalarType
  <2> QED
    BY <1>1, <1>0, <2>1 DEF cap!net_init, cap!dev_get_by_name, ScalarType
<1>2. CASE cap!net_cleanup
  BY <1>2 DEF cap!net_cleanup
<1>3. CASE cap!net_cleanup_done
  BY <1>3 DEF cap!net_cleanup_done, cap!dev_remove_pack
<1>4. CASE cap!plug
  BY <1>4 DEF cap!plug
<1>5. ASSUME NEW s \in Skbs, cap!ip_rcv(s) PROVE  WildcardInv'
  BY <1>5, HandledBuffers DEF cap!ip_rcv
<1>6. ASSUME NEW s \in Skbs, cap!packet_rcv(s) PROVE  WildcardInv'
  BY <1>6, HandledBuffers DEF cap!packet_rcv, cap!Received
<1>7. ASSUME NEW s \in Skbs, NEW i \in cap!Ifaces, NEW t \in Tags,
  cap!arrive(s, i, t) PROVE  WildcardInv'
  <2>1. UNCHANGED <<dev, wild>>
    BY <1>7 DEF cap!arrive
  <2>2. \A x \in Skbs : skb'[x] # skb[x] =>
          skb'[x].on = i /\ ("packet_rcv" \in skb'[x].todo => dev \in {i, "any"})
    BY <1>7, ArrivedBuffers
  <2>3. ASSUME NEW x \in Skbs, "packet_rcv" \in skb'[x].todo, skb'[x].on = "other"
        PROVE  wild'
    BY <1>0, <2>1, <2>2, <2>3 DEF ScalarType
  <2> QED
    BY <2>1, <2>3
<1>8. CASE UNCHANGED capVars
  BY <1>8 DEF capVars
<1> QED
  BY <1>1, <1>2, <1>3, <1>4, <1>5, <1>6, <1>7, <1>8 DEF cap!Next

(* The log has a line for such a packet only then.                         *)
LEMMA LogStep == CaptureInv /\ [cap!Next]_capVars => cap!CapturesOnInterface'
<1> SUFFICES ASSUME CaptureInv, [cap!Next]_capVars PROVE  cap!CapturesOnInterface'
  OBVIOUS
<1> USE DEF CaptureInv, WildcardInv, cap!CapturesOnInterface
<1>1. CASE cap!net_init
  <2>1. ScalarType
    BY CaptureTypeParts
  <2>2. wild' <=> wild \/ enx # "up"
    BY <1>1, <2>1 DEF cap!net_init, ScalarType
  <2> QED
    BY <1>1, <2>2 DEF cap!net_init
<1>2. CASE cap!net_cleanup
  BY <1>2 DEF cap!net_cleanup
<1>3. CASE cap!net_cleanup_done
  BY <1>3 DEF cap!net_cleanup_done, cap!dev_remove_pack
<1>4. CASE cap!plug
  BY <1>4 DEF cap!plug
<1>5. ASSUME NEW s \in Skbs, cap!ip_rcv(s) PROVE  cap!CapturesOnInterface'
  BY <1>5 DEF cap!ip_rcv
<1>6. ASSUME NEW s \in Skbs, cap!packet_rcv(s) PROVE  cap!CapturesOnInterface'
  <2>1. logged'.on = skb[s].on /\ "packet_rcv" \in skb[s].todo /\ UNCHANGED wild
    BY <1>6 DEF cap!packet_rcv
  <2> QED
    BY <2>1
<1>7. ASSUME NEW s \in Skbs, NEW i \in cap!Ifaces, NEW t \in Tags,
  cap!arrive(s, i, t) PROVE  cap!CapturesOnInterface'
  BY <1>7 DEF cap!arrive
<1>8. CASE UNCHANGED capVars
  BY <1>8 DEF capVars
<1> QED
  BY <1>1, <1>2, <1>3, <1>4, <1>5, <1>6, <1>7, <1>8 DEF cap!Next

(* Every buffer keeps one reference per handler that has yet to run.       *)
LEMMA ReferenceStep == CaptureInv /\ [cap!Next]_capVars => cap!RefPerHandler'
<1> SUFFICES ASSUME CaptureInv, [cap!Next]_capVars PROVE  cap!RefPerHandler'
  OBVIOUS
<1> USE DEF CaptureInv, cap!RefPerHandler
<1>1. CASE cap!net_init
  BY <1>1 DEF cap!net_init, cap!Held, cap!dev_get_by_name
<1>2. CASE cap!net_cleanup
  BY <1>2 DEF cap!net_cleanup
<1>3. CASE cap!net_cleanup_done
  BY <1>3 DEF cap!net_cleanup_done, cap!dev_remove_pack
<1>4. CASE cap!plug
  BY <1>4 DEF cap!plug
<1>5. ASSUME NEW s \in Skbs, cap!ip_rcv(s) PROVE  cap!RefPerHandler'
  BY <1>5, HandledBuffers DEF cap!ip_rcv
<1>6. ASSUME NEW s \in Skbs, cap!packet_rcv(s) PROVE  cap!RefPerHandler'
  BY <1>6, HandledBuffers DEF cap!packet_rcv, cap!Received
<1>7. ASSUME NEW s \in Skbs, NEW i \in cap!Ifaces, NEW t \in Tags,
  cap!arrive(s, i, t) PROVE  cap!RefPerHandler'
  BY <1>7, ArrivedBuffers DEF cap!arrive, cap!Ifaces
<1>8. CASE UNCHANGED capVars
  BY <1>8 DEF capVars
<1> QED
  BY <1>1, <1>2, <1>3, <1>4, <1>5, <1>6, <1>7, <1>8 DEF cap!Next

(* No step touches freed code or memory.                                   *)
LEMMA UseStep == CaptureInv /\ [cap!Next]_capVars => cap!NoUseAfterFree'
<1> SUFFICES ASSUME CaptureInv, [cap!Next]_capVars PROVE  cap!NoUseAfterFree'
  OBVIOUS
<1> USE DEF CaptureInv, cap!NoUseAfterFree
<1>1. CASE cap!net_init
  BY <1>1 DEF cap!net_init, cap!Held, cap!dev_get_by_name
<1>2. CASE cap!net_cleanup
  BY <1>2 DEF cap!net_cleanup
<1>3. CASE cap!net_cleanup_done
  BY <1>3 DEF cap!net_cleanup_done, cap!dev_remove_pack
<1>4. CASE cap!plug
  BY <1>4 DEF cap!plug
<1>5. ASSUME NEW s \in Skbs, cap!ip_rcv(s) PROVE  cap!NoUseAfterFree'
  <2>1. skb[s].users # 0
    BY <1>5, Referenced DEF cap!ip_rcv
  <2> QED
    BY <1>5, <2>1 DEF cap!ip_rcv
<1>6. ASSUME NEW s \in Skbs, cap!packet_rcv(s) PROVE  cap!NoUseAfterFree'
  <2>1. skb[s].users # 0 /\ module # "out"
    BY <1>6, Referenced DEF cap!packet_rcv, ListedInv
  <2> QED
    BY <1>6, <2>1 DEF cap!packet_rcv
<1>7. ASSUME NEW s \in Skbs, NEW i \in cap!Ifaces, NEW t \in Tags,
  cap!arrive(s, i, t) PROVE  cap!NoUseAfterFree'
  BY <1>7 DEF cap!arrive
<1>8. CASE UNCHANGED capVars
  BY <1>8 DEF capVars
<1> QED
  BY <1>1, <1>2, <1>3, <1>4, <1>5, <1>6, <1>7, <1>8 DEF cap!Next

(* The invariant holds at the start: no buffer is in use.                  *)
LEMMA CaptureInit == cap!Init => CaptureInv
<1> SUFFICES ASSUME cap!Init PROVE  CaptureInv
  OBVIOUS
<1>1. \A s \in Skbs : skb[s] = cap!Free
  BY DEF cap!Init
<1>2. cap!Free.users = 0 /\ cap!Free.todo = {} /\ cap!Free.on = "none"
  BY DEF cap!Free
<1>3. cap!TypeOK
  <2>1. ScalarType
    <3>1. wild \in BOOLEAN /\ cap_oops \in BOOLEAN
      BY DEF cap!Init
    <3> QED
      BY <3>1, CaptureAssumption DEF cap!Init, ScalarType
  <2>2. skb \in [Skbs -> Buffer] /\ logged \in Entry
    BY DEF cap!Init, Buffer, Entry
  <2> QED
    BY <2>1, <2>2, CaptureTypeParts
<1>4. cap!RefPerHandler
  BY <1>1, <1>2, HandlerCount DEF cap!RefPerHandler
<1>5. cap!NoUseAfterFree /\ cap!CapturesOnInterface
  BY DEF cap!Init, cap!NoUseAfterFree, cap!CapturesOnInterface, cap!NoLog
<1>6. ListedInv /\ InterfaceInv /\ WildcardInv
  BY <1>1, <1>2 DEF cap!Init, ListedInv, InterfaceInv, WildcardInv
<1> QED
  BY <1>3, <1>4, <1>5, <1>6 DEF CaptureInv

(* Every step keeps it.                                                    *)
LEMMA CaptureStep == CaptureInv /\ [cap!Next]_capVars => CaptureInv'
  BY CaptureTypeStep, ListedStep, InterfaceStep, WildcardStep, LogStep,
    ReferenceStep, UseStep DEF CaptureInv

-----------------------------------------------------------------------------
(* The sender.                                                             *)

(* Past SO_BINDTODEVICE the socket is bound: main exits when that fails.   *)
SenderInv ==
  /\ sender_pc \in {"copy", "sendto", "sleep"} => bound # 0
  /\ PrivateVlan

(* Every step of main and of the administrator keeps it.                   *)
LEMMA SenderStep == SenderInv /\ [vlan!Next]_senderVars => SenderInv'
<1> SUFFICES ASSUME SenderInv, [vlan!Next]_senderVars PROVE  SenderInv'
  OBVIOUS
<1> USE DEF SenderInv, PrivateVlan, vlan!PrivateVlan
<1>1. CASE vlan!main_gethostbyname
  BY <1>1 DEF vlan!main_gethostbyname
<1>2. CASE vlan!main_socket
  BY <1>2 DEF vlan!main_socket
<1>3. CASE vlan!main_setsockopt
  BY <1>3 DEF vlan!main_setsockopt, vlan!Unbound
<1>4. CASE vlan!main_copy
  BY <1>4 DEF vlan!main_copy
<1>5. CASE vlan!main_sendto
  BY <1>5 DEF vlan!main_sendto, vlan!Leaves
<1>6. CASE vlan!main_sleep
  BY <1>6 DEF vlan!main_sleep, vlan!Awake
<1>7. CASE vlan!Admin
  BY <1>7 DEF vlan!Admin
<1>8. CASE UNCHANGED senderVars
  BY <1>8 DEF senderVars
<1> QED
  BY <1>1, <1>2, <1>3, <1>4, <1>5, <1>6, <1>7, <1>8
    DEF vlan!Next, vlan!Main, vlan!Ended, vlan!vars, senderVars

-----------------------------------------------------------------------------
(* The three parts side by side.                                           *)
NetInv == FilterInv /\ CaptureInv /\ SenderInv

(* The invariants of the three parts hold in every state.                  *)
THEOREM Invariant == NetSpec => []NetInv
<1>1. NetInit => NetInv
  <2>1. vlan!Init => SenderInv
    BY DEF vlan!Init, SenderInv, PrivateVlan, vlan!PrivateVlan
  <2> QED
    BY <2>1, FilterInit, CaptureInit DEF NetInit, NetInv
<1>2. NetInv /\ [NetNext]_netVars => NetInv'
  <2> SUFFICES ASSUME NetInv, [NetNext]_netVars PROVE  NetInv'
    OBVIOUS
  <2>1. [Next]_vars /\ [cap!Next]_capVars /\ [vlan!Next]_senderVars
    BY DEF NetNext, netVars
  <2> QED
    BY <2>1, FilterStep, CaptureStep, SenderStep DEF NetInv
<1> QED
  BY <1>1, <1>2, PTL DEF NetSpec

(* Unloading the netfilter module takes back everything through which its  *)
(* code is entered, while any number of packets and a writer are inside;   *)
(* the kernel is harmed only after sysfs_create_file or nf_register_hook   *)
(* has failed (netfilter.c:78-81, 92-93, 98-102).                          *)
THEOREM FilterIsSafe == NetSpec => []FilterSafe
<1>1. FilterInv => CallbackInModule
  <2> SUFFICES ASSUME FilterInv, pc = "unloaded"
               PROVE  /\ hooks = {} /\ ~file /\ input = "none"
                      /\ \A p \in Packets : at[p] \notin Hooks
    BY DEF CallbackInModule
  <2> QED
    BY DEF FilterInv, SetupInv
<1>2. NetInv => FilterSafe
  BY <1>1 DEF NetInv, FilterInv, FailureInv, FilterSafe
<1> QED
  BY <1>2, Invariant, PTL

(* While both hooks could be registered, a packet passes only if it was on *)
(* its way at a time when communication was not disabled, whatever is      *)
(* written while it is inside a hook (netfilter.c:28, 36-43).              *)
THEOREM DisablingIsFirm == NetSpec => []DisableIsFirm
<1>1. NetInv => DisableIsFirm
  BY DEF NetInv, FilterInv, AllowedInv
<1> QED
  BY <1>1, Invariant, PTL

(* Every buffer has one reference per handler to run, none is touched once *)
(* it is freed, packet_rcv never runs in a module that is gone, the filter *)
(* never names an interface that has gone, and packets of another one are  *)
(* captured only after a load that found none (netcapture.c:63, 84-105).   *)
THEOREM CaptureIsSafe == NetSpec => []CaptureSafe
<1>1. CaptureInv => cap!DevAlive
  BY DEF CaptureInv, InterfaceInv, cap!DevAlive
<1>2. NetInv => CaptureSafe
  BY <1>1 DEF NetInv, CaptureInv, CaptureSafe
<1> QED
  BY <1>2, Invariant, PTL

(* No packet of the sender leaves otherwise than through vlan100, whatever *)
(* fails and however often vlan100 is deleted and created                  *)
(* (vlan_packet.c:31).                                                     *)
THEOREM VlanIsPrivate == NetSpec => []PrivateVlan
<1>1. NetInv => PrivateVlan
  BY DEF NetInv, SenderInv
<1> QED
  BY <1>1, Invariant, PTL
=============================================================================
