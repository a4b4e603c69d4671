----------------------------- MODULE NetCapture -----------------------------
(***************************************************************************)
(* The capture module, src/lkml/network/netcapture.c.  The network stack   *)
(* is external: it hands an arriving IP packet to its own handler and to   *)
(* every registered one, each with a reference of its own; an interface    *)
(* that is unplugged goes away when nobody holds a reference to it; and    *)
(* dev_remove_pack returns when no handler runs any more.                  *)
(***************************************************************************)
EXTENDS Naturals, FiniteSets

CONSTANTS
  Skbs,        \* packet buffers
  Tags,        \* 16-bit values of skb->vlan_tci, in host order as the stack keeps it
  MaxLoads     \* bound: how often the module is loaded

VARIABLES
  module,      \* "out", "in", or "leaving" while dev_remove_pack waits
  dev,         \* network_packet.dev: "enx", "any" (NULL), "none" if not listed
  enx,         \* the interface: "absent", "up" or "leaving"
  dev_refs,    \* references to it that dev_get_by_name took
  loads,
  skb,         \* each buffer: its interface, tag, references and handlers to run
  logged,      \* the last line packet_rcv wrote
  wild,        \* history: a load has found no interface
  oops         \* freed code, memory or interface was used

vars == <<module, dev, enx, dev_refs, loads, skb, logged, wild, oops>>

Free  == [on |-> "none", tci |-> 0, users |-> 0, todo |-> {}]
NoLog == [on |-> "none", tci |-> 0, id |-> 0]
Ifaces == {"enx", "other"}

Init ==
  /\ module = "out" /\ dev = "none" /\ enx \in {"absent", "up"} /\ dev_refs = 0
  /\ loads = 0 /\ skb = [s \in Skbs |-> Free] /\ logged = NoLog /\ wild = FALSE /\ oops = FALSE

-----------------------------------------------------------------------------
(* net_init: without the interface, the filter is the wildcard NULL.       *)
dev_get_by_name_mutant_wrong_name == "any"
dev_get_by_name == IF enx = "up" THEN "enx" ELSE "any"

(* References after net_init: the one it took is never put.                *)
Held_mutant_put == dev_refs
Held == IF enx = "up" THEN dev_refs + 1 ELSE dev_refs

net_init ==
  /\ module = "out" /\ loads < MaxLoads
  /\ module' = "in" /\ loads' = loads + 1
  /\ dev' = dev_get_by_name /\ dev_refs' = Held
  /\ wild' = (wild \/ enx # "up")
  /\ UNCHANGED <<enx, skb, logged, oops>>

net_cleanup ==
  /\ module = "in"
  /\ module' = "leaving" /\ dev' = "none"
  /\ UNCHANGED <<enx, dev_refs, loads, skb, logged, wild, oops>>

(* dev_remove_pack waits for the handlers that run.                        *)
dev_remove_pack_mutant_no_wait == TRUE
dev_remove_pack == \A s \in Skbs : "packet_rcv" \notin skb[s].todo

net_cleanup_done ==
  /\ module = "leaving" /\ dev_remove_pack
  /\ module' = "out"
  /\ UNCHANGED <<dev, enx, dev_refs, loads, skb, logged, wild, oops>>

-----------------------------------------------------------------------------
(* A packet with tag t arrives on i.                                       *)
Handlers(i) == {"ip_rcv"} \cup IF dev \in {i, "any"} THEN {"packet_rcv"} ELSE {}

arrive(s, i, t) ==
  /\ skb[s] = Free /\ (i = "enx" => enx = "up")
  /\ skb' = [skb EXCEPT ![s] = [on |-> i, tci |-> t, todo |-> Handlers(i),
                                users |-> Cardinality(Handlers(i))]]
  /\ UNCHANGED <<module, dev, enx, dev_refs, loads, logged, wild, oops>>

(* kfree_skb drops one reference, the last one frees the buffer.           *)
After(b, handler) ==
  IF b.users = 1 /\ b.todo = {handler} THEN Free
  ELSE [b EXCEPT !.users = @ - 1, !.todo = @ \ {handler}]

ip_rcv(s) ==
  /\ "ip_rcv" \in skb[s].todo
  /\ skb' = [skb EXCEPT ![s] = After(@, "ip_rcv")]
  /\ oops' = (oops \/ skb[s].users = 0)
  /\ UNCHANGED <<module, dev, enx, dev_refs, loads, logged, wild>>

(* ntohs on a little-endian machine, and the mask of packet_rcv.           *)
ntohs(x) == (x % 256) * 256 + x \div 256
vlan_id(tci) == ntohs(tci) % 4096

(* packet_rcv's own part of the buffer's life.                             *)
Received_mutant_not_freed(b) == [b EXCEPT !.todo = @ \ {"packet_rcv"}]
Received(b) == After(b, "packet_rcv")

packet_rcv(s) ==
  /\ "packet_rcv" \in skb[s].todo
  /\ logged' = [on |-> skb[s].on, tci |-> skb[s].tci, id |-> vlan_id(skb[s].tci)]
  /\ skb' = [skb EXCEPT ![s] = Received(@)]
  /\ oops' = (oops \/ module = "out" \/ skb[s].users = 0)
  /\ UNCHANGED <<module, dev, enx, dev_refs, loads, wild>>

(* The interface comes, is unplugged, and goes once nobody refers to it    *)
(* and its packets have been handled.                                      *)
plug ==
  /\ \/ enx = "absent" /\ enx' = "up"
     \/ enx = "up" /\ enx' = "leaving"
     \/ enx = "leaving" /\ enx' = "absent"
        /\ dev_refs = 0 /\ \A s \in Skbs : skb[s].on # "enx"
  /\ UNCHANGED <<module, dev, dev_refs, loads, skb, logged, wild, oops>>

Next ==
  \/ net_init \/ net_cleanup \/ net_cleanup_done \/ plug
  \/ \E s \in Skbs : ip_rcv(s) \/ packet_rcv(s) \/ \E i \in Ifaces, t \in Tags : arrive(s, i, t)

Spec == Init /\ [][Next]_vars

-----------------------------------------------------------------------------
(* Properties.                                                             *)

(* Every variable has its type.                                            *)
TypeOK ==
  /\ module \in {"out", "in", "leaving"} /\ dev \in {"none", "any", "enx"}
  /\ enx \in {"absent", "up", "leaving"} /\ loads \in 0 .. MaxLoads
  /\ dev_refs \in 0 .. loads /\ {wild, oops} \subseteq BOOLEAN
  /\ skb \in [Skbs -> [on : Ifaces, tci : Tags, users : 0 .. 2,
                       todo : SUBSET {"ip_rcv", "packet_rcv"}] \cup {Free}]
  /\ logged \in [on : Ifaces, tci : Tags, id : 0 .. 4095] \cup {NoLog}

(* packet_rcv never runs in a module that is gone, and neither handler     *)
(* touches a buffer that is freed (netcapture.c:63, 105).                  *)
NoUseAfterFree == ~oops

(* Every buffer has one reference per handler that has yet to run, so the  *)
(* last one frees it (netcapture.c:63).                                    *)
RefPerHandler == \A s \in Skbs : skb[s].users = Cardinality(skb[s].todo)

(* The filter never names an interface that has gone: the reference of     *)
(* dev_get_by_name, never dropped, keeps it (netcapture.c:86).             *)
DevAlive == dev = "enx" => enx # "absent"

(* Packets of another interface are captured only after a load that did    *)
(* not find the interface, and so has NULL, the wildcard, for its filter   *)
(* (netcapture.c:84-87).                                                   *)
CapturesOnInterface == logged.on = "other" => wild
=============================================================================
