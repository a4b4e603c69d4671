----------------------------- MODULE CustomBus -----------------------------
(***************************************************************************)
(* The custom bus, its devices and its driver: src/lkml/ldm.  Three kinds  *)
(* of modules meet: the bus (bus/custom_device.c), the driver (driver/     *)
(* custom_driver.c) and clients that register devices by the functions the *)
(* bus exports.  The driver core is external: registering a device or a    *)
(* driver first lists it on the bus and then looks through what is listed  *)
(* on the other side, so that the two interleave; root may bind and unbind *)
(* through sysfs.  The bus's drivers_autoprobe stays on.  A name is a      *)
(* sequence of parts.                                                      *)
(***************************************************************************)
EXTENDS Naturals, Sequences, SequencesExt

CONSTANTS
  Names,       \* names of the devices: that of cus_dev and those of clients
  Faults       \* which registrations may fail

cus_dev   == <<"Custom-Device", "1">>
driver_id == <<"Custom-Device", "1">>

VARIABLES
  bus,         \* the bus module is loaded
  objs,        \* "bus" and "parent" when registered
  dev,         \* each device: "out", "listed" or "in"
  drv,         \* the driver: "out", "listed", "in" or "leaving"
  todo,        \* devices it has yet to look at, or to let go
  bound,       \* devices bound to it
  unbound      \* history: devices root took from it, not probed since

vars == <<bus, objs, dev, drv, todo, bound, unbound>>

Registered == {n \in Names : dev[n] # "out"}

Init ==
  /\ bus = FALSE /\ objs = {} /\ dev = [n \in Names |-> "out"]
  /\ drv = "out" /\ todo = {} /\ bound = {} /\ unbound = {}

-----------------------------------------------------------------------------
(* The bus module.  Nobody can use it before it is loaded: one step.       *)

(* What is registered when each call of custom_bus_init fails, and what    *)
(* the error path takes back.                                              *)
Built(call) ==
  CASE call = "bus_register" -> {} [] call = "custom_bus_parent" -> {"bus"}
    [] call = "cus_dev" -> {"bus", "parent"}
Undone_mutant_bus(call) == {"bus"}
Undone(call) ==
  (IF call = "cus_dev" THEN {"parent"} ELSE {})
    \cup (IF call = "bus_register" THEN {} ELSE {"bus"})

custom_bus_init ==
  /\ ~bus
  /\ \/ /\ bus' = TRUE /\ objs' = {"bus", "parent"}
        /\ dev' = [dev EXCEPT ![cus_dev] = "in"]
     \/ /\ \E call \in Faults \ {"driver_register"} : objs' = Built(call) \ Undone(call)
        /\ UNCHANGED <<bus, dev>>
  /\ UNCHANGED <<drv, todo, bound, unbound>>

(* Modules that use a symbol of the bus keep it: the driver refers to      *)
(* custom_bus_type, a client to custom_register_device.                    *)
Used == drv # "out" \/ Registered # {cus_dev}

(* The devices after custom_bus_exit has unregistered its own.             *)
Own_gone_mutant_kept == dev
Own_gone == [dev EXCEPT ![cus_dev] = "out"]

custom_bus_exit ==
  /\ bus /\ ~Used
  /\ bus' = FALSE /\ objs' = {}
  /\ dev' = Own_gone /\ bound' = bound \ {cus_dev}
  /\ UNCHANGED <<drv, todo, unbound>>

(* strncmp over the length of the driver's name.                           *)
custom_match_mutant_device_length(n) == IsPrefix(n, driver_id)
custom_match(n) == IsPrefix(driver_id, n)

(* The bus's custom_probe binds, whatever the driver's custom_probe says.  *)
custom_probe(n) ==
  /\ bound' = IF custom_match(n) THEN bound \cup {n} ELSE bound
  /\ unbound' = unbound \ {n}

-----------------------------------------------------------------------------
(* A client registers a device; a name that is taken is refused.           *)
custom_register_device(n) ==
  /\ bus /\ n # cus_dev /\ dev[n] = "out"
  /\ dev' = [dev EXCEPT ![n] = "listed"]
  /\ UNCHANGED <<bus, objs, drv, todo, bound, unbound>>

bus_probe_device(n) ==
  /\ dev[n] = "listed"
  /\ dev' = [dev EXCEPT ![n] = "in"]
  /\ IF drv \in {"listed", "in"} THEN custom_probe(n) ELSE UNCHANGED <<bound, unbound>>
  /\ UNCHANGED <<bus, objs, drv, todo>>

(* No remove is called: neither the bus nor the device_driver has one.     *)
custom_unregister_device(n) ==
  /\ n # cus_dev /\ dev[n] = "in"
  /\ dev' = [dev EXCEPT ![n] = "out"]
  /\ bound' = bound \ {n} /\ todo' = todo \ {n} /\ unbound' = unbound \ {n}
  /\ UNCHANGED <<bus, objs, drv>>

-----------------------------------------------------------------------------
(* The driver module: custom_driver_init and custom_driver_exit.           *)
custom_driver_init ==
  /\ bus /\ drv = "out"
  /\ \/ drv' = "listed" /\ todo' = Registered
     \/ "driver_register" \in Faults /\ UNCHANGED <<drv, todo>>
  /\ UNCHANGED <<bus, objs, dev, bound, unbound>>

driver_attach(n) ==
  /\ drv = "listed" /\ n \in todo
  /\ todo' = todo \ {n} /\ custom_probe(n)
  /\ UNCHANGED <<bus, objs, dev, drv>>

(* driver_unregister takes the driver off the bus, then lets go.           *)
custom_driver_exit ==
  /\ drv = "in"
  /\ drv' = "leaving" /\ todo' = bound /\ unbound' = {}
  /\ UNCHANGED <<bus, objs, dev, bound>>

driver_detach(n) ==
  /\ drv = "leaving" /\ n \in todo
  /\ todo' = todo \ {n} /\ bound' = bound \ {n}
  /\ UNCHANGED <<bus, objs, dev, drv, unbound>>

driver_done ==
  /\ drv \in {"listed", "leaving"} /\ todo = {}
  /\ drv' = IF drv = "listed" THEN "in" ELSE "out"
  /\ UNCHANGED <<bus, objs, dev, todo, bound, unbound>>

-----------------------------------------------------------------------------
(* Root writes a name to the driver's bind file, which is there once the   *)
(* driver is in, or to the bus's drivers_probe.                            *)
bind(n) ==
  /\ drv \in {"listed", "in"} /\ dev[n] # "out" /\ n \notin bound
  /\ custom_probe(n)
  /\ UNCHANGED <<bus, objs, dev, drv, todo>>

(* Root writes it to the driver's unbind file.                             *)
unbind(n) ==
  /\ drv = "in" /\ n \in bound
  /\ bound' = bound \ {n} /\ unbound' = unbound \cup {n}
  /\ UNCHANGED <<bus, objs, dev, drv, todo>>

Next ==
  \/ custom_bus_init \/ custom_bus_exit
  \/ custom_driver_init \/ custom_driver_exit \/ driver_done
  \/ \E n \in Names :
       \/ custom_register_device(n) \/ bus_probe_device(n) \/ custom_unregister_device(n)
       \/ driver_attach(n) \/ driver_detach(n) \/ bind(n) \/ unbind(n)

Spec == Init /\ [][Next]_vars

-----------------------------------------------------------------------------
(* Properties.                                                             *)

(* Every variable has its type.                                            *)
TypeOK ==
  /\ bus \in BOOLEAN /\ objs \subseteq {"bus", "parent"}
  /\ dev \in [Names -> {"out", "listed", "in"}]
  /\ drv \in {"out", "listed", "in", "leaving"}
  /\ todo \subseteq Registered /\ bound \subseteq Registered
  /\ unbound \subseteq Registered

(* The bus and the parent device are registered exactly while the module   *)
(* is loaded: a load that fails half way takes back what it did (custom_   *)
(* device.c:141-165).                                                      *)
Unwound == objs = IF bus THEN {"bus", "parent"} ELSE {}

(* Whoever is on the bus, a device or a driver on its way in or out,       *)
(* still has a bus (custom_device.c:169-175, custom_driver.c:11).          *)
UsersHaveBus == Registered # {} \/ drv # "out" => objs = {"bus", "parent"}

(* However registrations of devices and of the driver, and writes to       *)
(* sysfs, interleave, once both are done a device is bound if and only if  *)
(* its name begins with the driver's and root has not unbound it since its *)
(* last probe, and none is bound to a driver that is gone (custom_device.c:*)
(* 34-57; README.md: the driver's probe is reached from either side).      *)
StartsWith(n, m) == Len(n) >= Len(m) /\ \A i \in 1 .. Len(m) : n[i] = m[i]
BoundExactly ==
  /\ \A n \in Names :
       drv = "in" /\ dev[n] = "in" =>
         (n \in bound <=> StartsWith(n, driver_id) /\ n \notin unbound)
  /\ drv = "out" => bound = {}
=============================================================================
