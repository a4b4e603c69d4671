-------------------------------- MODULE Epm --------------------------------
(***************************************************************************)
(* The character driver src/lkml/char-drv/epm.c: loading, unloading and    *)
(* the users that sleep in its open.  The kernel (device numbers, classes, *)
(* the SPI bus, module references) is external.  What a load registered    *)
(* and nobody took back when its module went is stale: it points into      *)
(* freed memory.                                                           *)
(***************************************************************************)
EXTENDS Integers

CONSTANTS
  Users,       \* processes that open the node
  Faults       \* which calls may fail

VARIABLES
  phase,       \* of the module: "out", "coming" (in epm_init) or "live"
  ret,         \* what epm_cdev_init returned
  objs,        \* what the present load has registered or allocated
  stale,       \* what earlier ones left
  user,        \* "idle", "opening", "open", or "lost" when the code is gone
  oops,        \* why the kernel is in an undefined state, if it is
  trouble      \* history: "class_create" or "load" has failed

vars == <<phase, ret, objs, stale, user, oops, trouble>>

Objects == {"region", "class", "drv", "cdev", "node", "spi"}
Runs == oops = "none"
Idle == \A u \in Users : user[u] \in {"idle", "lost"}
Lost == [u \in Users |-> IF user[u] = "idle" THEN "idle" ELSE "lost"]

Init ==
  /\ phase = "out" /\ ret = 0 /\ objs = {} /\ stale = {}
  /\ user = [u \in Users |-> "idle"] /\ oops = "none" /\ trouble = {}

-----------------------------------------------------------------------------
(* epm_class: the name may be taken; nobody looks at the result.           *)
Classes ==
  {c \in {{"class"}, {}} : IF c = {} THEN "class" \in stale \/ "class_create" \in Faults
                           ELSE "class" \notin stale}

(* device_create makes the node in a class that exists.                    *)
Node(class) == IF class = {} THEN {} ELSE {"node"}

(* What epm_cdev_init returns when there is no memory.                     *)
NoMemory == -1

(* Where epm_cdev_init may stop, what it returns and leaves.               *)
Outcomes(class) ==
  {[at |-> "alloc_chrdev_region", ret |-> -1, objs |-> {}],
   [at |-> "kmalloc", ret |-> NoMemory, objs |-> {"region"} \cup class],
   [at |-> "cdev_add", ret |-> 1, objs |-> {"region", "drv"} \cup class],
   [at |-> "end", ret |-> 0, objs |-> {"region", "drv", "cdev"} \cup class \cup Node(class)]}

(* epm_init up to its test of that result.  The node, by which users come  *)
(* in, is made last, so this is one step.                                  *)
Fatal(r) == r = -1

epm_init_cdev ==
  /\ Runs /\ phase = "out"
  /\ \E c \in Classes : \E o \in Outcomes(c) :
       /\ o.at \in Faults \cup {"end"} /\ ret' = o.ret
       /\ IF Fatal(o.ret)
          THEN stale' = stale \cup o.objs /\ UNCHANGED <<phase, objs>>
          ELSE phase' = "coming" /\ objs' = o.objs /\ UNCHANGED stale
       /\ trouble' = trouble \cup (IF c = {} THEN {"class_create"} ELSE {})
                             \cup (IF Fatal(o.ret) THEN {"load"} ELSE {})
  /\ UNCHANGED <<user, oops>>

(* The rest of epm_init: a driver of that name may be registered already.  *)
(* The kernel frees a module whose init fails, users or not.               *)
epm_init_spi ==
  /\ Runs /\ phase = "coming"
  /\ \/ /\ "spi" \notin stale
        /\ phase' = "live" /\ objs' = objs \cup {"spi"}
        /\ UNCHANGED <<stale, user, trouble>>
     \/ /\ "spi" \in stale \/ "spi_register_driver" \in Faults
        /\ phase' = "out" /\ objs' = {} /\ stale' = stale \cup objs
        /\ user' = Lost /\ trouble' = trouble \cup {"load"}
  /\ UNCHANGED <<ret, oops>>

(* fops.owner and dev.owner: an open file keeps the module.                *)
Pins_mutant_no_owner == FALSE
Pins == TRUE

(* What epm_exit takes back.                                               *)
Released_mutant_no_node == {"region", "class", "cdev"}
Released == {"region", "class", "cdev", "node"}

(* epm_exit.  device_destroy looks into the class it is given.             *)
epm_exit ==
  /\ Runs /\ phase = "live" /\ (Pins => Idle)
  /\ phase' = "out" /\ objs' = {} /\ stale' = stale \cup (objs \ Released)
  /\ user' = Lost
  /\ oops' = IF "class" \in objs THEN "none" ELSE "class"
  /\ UNCHANGED <<ret, trouble>>

-----------------------------------------------------------------------------
(* Users.  generic_open sleeps for five seconds.                           *)
open(u) ==
  /\ Runs /\ user[u] = "idle"
  /\ \/ "node" \in stale /\ oops' = "code" /\ UNCHANGED user
     \/ "node" \in objs /\ user' = [user EXCEPT ![u] = "opening"] /\ UNCHANGED oops
  /\ UNCHANGED <<phase, ret, objs, stale, trouble>>

GoesOn(u, from, to) ==
  /\ Runs
  /\ \/ user[u] = from /\ user' = [user EXCEPT ![u] = to] /\ UNCHANGED oops
     \/ user[u] = "lost" /\ oops' = "code" /\ UNCHANGED user
  /\ UNCHANGED <<phase, ret, objs, stale, trouble>>

generic_open(u)    == GoesOn(u, "opening", "open")
generic_release(u) == GoesOn(u, "open", "idle")

(* A device appears on the SPI bus, which asks every driver about it.  To  *)
(* a live one epm_probe and epm_remove only say yes.                       *)
spi_match ==
  /\ Runs /\ "spi" \in stale
  /\ oops' = "spi"
  /\ UNCHANGED <<phase, ret, objs, stale, user, trouble>>

Oopsed == ~Runs /\ UNCHANGED vars

Next ==
  \/ epm_init_cdev \/ epm_init_spi \/ epm_exit \/ spi_match \/ Oopsed
  \/ \E u \in Users : open(u) \/ generic_open(u) \/ generic_release(u)

Spec == Init /\ [][Next]_vars

-----------------------------------------------------------------------------
(* Properties.                                                             *)

(* Every variable has its type.                                            *)
TypeOK ==
  /\ phase \in {"out", "coming", "live"} /\ ret \in {-1, 0, 1}
  /\ objs \subseteq Objects /\ stale \subseteq Objects
  /\ user \in [Users -> {"idle", "opening", "open", "lost"}]
  /\ oops \in {"none", "code", "class", "spi"}
  /\ trouble \subseteq {"class_create", "load"}

(* Nobody runs code that is gone, even one that sleeps in open while the   *)
(* module is to be unloaded, unless a load has failed: a user may come in  *)
(* while epm_init still runs (epm.c:38, 76, 79-85, 116).                   *)
CodeStays == oops = "code" \/ (\E u \in Users : user[u] = "lost") => "load" \in trouble

(* Loads and unloads with no failure leave only the SPI driver and the     *)
(* memory of epm_drv behind (epm.c:130-133).                               *)
CharDevReturned == "load" \notin trouble => stale \subseteq {"spi", "drv"}
=============================================================================
