------------------------------ MODULE SomMmap ------------------------------
(***************************************************************************)
(* The character driver with mmap, src/lkml/mmap/char-drv.c: one data      *)
(* pointer, set by every mmap and freed by every release.  The kernel's    *)
(* allocator, files and mappings are external: a mapping keeps its file    *)
(* open, and fops.owner keeps the module loaded while a file is.  The node *)
(* is made last and found first by users, so a load is one step.           *)
(***************************************************************************)
EXTENDS Naturals

CONSTANTS
  Files,       \* files the users may have open
  Vmas,        \* mappings they may have
  Blocks,      \* blocks of the allocator
  NULL,
  Faults       \* which calls may fail

ASSUME NullAssumption == NULL \notin Blocks \cup Files
ASSUME FaultsAssumption ==
  Faults \subseteq {"class_create", "alloc_chrdev_region", "cdev_add", "mmap", "kmalloc",
                   "remap"}

VARIABLES
  module,      \* "unloaded" or "loaded"
  left,        \* registrations that failed loads have left in the kernel
  class_desc,  \* what class_create returned: "class" or "error"
  data,        \* som_mmap_drv.data
  owner,       \* of each block: "free", "som" or "other"
  text,        \* what each block holds: "Hello" or "junk"
  fd,          \* files with an open descriptor
  vma,         \* the file and block of each mapping, or NULL
  oops,        \* why the kernel is in an undefined state, if it is
  mapper,      \* history: open files that have allocated a block
  misuse       \* history: "overlap", "again", "unmapped", "refused", and "load"
               \* when a call of chardev_init has failed

loadVars == <<module, left, class_desc>>
heapVars == <<data, owner, text>>
fileVars == <<fd, vma>>
history  == <<mapper, misuse>>
vars == <<loadVars, heapVars, fileVars, oops, history>>

NoVma     == [file |-> NULL, block |-> NULL]
Mapped(f) == \E v \in Vmas : vma[v].file = f
Open      == {f \in Files : f \in fd \/ Mapped(f)}
Runs      == oops = "none"

Init ==
  /\ module = "unloaded" /\ left = {} /\ class_desc = "class"
  /\ data = NULL /\ owner = [b \in Blocks |-> "free"]
  /\ text = [b \in Blocks |-> "junk"]
  /\ fd = {} /\ vma = [v \in Vmas |-> NoVma]
  /\ oops = "none" /\ mapper = {} /\ misuse = {}

-----------------------------------------------------------------------------
(* What a failing step of chardev_init has registered before it returns.   *)
Leftovers_mutant_node(call) == {"class", "region", "node"}
Leftovers(call) ==
  IF call = "cdev_add" THEN {"class", "region"} ELSE {"class"}

(* char_init and chardev_init.  class_create fails of itself, or when an   *)
(* earlier load has left the class; nobody looks, and no node is made.     *)
char_init ==
  /\ Runs /\ module = "unloaded"
  /\ data' = NULL
  /\ \E failed \in SUBSET (Faults \cap {"class_create"}), call \in Faults \cup {"none"} :
       /\ class_desc' = IF failed = {} /\ "class" \notin left THEN "class" ELSE "error"
       /\ \/ call = "none" /\ module' = "loaded" /\ UNCHANGED left
          \/ /\ call \in {"alloc_chrdev_region", "cdev_add"} /\ UNCHANGED module
             /\ left' = left \cup {r \in Leftovers(call) : r = "class" => failed = {}}
       /\ misuse' = IF failed = {} /\ call = "none" THEN misuse ELSE misuse \cup {"load"}
  /\ UNCHANGED <<owner, text, fileVars, oops, mapper>>

(* What char_cleanup does not take back of what a load registered.         *)
Forgotten_mutant_class == {"class"}
Forgotten == {}

(* char_cleanup: device_destroy looks into the class it is given.          *)
char_cleanup ==
  /\ Runs /\ module = "loaded" /\ Open = {}
  /\ oops' = IF class_desc = "error" THEN "class" ELSE "none"
  /\ module' = "unloaded"
  /\ left' = left \cup Forgotten
  /\ UNCHANGED <<class_desc, heapVars, fileVars, history>>

(* The node can be opened.                                                 *)
Node == module = "loaded" /\ class_desc = "class"

som_open(f) ==
  /\ Runs /\ Node /\ f \notin Open
  /\ fd' = fd \cup {f}
  /\ misuse' = misuse \cup IF Open = {} THEN {} ELSE {"overlap"}
  /\ UNCHANGED <<loadVars, heapVars, vma, oops, mapper>>

(* The allocator's view after kmalloc_array has given b to the driver.     *)
Allocated_mutant_replaces(b) ==
  [c \in Blocks |-> IF c = b THEN "som" ELSE IF c = data THEN "free" ELSE owner[c]]
Allocated(b) == [owner EXCEPT ![b] = "som"]

(* The memory after the greeting is copied into b.                         *)
Written_mutant_never(b) == text
Written(b) == [text EXCEPT ![b] = "Hello"]

(* som_mmap_fn.  After a failed allocation it writes to the NULL pointer.  *)
som_mmap_fn(f, v) ==
  /\ Runs /\ f \in fd /\ vma[v] = NoVma
  /\ \/ \E b \in {c \in Blocks : owner[c] = "free"} :
          /\ data' = b
          /\ owner' = Allocated(b)
          /\ text' = Written(b)
          /\ \/ vma' = [vma EXCEPT ![v] = [file |-> f, block |-> b]]
             \/ "remap" \in Faults /\ UNCHANGED vma
          /\ mapper' = mapper \cup {f}
          /\ misuse' = misuse \cup IF f \in mapper THEN {"again"} ELSE {}
          /\ UNCHANGED oops
     \/ /\ "kmalloc" \in Faults
        /\ oops' = "NULL pointer"
        /\ UNCHANGED <<heapVars, vma, history>>
  /\ UNCHANGED <<loadVars, fd>>

(* The allocator's view after kfree of the block of data.                  *)
Freed_mutant_kept == owner
Freed == [owner EXCEPT ![data] = "free"]

(* som_release, when nothing refers to the file any more.  kfree of a      *)
(* block that is free, or somebody else's by now, is where it ends.        *)
som_release(f) ==
  /\ IF data = NULL THEN UNCHANGED <<owner, oops>>
     ELSE IF owner[data] = "som"
     THEN owner' = Freed /\ UNCHANGED oops
     ELSE oops' = "kfree" /\ UNCHANGED owner
  /\ mapper' = mapper \ {f}
  /\ misuse' = misuse \cup IF f \in mapper THEN {} ELSE {"unmapped"}

Keep == UNCHANGED <<owner, oops, history>>

close(f) ==
  /\ Runs /\ f \in fd
  /\ fd' = fd \ {f}
  /\ IF Mapped(f) THEN Keep ELSE som_release(f)
  /\ UNCHANGED <<loadVars, data, text, vma>>

(* What som_mmap_close_fn does to the block besides logging.               *)
som_mmap_close_fn_mutant_frees(b) ==
  owner' = [owner EXCEPT ![b] = "free"] /\ UNCHANGED <<oops, history>>
som_mmap_close_fn(b) == Keep

(* munmap drops the mapping and with it, perhaps, the file.                *)
munmap(v) ==
  /\ Runs /\ vma[v] # NoVma
  /\ vma' = [vma EXCEPT ![v] = NoVma]
  /\ IF vma[v].file \in fd \/ \E w \in Vmas \ {v} : vma[w].file = vma[v].file
     THEN som_mmap_close_fn(vma[v].block)
     ELSE som_release(vma[v].file)
  /\ UNCHANGED <<loadVars, data, text, fd>>

(* The rest of the kernel allocates, writes and frees blocks.              *)
other_alloc(b) ==
  /\ Runs
  /\ \/ owner[b] = "free" /\ owner' = [owner EXCEPT ![b] = "other"]
     \/ owner[b] = "other" /\ owner' = [owner EXCEPT ![b] = "free"]
  /\ text' = [text EXCEPT ![b] = "junk"]
  /\ UNCHANGED <<loadVars, data, fileVars, oops, history>>

Oopsed == ~Runs /\ UNCHANGED vars

Next ==
  \/ char_init \/ char_cleanup
  \/ \E f \in Files : som_open(f) \/ close(f) \/ \E v \in Vmas : som_mmap_fn(f, v)
  \/ \E v \in Vmas : munmap(v)
  \/ \E b \in Blocks : other_alloc(b)
  \/ Oopsed

Spec == Init /\ [][Next]_vars

-----------------------------------------------------------------------------
(* Properties.                                                             *)

(* Every variable has its type.                                            *)
TypeOK ==
  /\ module \in {"unloaded", "loaded"} /\ left \subseteq {"class", "region"}
  /\ class_desc \in {"class", "error"} /\ data \in Blocks \cup {NULL}
  /\ owner \in [Blocks -> {"free", "som", "other"}]
  /\ text \in [Blocks -> {"Hello", "junk"}] /\ fd \subseteq Files
  /\ vma \in [Vmas -> [file : Files, block : Blocks] \cup {NoVma}]
  /\ oops \in {"none", "NULL pointer", "class", "kfree"}
  /\ mapper \subseteq Files
  /\ misuse \subseteq {"overlap", "again", "unmapped", "refused", "load"}

(* Users see only memory of the driver, as long as no two files are open   *)
(* at a time: the one pointer is freed by som_release, which a mapping     *)
(* delays (char-drv.c:46, 81-92).                                          *)
MappedIsOwned ==
  "overlap" \notin misuse =>
    \A v \in Vmas : vma[v] # NoVma => owner[vma[v].block] = "som"

(* Used as its test program uses it - one file at a time, mapped once and  *)
(* then closed - the driver owns at most the block of data, and that only  *)
(* while the file is open (char-drv.c:46, 81).                             *)
NoBlockLost ==
  misuse \subseteq {"load"} =>
    \A b \in Blocks : owner[b] = "som" => b = data /\ Open # {}

(* A block is freed twice, or under another owner, only after two files    *)
(* were open at a time or one was closed that had mapped nothing           *)
(* (char-drv.c:43-48).                                                     *)
FreedOnce == oops = "kfree" => misuse \cap {"overlap", "unmapped"} # {}

(* Unloading is harmless unless class_create has failed, in this load or   *)
(* because an earlier one failed half way and left the class (char-drv.c:  *)
(* 116-129, 153-156).                                                      *)
UnloadSafe == oops = "class" => "load" \in misuse
=============================================================================
