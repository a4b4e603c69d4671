------------------------------ MODULE MmapApp ------------------------------
(***************************************************************************)
(* The test program src/lkml/mmap-app/drv.c on the driver of SomMmap: some *)
(* processes run it, others use the driver as they please, while the       *)
(* module is loaded and unloaded.  It looks at no result.  Process p has   *)
(* the file p and, if it runs the program, the mapping p.  "unmap" (line   *)
(* 18), which no library has, is read as munmap.                           *)
(***************************************************************************)
EXTENDS SomMmap

ASSUME ProcessAssumption == Vmas = Files

VARIABLES
  programs,    \* the processes that run the program: never changes
  pc,          \* the next call of each process
  rdBuf        \* what each has read

appVars == <<vars, programs, pc, rdBuf>>

At(p, here) == pc[p] = here /\ Runs
Goto(p, there) == pc' = [pc EXCEPT ![p] = there]

AppInit ==
  /\ Init /\ programs \in SUBSET Files
  /\ pc = [p \in Files |-> "end"] /\ rdBuf = [p \in Files |-> "nothing"]

start(p) ==
  /\ At(p, "end") /\ Goto(p, "open")
  /\ rdBuf' = [rdBuf EXCEPT ![p] = "nothing"] /\ UNCHANGED vars

(* Mutant: the program may leave between open and mmap.                    *)
main_open_mutant_leaves(p) ==
  /\ At(p, "open") /\ (Goto(p, "mmap") \/ (Node /\ Goto(p, "close")))
  /\ IF Node THEN som_open(p) ELSE UNCHANGED vars
  /\ UNCHANGED rdBuf

(* A failed open is not looked at: the program goes on with -1.            *)
main_open(p) ==
  /\ At(p, "open") /\ Goto(p, "mmap")
  /\ IF Node THEN som_open(p) ELSE UNCHANGED vars
  /\ UNCHANGED rdBuf

(* The kernel may refuse a mapping, for want of memory, before it calls    *)
(* the driver.                                                             *)
Refused ==
  /\ Runs /\ "mmap" \in Faults
  /\ misuse' = misuse \cup {"refused"}
  /\ UNCHANGED <<loadVars, heapVars, fileVars, oops, mapper>>

main_mmap(p) ==
  /\ At(p, "mmap") /\ Goto(p, "memcpy")
  /\ IF p \in fd THEN som_mmap_fn(p, p) \/ Refused ELSE UNCHANGED vars
  /\ UNCHANGED rdBuf

(* Reading MAP_FAILED ends the process, and the kernel closes its file.    *)
main_memcpy(p) ==
  /\ At(p, "memcpy")
  /\ \/ /\ vma[p] # NoVma
        /\ Goto(p, "munmap") /\ UNCHANGED vars
        /\ rdBuf' = [rdBuf EXCEPT ![p] = text[vma[p].block]]
     \/ /\ vma[p] = NoVma
        /\ Goto(p, "end") /\ UNCHANGED rdBuf
        /\ IF p \in fd THEN close(p) ELSE UNCHANGED vars

main_munmap(p) == At(p, "munmap") /\ Goto(p, "close") /\ munmap(p) /\ UNCHANGED rdBuf
main_close(p)  == At(p, "close") /\ Goto(p, "end") /\ close(p) /\ UNCHANGED rdBuf

Main(p) == main_open(p) \/ main_mmap(p) \/ main_memcpy(p) \/ main_munmap(p) \/ main_close(p)

Kernel == char_init \/ char_cleanup \/ (\E b \in Blocks : other_alloc(b)) \/ Oopsed

(* The other users make any call the driver offers, in any order.          *)
AnyCall(f) ==
  \/ som_open(f) \/ close(f)
  \/ \E v \in Vmas \ programs : som_mmap_fn(f, v) \/ (vma[v].file = f /\ munmap(v))

AppNext ==
  /\ \/ \E p \in programs : start(p) \/ Main(p)
     \/ (Kernel \/ \E f \in Files \ programs : AnyCall(f)) /\ UNCHANGED <<pc, rdBuf>>
  /\ UNCHANGED programs

AppSpec == AppInit /\ [][AppNext]_appVars

-----------------------------------------------------------------------------
(* Properties.                                                             *)

(* The program prints the driver's greeting, whatever others have done     *)
(* before it, unless one of them has the driver open too: char-drv.c:46    *)
(* then frees the memory it reads.                                         *)
ReadsHello == \A p \in Files : rdBuf[p] = "junk" => "overlap" \in misuse

(* On a machine on which only the program is run, one instance at a time,  *)
(* no block is freed twice, whatever the driver's own calls return: it     *)
(* maps what it opens, and unmapping before closing leaves the one kfree   *)
(* to the release (drv.c:14-19, char-drv.c:46).  Only a mapping the kernel *)
(* refuses of itself lets som_release free what an earlier run has freed.  *)
AloneIsSafe ==
  oops = "kfree" /\ programs = Files => misuse \cap {"overlap", "refused"} # {}
=============================================================================
