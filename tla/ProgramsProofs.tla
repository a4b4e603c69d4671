--------------------------- MODULE ProgramsProofs ---------------------------
(***************************************************************************)
(* Proofs about the driver with mmap and its test program, for any number  *)
(* of processes, mappings and blocks and any choice of failures, and about *)
(* the DRM program, for any card of at most ten connectors.                *)
(*                                                                         *)
(* The driver frees the one pointer it has whenever a file goes.  That it  *)
(* is right to do so as long as files do not overlap is no single state's  *)
(* doing: DriverInv relates the files that are open, the ones among them   *)
(* that have allocated, the mappings, the pointer and the allocator's view *)
(* of the block it points to.                                              *)
(***************************************************************************)
EXTENDS MCPrograms, TLAPS

-----------------------------------------------------------------------------
(* The driver.                                                             *)

Region == [file : Files, block : Blocks]

IsOpen(f) == f \in fd \/ Mapped(f)

(* Failed loads explain what is left in the kernel and a class that could  *)
(* not be created.                                                         *)
LoadInv ==
  /\ left # {} \/ class_desc = "error" => "load" \in misuse
  /\ UnloadSafe

(* No file is open without the module, whoever has allocated is open, and  *)
(* two files are open only after an overlap.                               *)
OpenInv ==
  /\ module = "unloaded" => \A f \in Files : ~IsOpen(f)
  /\ \A f \in mapper : IsOpen(f)
  /\ "overlap" \notin misuse => \A f, g \in Files : IsOpen(f) /\ IsOpen(g) => f = g

(* Without overlap, the pointer is the driver's own block while the open   *)
(* file has allocated, and every mapping shows the greeting in a block of  *)
(* the driver.                                                             *)
HeapInv ==
  "overlap" \notin misuse =>
    /\ mapper # {} => data # NULL /\ owner[data] = "som"
    /\ \A v \in Vmas : vma[v] # NoVma =>
         owner[vma[v].block] = "som" /\ text[vma[v].block] = "Hello"

(* Used as intended, the driver has a block only for the open file.        *)
LostInv ==
  misuse \subseteq {"load"} =>
    \A b \in Blocks : owner[b] = "som" => b = data /\ mapper # {}

DriverInv == TypeOK /\ LoadInv /\ OpenInv /\ HeapInv /\ FreedOnce /\ LostInv

(* A mapping is of a file and a block, or there is none and no file.       *)
LEMMA VmaFields ==
  ASSUME TypeOK, NEW v \in Vmas
  PROVE  /\ vma[v] # NoVma => vma[v].file \in Files /\ vma[v].block \in Blocks
         /\ vma[v] = NoVma => vma[v].file = NULL
<1>1. vma[v] \in Region \cup {NoVma}
  BY DEF TypeOK, Region
<1>2. NoVma.file = NULL
  BY DEF NoVma
<1> QED
  BY <1>1, <1>2 DEF Region

(* A new mapping is one.                                                   *)
LEMMA NewVma ==
  ASSUME NEW f \in Files, NEW b \in Blocks
  PROVE  LET m == [file |-> f, block |-> b] IN
         m \in Region /\ m # NoVma /\ m.file = f /\ m.block = b
<1> DEFINE m == [file |-> f, block |-> b]
<1>1. m \in Region /\ m.file = f /\ m.block = b
  BY DEF Region
<1>2. NoVma.file = NULL /\ f # NULL
  BY NullAssumption DEF NoVma
<1> QED
  BY <1>1, <1>2

(* A file or a mapping goes, and others refer to the file: nothing else    *)
(* changes.                                                                *)
LEMMA KeepKeeps ==
  ASSUME DriverInv, Keep, UNCHANGED <<loadVars, data, text>>,
         fd' \subseteq fd, vma' \in [Vmas -> Region \cup {NoVma}],
         \A v \in Vmas : vma'[v] = vma[v] \/ vma'[v] = NoVma,
         \A g \in Files : IsOpen(g)' <=> IsOpen(g)
  PROVE  DriverInv'
<1> USE DEF DriverInv, Keep, loadVars, history
<1>1. TypeOK'
  BY DEF TypeOK, Region, NoVma
<1>2. LoadInv' /\ FreedOnce' /\ LostInv'
  BY DEF LoadInv, UnloadSafe, FreedOnce, LostInv
<1>3. OpenInv'
  <2>1. mapper \subseteq Files
    BY DEF TypeOK
  <2> HIDE DEF IsOpen
  <2> QED
    BY <2>1 DEF OpenInv
<1>4. HeapInv'
  BY DEF HeapInv
<1> QED
  BY <1>1, <1>2, <1>3, <1>4

(* The last reference to f goes, and som_release frees the block of data.  *)
(* Without overlap no mapping is left then, and if f has allocated, the    *)
(* block is the driver's own.                                              *)
LEMMA ReleaseKeeps ==
  ASSUME DriverInv, NEW f \in Files, som_release(f), IsOpen(f),
         UNCHANGED <<loadVars, data, text>>, Runs,
         fd' \subseteq fd, vma' \in [Vmas -> Region \cup {NoVma}],
         \A v \in Vmas : vma'[v] = vma[v] \/ vma'[v] = NoVma,
         \A g \in Files : IsOpen(g)' <=> IsOpen(g) /\ g # f
  PROVE  DriverInv'
<1> USE DEF loadVars
<1>1. /\ mapper' = mapper \ {f} /\ misuse \subseteq misuse'
      /\ misuse' \subseteq misuse \cup {"unmapped"}
      /\ f \notin mapper => "unmapped" \in misuse'
  BY DEF som_release
<1>2. TypeOK'
  <2>1. owner' \in [Blocks -> {"free", "som", "other"}]
    BY DEF som_release, Freed, DriverInv, TypeOK
  <2>2. oops' \in {"none", "NULL pointer", "class", "kfree"}
    BY DEF som_release, DriverInv, TypeOK
  <2>3. mapper' \subseteq Files
    BY <1>1 DEF DriverInv, TypeOK
  <2>4. misuse' \subseteq {"overlap", "again", "unmapped", "refused", "load"}
    BY <1>1 DEF DriverInv, TypeOK
  <2> QED
    BY <2>1, <2>2, <2>3, <2>4 DEF DriverInv, TypeOK, Region, NoVma
<1>3. LoadInv'
  BY <1>1 DEF som_release, Runs, DriverInv, LoadInv, UnloadSafe
<1>4. OpenInv'
  <2>1. mapper \subseteq Files
    BY DEF DriverInv, TypeOK
  <2> HIDE DEF IsOpen
  <2> QED
    BY <1>1, <2>1 DEF DriverInv, OpenInv
<1>5. ASSUME "overlap" \notin misuse
      PROVE  mapper' = {} /\ \A v \in Vmas : vma'[v] = NoVma
  <2>1. \A g \in Files : IsOpen(g) => g = f
    BY <1>5 DEF DriverInv, OpenInv
  <2>2. \A g \in mapper : IsOpen(g) /\ g \in Files
    BY DEF DriverInv, TypeOK, OpenInv
  <2>3. ASSUME NEW v \in Vmas, vma'[v] # NoVma PROVE  FALSE
    <3>1. vma'[v] = vma[v] /\ vma[v].file \in Files
      BY <2>3, VmaFields DEF DriverInv
    <3>2. IsOpen(vma[v].file)'
      BY <3>1 DEF IsOpen, Mapped
    <3> QED
      BY <2>1, <3>1, <3>2
  <2> QED
    BY <1>1, <2>1, <2>2, <2>3
<1>6. HeapInv'
  BY <1>1, <1>5 DEF HeapInv
<1>7. FreedOnce'
  <2> SUFFICES ASSUME oops' = "kfree", "overlap" \notin misuse, f \in mapper
               PROVE  FALSE
    BY <1>1 DEF FreedOnce
  <2>1. data # NULL /\ owner[data] = "som"
    BY DEF DriverInv, HeapInv
  <2> QED
    BY <2>1 DEF som_release, Runs
<1>8. LostInv'
  <2> SUFFICES ASSUME misuse' \subseteq {"load"}, NEW b \in Blocks, owner'[b] = "som"
               PROVE  FALSE
    BY DEF LostInv
  <2>1. misuse \subseteq {"load"} /\ "overlap" \notin misuse /\ f \in mapper
    BY <1>1
  <2>2. data # NULL /\ owner[data] = "som" /\ data \in Blocks
    BY <2>1 DEF DriverInv, HeapInv, TypeOK
  <2>3. owner' = [owner EXCEPT ![data] = "free"]
    BY <2>2 DEF som_release, Freed
  <2>4. owner[b] = "som" /\ b # data
    BY <2>2, <2>3 DEF DriverInv, TypeOK
  <2> QED
    BY <2>1, <2>4 DEF DriverInv, LostInv
<1> QED
  BY <1>2, <1>3, <1>4, <1>6, <1>7, <1>8 DEF DriverInv

(* What is open, by the two ways to say it.                                *)
LEMMA OpenIsIsOpen == \A f \in Files : f \in Open <=> IsOpen(f)
  BY DEF Open, IsOpen

(* While no file is open there is no mapping, and nobody has allocated.    *)
LEMMA NothingOpen ==
  ASSUME DriverInv, \A f \in Files : ~IsOpen(f)
  PROVE  mapper = {} /\ \A v \in Vmas : vma[v] = NoVma
<1>1. mapper = {}
  BY DEF DriverInv, OpenInv, TypeOK
<1>2. ASSUME NEW v \in Vmas, vma[v] # NoVma PROVE  FALSE
  <2>1. vma[v].file \in Files
    BY <1>2, VmaFields DEF DriverInv
  <2> QED
    BY <2>1 DEF IsOpen, Mapped
<1> QED
  BY <1>1, <1>2

(* Before the module is loaded nothing is open or allocated.               *)
LEMMA DriverInit == Init => DriverInv
<1> SUFFICES ASSUME Init PROVE  DriverInv
  OBVIOUS
<1>1. \A v \in Vmas : vma[v] = NoVma /\ vma[v].file = NULL
  BY DEF Init, NoVma
<1>2. \A f \in Files : ~IsOpen(f)
  BY <1>1, NullAssumption DEF Init, IsOpen, Mapped
<1>3. TypeOK
  BY DEF Init, TypeOK
<1>4. LoadInv /\ FreedOnce /\ LostInv /\ HeapInv
  BY <1>1 DEF Init, LoadInv, UnloadSafe, FreedOnce, LostInv, HeapInv
<1>5. OpenInv
  BY <1>2 DEF Init, OpenInv
<1> QED
  BY <1>3, <1>4, <1>5 DEF DriverInv

(* A load finds no file open: it may reset the pointer.                    *)
LEMMA LoadKeeps == DriverInv /\ char_init => DriverInv'
<1> SUFFICES ASSUME DriverInv, char_init PROVE  DriverInv'
  OBVIOUS
<1>1. mapper = {} /\ \A v \in Vmas : vma[v] = NoVma
  BY NothingOpen DEF char_init, DriverInv, OpenInv
<1>2. /\ misuse \subseteq misuse' /\ misuse' \subseteq misuse \cup {"load"}
      /\ left' = left \/ "load" \in misuse'
      /\ left' \subseteq left \cup {"class", "region"}
  BY DEF char_init, Leftovers
<1>3. TypeOK'
  <2>1. module' \in {"unloaded", "loaded"} /\ class_desc' \in {"class", "error"}
    BY DEF char_init, DriverInv, TypeOK
  <2> QED
    BY <1>2, <2>1 DEF char_init, fileVars, DriverInv, TypeOK
<1>4. LoadInv'
  BY <1>2 DEF char_init, Runs, DriverInv, LoadInv, UnloadSafe
<1>5. OpenInv'
  BY <1>1, <1>2 DEF char_init, fileVars, DriverInv, OpenInv, IsOpen, Mapped
<1>6. HeapInv' /\ FreedOnce' /\ LostInv'
  BY <1>1, <1>2 DEF char_init, fileVars, Runs, DriverInv, HeapInv, FreedOnce, LostInv
<1> QED
  BY <1>3, <1>4, <1>5, <1>6 DEF DriverInv

(* char_cleanup.                                                           *)
LEMMA UnloadKeeps == DriverInv /\ char_cleanup => DriverInv'
<1> SUFFICES ASSUME DriverInv, char_cleanup PROVE  DriverInv'
  OBVIOUS
<1> USE DEF char_cleanup, heapVars, fileVars, history, Forgotten
<1>1. \A f \in Files : ~IsOpen(f)
  BY OpenIsIsOpen
<1>2. TypeOK'
  BY DEF DriverInv, TypeOK
<1>3. LoadInv' /\ FreedOnce' /\ LostInv' /\ HeapInv'
  BY DEF DriverInv, LoadInv, UnloadSafe, FreedOnce, LostInv, HeapInv
<1>4. OpenInv'
  BY <1>1 DEF DriverInv, OpenInv, IsOpen, Mapped
<1> QED
  BY <1>2, <1>3, <1>4 DEF DriverInv

(* som_open.                                                               *)
LEMMA OpenKeeps ==
  ASSUME DriverInv, NEW f \in Files, som_open(f) PROVE  DriverInv'
<1> USE DEF som_open, loadVars, heapVars
<1>1. \A g \in Files : IsOpen(g)' <=> IsOpen(g) \/ g = f
  BY DEF IsOpen, Mapped
<1>2. /\ misuse \subseteq misuse' /\ misuse' \subseteq misuse \cup {"overlap"}
      /\ "overlap" \notin misuse' => \A g \in Files : ~IsOpen(g)
  BY OpenIsIsOpen
<1>3. TypeOK'
  BY <1>2 DEF DriverInv, TypeOK
<1>4. LoadInv' /\ FreedOnce' /\ LostInv' /\ HeapInv'
  BY <1>2 DEF Runs, DriverInv, LoadInv, UnloadSafe, FreedOnce, LostInv, HeapInv
<1>5. OpenInv'
  <2>1. mapper \subseteq Files /\ module = "loaded"
    BY DEF DriverInv, TypeOK, Node
  <2> QED
    BY <1>1, <1>2, <2>1 DEF DriverInv, OpenInv
<1> QED
  BY <1>3, <1>4, <1>5 DEF DriverInv

(* A mapping takes a free block, which no mapping shows yet.  If the file  *)
(* has not mapped before and is alone, the driver has no other block.      *)
LEMMA MmapKeeps ==
  ASSUME DriverInv, NEW f \in Files, NEW v \in Vmas, som_mmap_fn(f, v)
  PROVE  DriverInv'
<1>1. CASE oops' = "NULL pointer" /\ UNCHANGED <<heapVars, vma, history>>
  <2> USE <1>1 DEF som_mmap_fn, loadVars, heapVars, history
  <2>1. TypeOK'
    BY DEF DriverInv, TypeOK
  <2>2. LoadInv' /\ FreedOnce' /\ LostInv' /\ HeapInv'
    BY DEF DriverInv, LoadInv, UnloadSafe, FreedOnce, LostInv, HeapInv
  <2>3. OpenInv'
    BY DEF DriverInv, OpenInv, IsOpen, Mapped
  <2> QED
    BY <2>1, <2>2, <2>3 DEF DriverInv
<1>2. ASSUME NEW b \in Blocks, owner[b] = "free", data' = b,
             owner' = Allocated(b), text' = Written(b),
             \/ vma' = [vma EXCEPT ![v] = [file |-> f, block |-> b]]
             \/ UNCHANGED vma,
             mapper' = mapper \cup {f},
             misuse' = misuse \cup IF f \in mapper THEN {"again"} ELSE {},
             UNCHANGED oops
      PROVE  DriverInv'
  <2>1. /\ Runs /\ f \in fd /\ vma[v] = NoVma /\ UNCHANGED <<module, left, class_desc, fd>>
    BY DEF som_mmap_fn, loadVars
  <2>2. /\ misuse \subseteq misuse' /\ misuse' \subseteq misuse \cup {"again"}
        /\ f \in mapper => "again" \in misuse'
    BY <1>2
  <2>3. /\ owner' \in [Blocks -> {"free", "som", "other"}] /\ owner'[b] = "som"
        /\ \A c \in Blocks \ {b} : owner'[c] = owner[c]
    BY <1>2 DEF Allocated, DriverInv, TypeOK
  <2>4. /\ text' \in [Blocks -> {"Hello", "junk"}] /\ text'[b] = "Hello"
        /\ \A c \in Blocks \ {b} : text'[c] = text[c]
    BY <1>2 DEF Written, DriverInv, TypeOK
  <2>5. /\ vma' \in [Vmas -> Region \cup {NoVma}]
        /\ \A w \in Vmas : \/ vma'[w] = vma[w]
                           \/ w = v /\ vma'[w] = [file |-> f, block |-> b]
    <3>1. vma \in [Vmas -> Region \cup {NoVma}]
      BY DEF DriverInv, TypeOK, Region
    <3>2. PICK m \in Region : m = [file |-> f, block |-> b]
      BY NewVma
    <3>3. vma' = [vma EXCEPT ![v] = m] \/ vma' = vma
      BY <1>2, <3>2
    <3> QED
      BY <3>1, <3>2, <3>3
  <2>6. \A g \in Files : IsOpen(g)' <=> IsOpen(g)
    <3>1. ASSUME NEW g \in Files, IsOpen(g)' PROVE  IsOpen(g)
      <4>1. CASE g \in fd
        BY <4>1 DEF IsOpen
      <4>2. ASSUME NEW w \in Vmas, vma'[w].file = g PROVE  IsOpen(g)
        BY <4>2, <2>1, <2>5, NewVma DEF IsOpen, Mapped
      <4> QED
        BY <3>1, <2>1, <4>1, <4>2 DEF IsOpen, Mapped
    <3>2. ASSUME NEW g \in Files, IsOpen(g) PROVE  IsOpen(g)'
      <4>1. CASE g \in fd
        BY <4>1, <2>1 DEF IsOpen
      <4>2. ASSUME NEW w \in Vmas, vma[w].file = g PROVE  IsOpen(g)'
        <5>1. NoVma.file = NULL /\ g # NULL
          BY NullAssumption DEF NoVma
        <5>2. w # v
          BY <5>1, <4>2, <2>1
        <5> QED
          BY <5>2, <4>2, <2>5 DEF IsOpen, Mapped
      <4> QED
        BY <3>2, <4>1, <4>2 DEF IsOpen, Mapped
    <3> QED
      BY <3>1, <3>2
  <2>7. TypeOK'
    BY <1>2, <2>1, <2>2, <2>3, <2>4, <2>5 DEF DriverInv, TypeOK, Region
  <2>8. LoadInv' /\ FreedOnce'
    BY <1>2, <2>1, <2>2 DEF DriverInv, LoadInv, UnloadSafe, FreedOnce
  <2>9. OpenInv'
    <3>1. mapper \subseteq Files /\ IsOpen(f)
      BY <2>1 DEF DriverInv, TypeOK, IsOpen
    <3> QED
      BY <1>2, <2>1, <2>2, <2>6, <3>1 DEF DriverInv, OpenInv
  <2>10. HeapInv'
    <3> SUFFICES ASSUME "overlap" \notin misuse'
                 PROVE  /\ data' # NULL /\ owner'[data'] = "som"
                        /\ \A w \in Vmas : vma'[w] # NoVma =>
                             owner'[vma'[w].block] = "som" /\ text'[vma'[w].block] = "Hello"
      BY DEF HeapInv
    <3>1. data' # NULL /\ owner'[data'] = "som"
      BY <1>2, <2>3, NullAssumption
    <3>2. ASSUME NEW w \in Vmas, vma'[w] # NoVma
          PROVE  owner'[vma'[w].block] = "som" /\ text'[vma'[w].block] = "Hello"
      <4>1. CASE vma'[w] = [file |-> f, block |-> b]
        BY <4>1, <2>3, <2>4, NewVma
      <4>2. CASE vma'[w] = vma[w]
        <5>1. vma[w].block \in Blocks
          BY <3>2, <4>2, VmaFields DEF DriverInv
        <5>2. owner[vma[w].block] = "som" /\ text[vma[w].block] = "Hello"
          BY <3>2, <4>2, <2>2 DEF DriverInv, HeapInv
        <5>3. vma[w].block # b
          BY <5>2, <1>2
        <5> QED
          BY <4>2, <5>1, <5>2, <5>3, <2>3, <2>4
      <4> QED
        BY <4>1, <4>2, <2>5
    <3> QED
      BY <3>1, <3>2
  <2>11. LostInv'
    <3> SUFFICES ASSUME misuse' \subseteq {"load"}, NEW c \in Blocks, owner'[c] = "som",
                        c # b
                 PROVE  FALSE
      BY <1>2 DEF LostInv
    <3>1. misuse \subseteq {"load"} /\ "overlap" \notin misuse /\ f \notin mapper
      BY <2>2
    <3>2. IsOpen(f)
      BY <2>1 DEF IsOpen
    <3>3. mapper = {}
      BY <3>1, <3>2 DEF DriverInv, OpenInv, TypeOK
    <3> QED
      BY <3>1, <3>3, <2>3 DEF DriverInv, LostInv
  <2> QED
    BY <2>7, <2>8, <2>9, <2>10, <2>11 DEF DriverInv
<1> QED
  BY <1>1, <1>2 DEF som_mmap_fn

(* close, which releases the file if no mapping keeps it.                  *)
LEMMA CloseKeeps == ASSUME DriverInv, NEW f \in Files, close(f) PROVE  DriverInv'
<1> USE DEF close
<1>1. fd' = fd \ {f} /\ vma' = vma /\ vma \in [Vmas -> Region \cup {NoVma}]
  BY DEF DriverInv, TypeOK, Region
<1>2. CASE Mapped(f)
  <2>1. \A g \in Files : IsOpen(g)' <=> IsOpen(g)
    BY <1>1, <1>2 DEF IsOpen, Mapped
  <2> QED
    BY <1>1, <1>2, <2>1, KeepKeeps
<1>3. CASE ~Mapped(f)
  <2>1. \A g \in Files : IsOpen(g)' <=> IsOpen(g) /\ g # f
    BY <1>1, <1>3 DEF IsOpen, Mapped
  <2>2. IsOpen(f)
    BY DEF IsOpen
  <2> QED
    BY <1>1, <1>3, <2>1, <2>2, ReleaseKeeps
<1> QED
  BY <1>2, <1>3

(* munmap, which releases the file if it was closed before.                *)
LEMMA MunmapKeeps == ASSUME DriverInv, NEW v \in Vmas, munmap(v) PROVE  DriverInv'
<1>0. PICK f \in Files : f = vma[v].file
  BY VmaFields DEF munmap, DriverInv
<1>1. /\ fd' = fd /\ vma' = [vma EXCEPT ![v] = NoVma]
      /\ vma \in [Vmas -> Region \cup {NoVma}]
  BY DEF munmap, DriverInv, TypeOK, Region
<1>2. /\ vma' \in [Vmas -> Region \cup {NoVma}] /\ vma'[v] = NoVma
      /\ \A w \in Vmas \ {v} : vma'[w] = vma[w]
  BY <1>1
<1>3. NoVma.file = NULL /\ NULL \notin Files
  BY NullAssumption DEF NoVma
<1>4. ASSUME NEW g \in Files
      PROVE  IsOpen(g)' <=> g \in fd \/ \E w \in Vmas \ {v} : vma[w].file = g
  BY <1>1, <1>2, <1>3 DEF IsOpen, Mapped
<1>5. IsOpen(f) /\ \A g \in Files \ {f} : IsOpen(g)' <=> IsOpen(g)
  BY <1>0, <1>4 DEF IsOpen, Mapped
<1>6. UNCHANGED <<loadVars, data, text>> /\ Runs
  BY DEF munmap
<1>7. CASE f \in fd \/ \E w \in Vmas \ {v} : vma[w].file = f
  <2>1. Keep
    BY <1>0, <1>7 DEF munmap, som_mmap_close_fn
  <2>2. \A g \in Files : IsOpen(g)' <=> IsOpen(g)
    BY <1>4, <1>5, <1>7
  <2> QED
    BY <1>1, <1>2, <1>6, <2>1, <2>2, KeepKeeps
<1>8. CASE ~(f \in fd \/ \E w \in Vmas \ {v} : vma[w].file = f)
  <2>1. som_release(f)
    BY <1>0, <1>8 DEF munmap
  <2>2. \A g \in Files : IsOpen(g)' <=> IsOpen(g) /\ g # f
    BY <1>4, <1>5, <1>8
  <2> QED
    BY <1>1, <1>2, <1>5, <1>6, <2>1, <2>2, ReleaseKeeps
<1> QED
  BY <1>7, <1>8

(* The rest of the kernel touches no block of the driver.                  *)
LEMMA OtherKeeps == ASSUME DriverInv, NEW b \in Blocks, other_alloc(b) PROVE  DriverInv'
<1> USE DEF other_alloc, loadVars, fileVars, history
<1>1. /\ owner[b] # "som" /\ owner' \in [Blocks -> {"free", "som", "other"}]
      /\ owner'[b] # "som" /\ \A c \in Blocks \ {b} : owner'[c] = owner[c]
  BY DEF DriverInv, TypeOK
<1>2. /\ text' \in [Blocks -> {"Hello", "junk"}]
      /\ \A c \in Blocks \ {b} : text'[c] = text[c]
  BY DEF DriverInv, TypeOK
<1>3. TypeOK'
  BY <1>1, <1>2 DEF DriverInv, TypeOK
<1>4. LoadInv' /\ FreedOnce' /\ LostInv'
  BY <1>1 DEF DriverInv, LoadInv, UnloadSafe, FreedOnce, LostInv
<1>5. OpenInv'
  BY DEF DriverInv, OpenInv, IsOpen, Mapped
<1>6. HeapInv'
  <2> SUFFICES ASSUME "overlap" \notin misuse
               PROVE  /\ mapper # {} => data # NULL /\ owner'[data] = "som"
                      /\ \A v \in Vmas : vma[v] # NoVma =>
                           owner'[vma[v].block] = "som" /\ text'[vma[v].block] = "Hello"
    BY DEF HeapInv
  <2>1. data \in Blocks \cup {NULL}
    BY DEF DriverInv, TypeOK
  <2>2. \A v \in Vmas : vma[v] # NoVma => vma[v].block \in Blocks
    BY VmaFields DEF DriverInv
  <2> QED
    BY <1>1, <1>2, <2>1, <2>2 DEF DriverInv, HeapInv
<1> QED
  BY <1>3, <1>4, <1>5, <1>6 DEF DriverInv

(* A mapping the kernel refuses by itself.                                 *)
LEMMA RefusedKeeps == DriverInv /\ Refused => DriverInv'
<1> SUFFICES ASSUME DriverInv, Refused PROVE  DriverInv'
  OBVIOUS
<1> USE DEF Refused, loadVars, heapVars, fileVars
<1>1. TypeOK'
  BY DEF DriverInv, TypeOK
<1>2. LoadInv' /\ FreedOnce' /\ LostInv' /\ HeapInv'
  BY DEF DriverInv, LoadInv, UnloadSafe, FreedOnce, LostInv, HeapInv
<1>3. OpenInv'
  BY DEF DriverInv, OpenInv, IsOpen, Mapped
<1> QED
  BY <1>1, <1>2, <1>3 DEF DriverInv

(* A step of somebody else.                                                *)
LEMMA StutterKeeps == DriverInv /\ UNCHANGED vars => DriverInv'
<1> SUFFICES ASSUME DriverInv, UNCHANGED vars PROVE  DriverInv'
  OBVIOUS
<1> USE DEF vars, loadVars, heapVars, fileVars, history
<1>1. TypeOK'
  BY DEF DriverInv, TypeOK
<1>2. LoadInv' /\ FreedOnce' /\ LostInv' /\ HeapInv'
  BY DEF DriverInv, LoadInv, UnloadSafe, FreedOnce, LostInv, HeapInv
<1>3. OpenInv'
  BY DEF DriverInv, OpenInv, IsOpen, Mapped
<1> QED
  BY <1>1, <1>2, <1>3 DEF DriverInv

(* Every call of the driver, and every other thing the kernel does to it.  *)
DriverStep ==
  \/ char_init \/ char_cleanup \/ Refused \/ UNCHANGED vars
  \/ \E f \in Files : som_open(f) \/ close(f) \/ \E v \in Vmas : som_mmap_fn(f, v)
  \/ \E v \in Vmas : munmap(v)
  \/ \E b \in Blocks : other_alloc(b)

(* Every step of the driver and of the allocator.                          *)
LEMMA DriverKeeps == DriverInv /\ DriverStep => DriverInv'
<1> SUFFICES ASSUME DriverInv, DriverStep PROVE  DriverInv'
  OBVIOUS
<1>1. CASE char_init \/ char_cleanup \/ Refused \/ UNCHANGED vars
  BY <1>1, LoadKeeps, UnloadKeeps, RefusedKeeps, StutterKeeps
<1>2. ASSUME NEW f \in Files, som_open(f) \/ close(f) PROVE  DriverInv'
  BY <1>2, OpenKeeps, CloseKeeps
<1>3. ASSUME NEW f \in Files, NEW v \in Vmas, som_mmap_fn(f, v) PROVE  DriverInv'
  BY <1>3, MmapKeeps
<1>4. ASSUME NEW v \in Vmas, munmap(v) PROVE  DriverInv'
  BY <1>4, MunmapKeeps
<1>5. ASSUME NEW b \in Blocks, other_alloc(b) PROVE  DriverInv'
  BY <1>5, OtherKeeps
<1> QED
  BY <1>1, <1>2, <1>3, <1>4, <1>5 DEF DriverStep

(* What has been misused stays misused.                                    *)
LEMMA MisuseGrows == DriverStep => misuse \subseteq misuse'
<1> SUFFICES ASSUME DriverStep PROVE  misuse \subseteq misuse'
  OBVIOUS
<1>1. CASE char_init \/ char_cleanup \/ Refused \/ UNCHANGED vars
  BY <1>1 DEF char_init, char_cleanup, Refused, vars, history
<1>2. ASSUME NEW f \in Files, som_open(f) \/ close(f) PROVE  misuse \subseteq misuse'
  BY <1>2 DEF som_open, close, som_release, Keep, history
<1>3. ASSUME NEW f \in Files, NEW v \in Vmas, som_mmap_fn(f, v)
      PROVE  misuse \subseteq misuse'
  BY <1>3 DEF som_mmap_fn, history
<1>4. ASSUME NEW v \in Vmas, munmap(v) PROVE  misuse \subseteq misuse'
  BY <1>4 DEF munmap, som_mmap_close_fn, som_release, Keep, history
<1>5. ASSUME NEW b \in Blocks, other_alloc(b) PROVE  misuse \subseteq misuse'
  BY <1>5 DEF other_alloc, history
<1> QED
  BY <1>1, <1>2, <1>3, <1>4, <1>5 DEF DriverStep

-----------------------------------------------------------------------------
(* The test program.                                                       *)

Places == {"end", "open", "mmap", "memcpy", "munmap", "close"}

UserInv ==
  /\ programs \subseteq Files
  /\ pc \in [Files -> Places] /\ rdBuf \in [Files -> {"nothing", "Hello", "junk"}]
  /\ ReadsHello

(* A process that runs the program has its file only between open and      *)
(* close and its mapping only while the file is open, and once past mmap   *)
(* the file has allocated, unless the kernel itself has refused or has     *)
(* stopped.                                                                *)
Orderly(p) ==
  /\ vma[p] # NoVma => vma[p].file = p /\ p \in fd
  /\ pc[p] \in {"end", "open"} => p \notin fd
  /\ pc[p] \in {"end", "open", "mmap", "close"} => vma[p] = NoVma
  /\ Runs /\ p \in fd /\ pc[p] \in {"memcpy", "munmap", "close"} =>
       p \in mapper \/ "refused" \in misuse

(* If nobody else uses the driver, every file is orderly, so that none is  *)
(* released that has mapped nothing.                                       *)
AloneInv ==
  programs = Files =>
    /\ \A p \in Files : Orderly(p)
    /\ "unmapped" \in misuse => misuse \cap {"overlap", "refused"} # {}

AppInv == DriverInv /\ UserInv /\ AloneInv

(* No process has begun.                                                   *)
LEMMA AppInitially == AppInit => AppInv
<1> SUFFICES ASSUME AppInit PROVE  AppInv
  OBVIOUS
<1>1. DriverInv
  BY DriverInit DEF AppInit
<1>2. UserInv
  BY DEF AppInit, UserInv, Places, ReadsHello
<1>3. AloneInv
  BY ProcessAssumption DEF AppInit, Init, AloneInv, Orderly
<1> QED
  BY <1>1, <1>2, <1>3 DEF AppInv

(* Whatever the processes do, the driver sees its own calls.               *)
LEMMA ProcessesCall == programs \subseteq Files /\ AppNext => DriverStep
<1> SUFFICES ASSUME programs \subseteq Files, AppNext PROVE  DriverStep
  OBVIOUS
<1>1. ASSUME NEW p \in Files, start(p) \/ Main(p) PROVE  DriverStep
  <2>1. p \in Vmas
    BY ProcessAssumption
  <2> QED
    BY <1>1, <2>1 DEF start, Main, main_open, main_mmap, main_memcpy, main_munmap,
       main_close, DriverStep
<1>2. CASE Kernel
  BY <1>2 DEF Kernel, Oopsed, DriverStep
<1>3. ASSUME NEW f \in Files, AnyCall(f) PROVE  DriverStep
  BY <1>3 DEF AnyCall, DriverStep
<1> QED
  BY <1>1, <1>2, <1>3 DEF AppNext

(* What is read is the greeting, or there has been an overlap.             *)
LEMMA UsersKeep == DriverInv /\ UserInv /\ AppNext => UserInv'
<1> SUFFICES ASSUME DriverInv, UserInv, AppNext PROVE  UserInv'
  OBVIOUS
<1>1. misuse \subseteq misuse' /\ programs' = programs
  BY ProcessesCall, MisuseGrows DEF UserInv, AppNext
<1>2. CASE UNCHANGED <<pc, rdBuf>>
  BY <1>1, <1>2 DEF UserInv, ReadsHello
<1>3. ASSUME NEW p \in Files, start(p) \/ Main(p) PROVE  UserInv'
  <2>1. PICK there \in Places : pc' = [pc EXCEPT ![p] = there]
    BY <1>3 DEF start, Main, main_open, main_mmap, main_memcpy, main_munmap, main_close,
       Goto, Places
  <2>2. \/ rdBuf' = rdBuf \/ rdBuf' = [rdBuf EXCEPT ![p] = "nothing"]
        \/ vma[p] # NoVma /\ rdBuf' = [rdBuf EXCEPT ![p] = text[vma[p].block]]
    BY <1>3 DEF start, Main, main_open, main_mmap, main_memcpy, main_munmap, main_close
  <2>3. ASSUME vma[p] # NoVma
        PROVE  /\ text[vma[p].block] \in {"Hello", "junk"}
               /\ text[vma[p].block] = "Hello" \/ "overlap" \in misuse
    <3>1. vma[p].block \in Blocks
      BY <2>3, VmaFields, ProcessAssumption DEF DriverInv
    <3> QED
      BY <2>3, <3>1, ProcessAssumption DEF DriverInv, TypeOK, HeapInv
  <2>4. /\ rdBuf' \in [Files -> {"nothing", "Hello", "junk"}]
        /\ \A q \in Files : rdBuf'[q] = rdBuf[q] \/ rdBuf'[q] # "junk" \/ "overlap" \in misuse
    BY <2>2, <2>3 DEF UserInv
  <2> QED
    BY <1>1, <2>1, <2>4 DEF UserInv, ReadsHello
<1> QED
  BY <1>2, <1>3 DEF UserInv, AppNext

(* The steps of one process leave the files of the others alone.           *)
LEMMA OthersStayOrderly ==
  ASSUME NEW p \in Files, NEW q \in Files \ {p}, Orderly(q), Runs,
         vma'[q] = vma[q], q \in fd' <=> q \in fd, pc'[q] = pc[q],
         q \in mapper => q \in mapper', misuse \subseteq misuse'
  PROVE  Orderly(q)'
  BY DEF Orderly

(* Every step of the processes, when all of them run the program.          *)
LEMMA AloneKeeps == DriverInv /\ UserInv /\ AloneInv /\ AppNext => AloneInv'
<1> SUFFICES ASSUME DriverInv, UserInv, AloneInv, AppNext, programs = Files
             PROVE  /\ \A p \in Files : Orderly(p)'
                    /\ "unmapped" \in misuse' => misuse' \cap {"overlap", "refused"} # {}
  BY DEF AloneInv, AppNext
<1>1. misuse \subseteq misuse'
  BY ProcessesCall, MisuseGrows DEF UserInv
<1>2. /\ \A q \in Files : Orderly(q)
      /\ "unmapped" \in misuse => misuse \cap {"overlap", "refused"} # {}
  BY DEF AloneInv
<1>3. pc \in [Files -> Places] /\ vma \in [Files -> Region \cup {NoVma}]
  BY ProcessAssumption DEF UserInv, DriverInv, TypeOK, Region
<1>4. CASE Kernel /\ UNCHANGED <<pc, rdBuf>>
  <2>1. /\ fd' = fd /\ vma' = vma /\ mapper' = mapper /\ pc' = pc
        /\ misuse' \subseteq misuse \cup {"load"} /\ (Runs' => Runs)
    BY <1>4 DEF Kernel, char_init, char_cleanup, other_alloc, Oopsed, vars, fileVars,
       history, Runs
  <2> QED
    BY <1>1, <1>2, <2>1 DEF Orderly
<1>5. ASSUME NEW p \in Files, start(p) \/ Main(p)
      PROVE  /\ \A q \in Files : Orderly(q)'
             /\ "unmapped" \in misuse' => misuse' \cap {"overlap", "refused"} # {}
  <2> DEFINE Goal ==
        /\ \A q \in Files : Orderly(q)'
        /\ "unmapped" \in misuse' => misuse' \cap {"overlap", "refused"} # {}
  <2>10. Runs
    BY <1>5 DEF start, Main, main_open, main_mmap, main_memcpy, main_munmap, main_close, At
  <2>0. Orderly(p) /\ ~\E v \in Vmas \ {p} : vma[v].file = p
    <3>1. ASSUME NEW v \in Vmas \ {p}, vma[v].file = p PROVE  FALSE
      <4>1. v \in Files /\ vma[v] # NoVma
        BY <3>1, VmaFields, ProcessAssumption, NullAssumption DEF DriverInv
      <4> QED
        BY <3>1, <4>1, <1>2 DEF Orderly
    <3> QED
      BY <3>1, <1>2
  <2>1. CASE start(p) \/ (main_open(p) /\ ~Node) \/ (main_mmap(p) /\ p \notin fd)
             \/ (main_memcpy(p) /\ UNCHANGED vars)
    <3>1. /\ fd' = fd /\ vma' = vma /\ mapper' = mapper /\ misuse' = misuse
      BY <2>1 DEF start, main_open, main_mmap, main_memcpy, vars, fileVars, history
    <3>2. \A q \in Files \ {p} : pc'[q] = pc[q]
      BY <2>1, <1>3 DEF start, main_open, main_mmap, main_memcpy, Goto
    <3>3. \/ pc[p] = "end" /\ pc'[p] = "open"
          \/ pc[p] = "open" /\ pc'[p] = "mmap"
          \/ pc[p] = "mmap" /\ pc'[p] = "memcpy" /\ p \notin fd
          \/ pc[p] = "memcpy" /\ pc'[p] = "munmap" /\ vma[p] # NoVma
          \/ pc[p] = "memcpy" /\ pc'[p] = "end" /\ vma[p] = NoVma /\ p \notin fd
      <4>1. CASE start(p) \/ (main_open(p) /\ ~Node) \/ (main_mmap(p) /\ p \notin fd)
        BY <4>1, <1>3 DEF start, main_open, main_mmap, Goto, At
      <4>2. CASE main_memcpy(p) /\ UNCHANGED vars
        <5>1. ~(p \in fd /\ close(p))
          BY <4>2 DEF close, vars, fileVars
        <5> QED
          BY <4>2, <5>1, <1>3 DEF main_memcpy, Goto, At
      <4> QED
        BY <2>1, <4>1, <4>2
    <3>4. Orderly(p)'
      BY <2>0, <2>10, <3>1, <3>3 DEF Orderly
    <3>5. \A q \in Files \ {p} : Orderly(q)'
      BY <1>1, <1>2, <2>10, <3>1, <3>2, OthersStayOrderly
    <3> QED
      BY <1>2, <3>1, <3>4, <3>5
  <2>2. CASE main_open(p) /\ Node
    <3>1. /\ fd' = fd \cup {p} /\ vma' = vma /\ mapper' = mapper
          /\ misuse' \subseteq misuse \cup {"overlap"}
          /\ pc[p] = "open" /\ pc' = [pc EXCEPT ![p] = "mmap"]
      BY <2>2 DEF main_open, som_open, At, Goto
    <3>2. Orderly(p)'
      BY <2>0, <3>1, <1>3 DEF Orderly
    <3>3. \A q \in Files \ {p} : Orderly(q)'
      BY <1>1, <1>2, <1>3, <2>10, <3>1, OthersStayOrderly
    <3> QED
      BY <1>1, <1>2, <3>1, <3>2, <3>3
  <2>3. CASE main_mmap(p) /\ p \in fd
    <3>1. /\ fd' = fd /\ pc[p] = "mmap" /\ pc' = [pc EXCEPT ![p] = "memcpy"] /\ vma[p] = NoVma
      BY <2>3, <2>0 DEF main_mmap, som_mmap_fn, Refused, fileVars, At, Goto, Orderly
    <3>2. CASE som_mmap_fn(p, p) /\ oops' = "NULL pointer"
      <4>1. UNCHANGED <<vma, mapper, misuse>>
        BY <3>2, <2>10 DEF som_mmap_fn, history, Runs
      <4>2. Orderly(p)'
        BY <2>0, <3>1, <3>2, <4>1, <1>3 DEF Orderly, Runs
      <4>3. \A q \in Files \ {p} : Orderly(q)'
        BY <1>1, <1>2, <1>3, <2>10, <3>1, <4>1, OthersStayOrderly
      <4> QED
        BY <1>2, <4>1, <4>2, <4>3
    <3>3. CASE Refused
      <4>1. UNCHANGED <<vma, mapper>> /\ "refused" \in misuse'
        BY <3>3 DEF Refused, fileVars
      <4>2. Orderly(p)'
        BY <2>0, <3>1, <4>1, <1>3 DEF Orderly
      <4>3. \A q \in Files \ {p} : Orderly(q)'
        BY <1>1, <1>2, <1>3, <2>10, <3>1, <4>1, OthersStayOrderly
      <4> QED
        BY <4>1, <4>2, <4>3
    <3>4. ASSUME NEW b \in Blocks, mapper' = mapper \cup {p},
                 misuse' \subseteq misuse \cup {"again"},
                 \/ vma' = [vma EXCEPT ![p] = [file |-> p, block |-> b]]
                 \/ UNCHANGED vma
          PROVE  Goal
      <4>1. PICK m \in Region : m = [file |-> p, block |-> b] /\ m.file = p
        BY NewVma
      <4>2. vma'[p] \in {m, NoVma} /\ \A q \in Files \ {p} : vma'[q] = vma[q]
        BY <3>1, <3>4, <4>1, <1>3
      <4>3. Orderly(p)'
        BY <2>3, <3>1, <3>4, <4>1, <4>2, <1>3 DEF Orderly
      <4>4. \A q \in Files \ {p} : Orderly(q)'
        BY <1>1, <1>2, <1>3, <2>10, <3>1, <3>4, <4>2, OthersStayOrderly
      <4> QED
        BY <1>1, <1>2, <3>4, <4>3, <4>4
    <3> QED
      BY <2>3, <3>2, <3>3, <3>4 DEF main_mmap, som_mmap_fn
  <2>4. CASE (main_memcpy(p) \/ main_close(p)) /\ close(p)
    <3>1. /\ fd' = fd \ {p} /\ vma' = vma /\ p \in fd /\ vma[p] = NoVma
          /\ pc' = [pc EXCEPT ![p] = "end"] /\ pc[p] \in {"memcpy", "close"}
      <4>1. pc[p] = "memcpy" \/ (pc[p] = "close" /\ vma[p] = NoVma)
        BY <2>4, <2>0 DEF main_memcpy, main_close, At, Orderly
      <4>2. fd' = fd \ {p} /\ fd' # fd /\ vma' = vma /\ p \in fd
        BY <2>4 DEF close
      <4>3. UNCHANGED vars => fd' = fd
        BY DEF vars, fileVars
      <4>4. CASE main_memcpy(p)
        BY <4>2, <4>3, <4>4 DEF main_memcpy, Goto, At
      <4>5. CASE main_close(p)
        BY <4>1, <4>2, <4>5 DEF main_close, Goto, At
      <4> QED
        BY <2>4, <4>4, <4>5
    <3>2. ~Mapped(p)
      BY <2>0, <3>1, NullAssumption DEF Mapped, NoVma
    <3>3. som_release(p) /\ (p \in mapper \/ "refused" \in misuse)
      BY <2>0, <2>4, <2>10, <3>1, <3>2 DEF close, Orderly
    <3>4. /\ mapper' = mapper \ {p} /\ misuse' \subseteq misuse \cup {"unmapped"}
          /\ p \in mapper => misuse' = misuse
      BY <3>3 DEF som_release
    <3>5. Orderly(p)'
      BY <3>1, <1>3 DEF Orderly
    <3>6. \A q \in Files \ {p} : Orderly(q)'
      BY <1>1, <1>2, <1>3, <2>10, <3>1, <3>4, OthersStayOrderly
    <3> QED
      BY <1>1, <1>2, <3>3, <3>4, <3>5, <3>6
  <2>5. CASE main_munmap(p)
    <3>1. /\ vma' = [vma EXCEPT ![p] = NoVma] /\ fd' = fd /\ vma[p].file = p /\ p \in fd
          /\ pc[p] = "munmap" /\ pc' = [pc EXCEPT ![p] = "close"]
      BY <2>5, <2>0 DEF main_munmap, munmap, At, Goto, Orderly
    <3>2. mapper' = mapper /\ misuse' = misuse
      BY <2>5, <3>1 DEF main_munmap, munmap, som_mmap_close_fn, Keep, history
    <3>3. Orderly(p)'
      BY <2>0, <2>10, <3>1, <3>2, <1>3 DEF Orderly
    <3>4. \A q \in Files \ {p} : Orderly(q)'
      BY <1>1, <1>2, <1>3, <2>10, <3>1, <3>2, OthersStayOrderly
    <3> QED
      BY <1>2, <3>2, <3>3, <3>4
  <2> QED
    BY <1>5, <2>1, <2>2, <2>3, <2>4, <2>5 DEF Main, main_memcpy, main_close
<1> QED
  BY <1>4, <1>5 DEF AppNext

-----------------------------------------------------------------------------
(* The DRM program.                                                        *)

Has201 == \E k \in 1 .. Len(card) : card[k] = 201

(* Before the resources are known the loops have not begun; a buffer is    *)
(* made only for connector 201 and within the array; a mapping is large    *)
(* enough for the picture by its mode, and an entry without one is empty.  *)
DrmInv ==
  /\ drm!TypeOK /\ card \in Cards /\ drm!Only201 /\ drm!DrawsInMapping
  /\ drm_pc \in {"open", "resources"} => i = 0 /\ j = 0
  /\ drm_pc = "buffer" => i < count /\ Has201
  /\ \A e \in drm!Entry :
       /\ fb[e].base = "mapped" => fb[e].size >= 4 * (fb[e].w * fb[e].h)
       /\ fb[e].base = "NULL" => fb[e].w = 0

(* Placing pixels by the width stays below width times height.             *)
LEMMA PixelBound ==
  ASSUME NEW w \in Nat, NEW h \in Nat, NEW y \in 0 .. h - 1, NEW x \in 0 .. w - 1
  PROVE  4 * (y * w + x) + 4 <= 4 * (w * h)
<1>1. PICK d \in Nat : h = (y + 1) + d
  <2>1. h - (y + 1) \in Nat /\ h = (y + 1) + (h - (y + 1))
    OBVIOUS
  <2> QED
    BY <2>1
<1>2. d * w \in Nat /\ y * w \in Nat
  OBVIOUS
<1>3. w * h = (y * w + w) + d * w
  BY <1>1
<1>4. x + 1 <= w
  OBVIOUS
<1> QED
  BY <1>2, <1>3, <1>4

(* Longer rows only make the buffer larger.                                *)
LEMMA RowsFit ==
  ASSUME NEW w \in Nat, NEW h \in Nat, NEW pad \in Nat
  PROVE  (4 * w + pad) * h \in Nat /\ (4 * w + pad) * h >= 4 * (w * h)
<1>1. w * h \in Nat /\ pad * h \in Nat
  OBVIOUS
<1>2. (4 * w + pad) * h = 4 * (w * h) + pad * h
  OBVIOUS
<1> QED
  BY <1>1, <1>2

(* What the loops index is in the arrays.                                  *)
LEMMA InArray ==
  ASSUME DrmInv, NEW k \in 0 .. count, k < count
  PROVE  k \in drm!Entry /\ k + 1 \in 0 .. count /\ count \in Nat
<1>1. card \in Seq(Nat) /\ Len(card) <= 10 /\ Len(card) \in Nat
  BY CardsAssumption DEF DrmInv
<1>2. count \in {0, Len(card)}
  BY DEF DrmInv, drm!TypeOK
<1>3. count \in Nat /\ count <= 10
  BY <1>1, <1>2
<1> QED
  BY <1>3 DEF drm!Entry

(* What the kernel writes into the array of ids.                           *)
LEMMA PackedType ==
  ASSUME card \in Cards
  PROVE  drm!Packed \in [drm!Entry -> [low : Nat, high : Nat]]
<1>1. \A k \in Nat : drm!Id(k) \in Nat
  BY CardsAssumption DEF drm!Id
<1> QED
  BY <1>1 DEF drm!Packed, drm!Entry

(* The program's arrays start out empty.                                   *)
LEMMA DrmInitially == drm!Init => DrmInv
<1> SUFFICES ASSUME drm!Init PROVE  DrmInv
  OBVIOUS
<1>1. drm!TypeOK
  BY SizesAssumption DEF drm!Init, drm!TypeOK, drm!Empty, drm!NoFb
<1> QED
  BY <1>1 DEF drm!Init, DrmInv, drm!Only201, drm!DrawsInMapping, drm!NoFb

(* Every step of the DRM program.                                          *)
LEMMA DrmKeeps == DrmInv /\ [drm!Next]_drmVars => DrmInv'
<1> SUFFICES ASSUME DrmInv, [drm!Next]_drmVars PROVE  DrmInv'
  OBVIOUS
<1> USE DEF DrmInv
<1>0. count \in Nat /\ i \in Nat /\ j \in Nat /\ Len(card) \in Nat
  BY CardsAssumption DEF drm!TypeOK
<1>1. CASE drm!main_open
  BY <1>1 DEF drm!main_open, drm!TypeOK, drm!Only201, drm!DrawsInMapping
<1>2. CASE drm!main_resources
  <2>1. PICK ids \in {drm!Packed, [e \in drm!Entry |-> drm!Empty]} :
          res_conn_buf' = [ids EXCEPT ![2] = [low |-> 201, high |-> 0]]
    BY <1>2 DEF drm!main_resources
  <2>2. count' \in {0, Len(card)} /\ drm_pc' = "connector" /\ drm_pc = "resources"
        /\ UNCHANGED <<card, i, j, round, mode, fb>>
    BY <1>2 DEF drm!main_resources
  <2>3. ids \in [drm!Entry -> [low : Nat, high : Nat]]
    BY PackedType DEF drm!Empty
  <2>4. res_conn_buf' \in [drm!Entry -> [low : Nat, high : Nat]]
    BY <2>1, <2>3
  <2>5. drm!TypeOK'
    BY <1>0, <2>2, <2>4 DEF drm!TypeOK
  <2> QED
    BY <2>2, <2>5 DEF drm!Only201, drm!DrawsInMapping
<1>3. CASE drm!main_connector
  <2>1. /\ drm_pc = "connector" /\ i < count /\ i + 1 \in 0 .. count /\ i \in drm!Entry
        /\ UNCHANGED <<card, count, res_conn_buf, j, round, fb>>
    BY <1>3, InArray DEF drm!main_connector, drm!TypeOK
  <2>2. CASE i' = drm!NextIndex /\ UNCHANGED <<drm_pc, mode>>
    BY <2>1, <2>2 DEF drm!NextIndex, drm!TypeOK, drm!Only201, drm!DrawsInMapping
  <2>3. CASE /\ drm!Is201(res_conn_buf[i])
             /\ \E k \in 1 .. Len(card) : card[k] = res_conn_buf[i].low
             /\ mode' \in [w : Sizes, h : Sizes] \cup {[w |-> 0, h |-> 0]}
             /\ drm_pc' = "buffer" /\ UNCHANGED i
    <3>1. Has201
      BY <2>3 DEF drm!Is201, Has201
    <3>2. mode' \in [w : Nat, h : Nat]
      BY <2>3, SizesAssumption
    <3>3. drm!TypeOK'
      BY <2>1, <2>3, <3>2 DEF drm!TypeOK
    <3> QED
      BY <2>1, <2>3, <3>1, <3>3 DEF drm!Only201, drm!DrawsInMapping, Has201
  <2> QED
    BY <1>3, <2>2, <2>3 DEF drm!main_connector
<1>4. CASE drm!main_buffer
  <2>1. /\ drm_pc = "buffer" /\ drm_pc' = "connector" /\ i < count /\ Has201
        /\ i' = i + 1 /\ i + 1 \in 0 .. count /\ i \in drm!Entry
        /\ UNCHANGED <<card, count, res_conn_buf, j, round, mode>>
    BY <1>4, InArray DEF drm!main_buffer, drm!NextIndex, drm!TypeOK
  <2>2. mode.w \in Nat /\ mode.h \in Nat
    BY DEF drm!TypeOK
  <2>3. PICK pad \in Pads, ok \in BOOLEAN :
          fb' = [fb EXCEPT ![i] =
                   IF ok /\ mode.w > 0
                   THEN [base |-> "mapped", w |-> mode.w, h |-> mode.h,
                         size |-> (4 * mode.w + pad) * mode.h]
                   ELSE [base |-> "MAP_FAILED", w |-> mode.w, h |-> mode.h, size |-> 0]]
    BY <1>4 DEF drm!main_buffer
  <2>4. /\ (4 * mode.w + pad) * mode.h \in Nat
        /\ (4 * mode.w + pad) * mode.h >= 4 * (mode.w * mode.h)
    BY <2>2, RowsFit, SizesAssumption
  <2> DEFINE Fb == [base : {"NULL", "MAP_FAILED", "mapped"}, w : Nat, h : Nat, size : Nat]
  <2>5. PICK f \in Fb : /\ fb' = [fb EXCEPT ![i] = f] /\ f.base # "NULL"
                        /\ f.base = "mapped" => f.size >= 4 * (f.w * f.h)
    <3>1. CASE ok /\ mode.w > 0
      <4> DEFINE f == [base |-> "mapped", w |-> mode.w, h |-> mode.h,
                       size |-> (4 * mode.w + pad) * mode.h]
      <4>1. f \in Fb /\ f.base # "NULL" /\ f.size >= 4 * (f.w * f.h)
        BY <2>2, <2>4
      <4>2. fb' = [fb EXCEPT ![i] = f]
        BY <2>3, <3>1
      <4> HIDE DEF f
      <4> QED
        BY <4>1, <4>2
    <3>2. CASE ~(ok /\ mode.w > 0)
      <4> DEFINE f == [base |-> "MAP_FAILED", w |-> mode.w, h |-> mode.h, size |-> 0]
      <4>1. f \in Fb /\ f.base = "MAP_FAILED"
        BY <2>2
      <4>2. fb' = [fb EXCEPT ![i] = f]
        BY <2>3, <3>2
      <4> HIDE DEF f
      <4> QED
        BY <4>1, <4>2
    <3> QED
      BY <3>1, <3>2
  <2>6. fb \in [drm!Entry -> Fb]
    BY DEF drm!TypeOK
  <2>7. /\ fb' \in [drm!Entry -> Fb] /\ fb'[i] = f
        /\ \A e \in drm!Entry \ {i} : fb'[e] = fb[e]
    BY <2>1, <2>5, <2>6
  <2>8. drm!TypeOK'
    BY <2>1, <2>7 DEF drm!TypeOK
  <2>9. drm!Only201'
    BY <2>1 DEF drm!Only201, Has201
  <2>10. \A e \in drm!Entry :
           /\ fb'[e].base = "mapped" => fb'[e].size >= 4 * (fb'[e].w * fb'[e].h)
           /\ fb'[e].base = "NULL" => fb'[e].w = 0
    BY <2>5, <2>7
  <2> QED
    BY <2>1, <2>8, <2>9, <2>10 DEF drm!DrawsInMapping
<1>5. CASE drm!main_scan_done
  BY <1>5 DEF drm!main_scan_done, drm!TypeOK, drm!Only201, drm!DrawsInMapping
<1>6. CASE drm!main_draw
  <2>1. /\ drm_pc = "draw" /\ j < count /\ j' = j + 1 /\ j + 1 \in 0 .. count
        /\ j \in drm!Entry /\ UNCHANGED <<card, count, res_conn_buf, i, round, mode, fb>>
    BY <1>6, InArray DEF drm!main_draw, drm!TypeOK
  <2>2. PICK w \in Nat, h \in Nat : w = fb[j].w /\ h = fb[j].h
    BY <2>1 DEF drm!TypeOK
  <2>3. drm!Pixels(fb[j]) = {y * w + x : y \in 0 .. h - 1, x \in 0 .. w - 1}
    BY <2>2 DEF drm!Pixels
  <2>4. ASSUME fb[j].base = "mapped", NEW p \in drm!Pixels(fb[j])
        PROVE  4 * p + 4 <= fb[j].size
    <3>1. p \in {y * w + x : y \in 0 .. h - 1, x \in 0 .. w - 1}
      BY <2>3
    <3>2. PICK y \in 0 .. h - 1, x \in 0 .. w - 1 : p = y * w + x
      BY <3>1
    <3>3. 4 * p + 4 <= 4 * (w * h)
      BY <3>2, PixelBound
    <3>4. fb[j].size >= 4 * (w * h)
      <4>1. fb[j].size >= 4 * (fb[j].w * fb[j].h)
        BY <2>1, <2>4
      <4> QED
        BY <2>2, <4>1
    <3>5. fb[j].size \in Nat /\ w * h \in Nat
      BY <2>1 DEF drm!TypeOK
    <3>6. p \in Nat
      <4>1. y * w \in Nat
        OBVIOUS
      <4> QED
        BY <3>2, <4>1
    <3> QED
      BY <3>3, <3>4, <3>6, <3>5
  <2>5. ASSUME fb[j].base = "NULL" PROVE  drm!Pixels(fb[j]) = {}
    <3>1. w = 0
      BY <2>1, <2>2, <2>5
    <3>2. 0 .. w - 1 = {}
      BY <3>1
    <3> QED
      BY <2>3, <3>2
  <2>6. fb[j].base \in {"NULL", "MAP_FAILED", "mapped"}
    BY <2>1 DEF drm!TypeOK
  <2>7. drm_pc' \in {"draw", "killed"}
    BY <1>6, <2>1, <2>4, <2>5, <2>6 DEF drm!main_draw
  <2>8. drm!TypeOK'
    BY <2>1, <2>7 DEF drm!TypeOK
  <2> QED
    BY <2>1, <2>7, <2>8 DEF drm!Only201, drm!DrawsInMapping
<1>7. CASE drm!main_round
  <2>1. round' \in 0 .. Rounds /\ j' \in 0 .. count
    BY <1>7, <1>0, SizesAssumption DEF drm!main_round, drm!TypeOK
  <2>2. drm!TypeOK'
    BY <1>7, <2>1 DEF drm!main_round, drm!TypeOK
  <2> QED
    BY <1>7, <2>2 DEF drm!main_round, drm!Only201, drm!DrawsInMapping
<1>8. CASE drm!Ended \/ UNCHANGED drmVars
  <2>1. UNCHANGED <<drm_pc, card, count, res_conn_buf, i, j, round, mode, fb>>
    BY <1>8 DEF drm!Ended, drm!vars, drmVars
  <2> QED
    BY <2>1 DEF drm!TypeOK, drm!Only201, drm!DrawsInMapping, Has201
<1> QED
  BY <1>1, <1>2, <1>3, <1>4, <1>5, <1>6, <1>7, <1>8 DEF drm!Next, drm!Step

-----------------------------------------------------------------------------
(* The two side by side.                                                   *)

ProgInv == AppInv /\ DrmInv

(* Every step of the driver and its users.                                 *)
LEMMA AppKeeps == AppInv /\ [AppNext]_appVars => AppInv'
<1> SUFFICES ASSUME AppInv, [AppNext]_appVars PROVE  AppInv'
  OBVIOUS
<1>1. CASE AppNext
  <2>1. DriverInv'
    BY <1>1, DriverKeeps, ProcessesCall DEF AppInv, UserInv
  <2> QED
    BY <1>1, <2>1, UsersKeep, AloneKeeps DEF AppInv
<1>2. CASE UNCHANGED appVars
  <2>1. UNCHANGED vars /\ UNCHANGED <<programs, pc, rdBuf>>
    BY <1>2 DEF appVars
  <2>2. DriverInv'
    BY <2>1, StutterKeeps DEF AppInv
  <2>3. UserInv' /\ AloneInv'
    BY <2>1 DEF AppInv, UserInv, AloneInv, Orderly, ReadsHello, vars, fileVars, history, Runs
  <2> QED
    BY <2>2, <2>3 DEF AppInv
<1> QED
  BY <1>1, <1>2

(* The inductive invariant of the driver with mmap under its test program  *)
(* and any other users, and of the DRM program on any card.                *)
THEOREM Invariant == ProgSpec => []ProgInv
<1>1. ProgInit => ProgInv
  BY AppInitially, DrmInitially DEF ProgInit, ProgInv
<1>2. ProgInv /\ [ProgNext]_progVars => ProgInv'
  BY AppKeeps, DrmKeeps DEF ProgInv, ProgNext, progVars
<1> QED
  BY <1>1, <1>2, PTL DEF ProgSpec

(* Whoever uses the driver, and however: a user sees only memory of the    *)
(* driver as long as no two files are open at a time, a block is freed     *)
(* twice only by overlapping files or by one that mapped nothing, and      *)
(* unloading harms only after a failed load or a failed class_create       *)
(* (char-drv.c:43-48, 81-92, 116-129, 153-156).                            *)
THEOREM MmapIsSafe == ProgSpec => []MmapSafe
<1>1. ProgInv => MmapSafe
  BY DEF ProgInv, AppInv, DriverInv, MmapSafe, MappedIsOwned, HeapInv, LoadInv
<1> QED
  BY <1>1, Invariant, PTL

(* Used as its test program uses it, the driver owns at most the block of  *)
(* data, and that only while the file is open (char-drv.c:46, 81).         *)
THEOREM NoBlockIsLost == ProgSpec => []NoBlockLost
<1>1. ProgInv => NoBlockLost
  <2> SUFFICES ASSUME ProgInv, misuse \subseteq {"load"}, NEW b \in Blocks,
                      owner[b] = "som"
               PROVE  b = data /\ Open # {}
    BY DEF NoBlockLost
  <2>1. b = data /\ mapper # {}
    BY DEF ProgInv, AppInv, DriverInv, LostInv
  <2> QED
    BY <2>1, OpenIsIsOpen DEF ProgInv, AppInv, DriverInv, OpenInv, TypeOK
<1> QED
  BY <1>1, Invariant, PTL

(* The test program reads the greeting unless another has the driver open, *)
(* and where only it is run, one instance at a time, no block is freed     *)
(* twice unless the kernel has refused a mapping (drv.c:14-19, char-       *)
(* drv.c:46).                                                              *)
THEOREM ProgramIsSafe == ProgSpec => []ProgramSafe
<1>1. ProgInv => ProgramSafe
  BY DEF ProgInv, AppInv, DriverInv, UserInv, AloneInv, FreedOnce, ProgramSafe, AloneIsSafe
<1> QED
  BY <1>1, Invariant, PTL

(* Whatever the card answers and however long the rows of its buffers are, *)
(* the DRM program draws only if the card has connector 201, and only in   *)
(* what it has mapped (drm_app.c:95, 184, 203-204, 231-233, 299-302).      *)
THEOREM DrmIsSafe == ProgSpec => []DrmSafe
<1>1. ProgInv => DrmSafe
  BY DEF ProgInv, DrmInv, DrmSafe
<1> QED
  BY <1>1, Invariant, PTL

=============================================================================
