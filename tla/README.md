# A verification project for bbblack

bbblack is a collection of Linux kernel modules and small programs written for
the BeagleBone Black. This directory holds TLA+ models of its parts with state
and concurrency, TLC configurations that check them on small instances, and
proofs, checked by TLAPS, of what holds for every instance.

    tlc -workers 2 -config FakeVid_faults.cfg MCFakeVid      # one of the runs
    tlapm FakeVidProofs.tla                                  # some of the proofs

`PROJECT.json` lists the runs, which source lines each definition stands for,
and the hazards the properties are aimed at.

## Inventory

| part | state | operations | interacts with |
|---|---|---|---|
| fake V4L2 driver, `lkml/v4l2/vid4linux.c` | `dmaq->active`, `dmaq->kthread`, two locks, the vb2 queue | vb2 callbacks, one kernel thread per stream, format ioctls, module load and unload | vb2 calls its callbacks; it calls `vb2_buffer_done`; user programs through ioctls |
| capture program, `lkml/v4l2-app/grabber.c` | options, descriptor, array of frame buffers, loop counters | set-up, capture loop, tear-down | the driver, by system calls |
| timer driver, `lkml/dmtimer/` | two mappings, memory regions, interrupt numbers, a tasklet, the timer's registers | probe, remove, exit, interrupt handler, tasklet, nested interrupt chip | driver core, interrupt core, hardware |
| custom bus, `lkml/ldm/` | bus, parent device, one device, drivers | register, match, probe, unregister | driver core |
| mmap character driver, `lkml/mmap/` and `lkml/mmap-app/` | one shared page | open, mmap, release | a user program |
| character driver, `lkml/char-drv/` | character device, class, SPI driver | open, release, load, unload | SPI core |
| netfilter hooks, `lkml/netfilter/` | verdict, sysfs directory | two hooks, show, store, load, unload | packet path, sysfs |
| packet capture, `lkml/network/` | packet handler, device reference | receive, load, unload | packet path |
| EHRPWM driver, `lkml/ehrpwm/` | mappings, a thread reading registers | probe, remove, exit | driver core, hardware |
| PL111 frame buffer, `lkml/drm/` | static platform device and DRM device | probe, remove, load, unload, open, close | driver core, DRM core |
| DRM program, `lkml/drm-app/` | arrays of ids, buffers, sizes | queries, connector loop, drawing loop | a DRM card, by ioctls |
| VLAN program, `lkml/vlan-app/` | a socket bound to an interface | set-up, endless sending | the kernel's interfaces |
| GPIO, `lkml/gpio/` | an interrupt number | five calls at load and three at unload | - |

What is hard in it:

* the driver's frame thread takes a buffer off a list under a spinlock, fills it
  outside the lock, and ends by itself when the list is empty, while user threads
  queue, dequeue, stop and close; `stop_streaming` walks the list with no lock;
* failures half way: `kthread_run` in a STREAMON, `vb2_plane_vaddr` in the
  thread, each call of `dmtimer_probe`, each system call of the program;
* timing: a 200 ms frame period, a two-second `select`, a program that may be
  slower than either;
* interrupts between any two steps of probe, remove and exit, and a timer that
  nobody stops;
* modules that go while a thread, a packet, a sleeping user, a registration or an
  open file still needs them: nearly every small driver forgets to take back one
  of the things it registered, or does so in an order that matters;
* one global pointer shared by every file, mapping or probe.

What makes each part correct: a frame buffer has one owner and comes back once,
in order; a stream that is stopped stops; the program reads only memory it
holds, reads as many frames as it was asked for, and ends; an interrupt finds
the driver set up; what a module requests it gives back; nobody runs code or
reads memory that is gone. Where the code does not have such a property, the
model says under which use it has it (`unbound`, `misuse`, `trouble`, `cause`
are histories of the uses that take it away), so that the property says both
what is safe and that nothing else is needed for it.

## Modules

**FakeVid** is the driver with the part of vb2 that calls it. vb2 is not in the
repository, so its transitions (REQBUFS, QBUF, STREAMON, DQBUF, STREAMOFF,
release, `vb2_buffer_done`) are modelled from how the callbacks use them and are
marked external. `queued_list`, `done_list`, `vbstate`, `streaming` and
`start_streaming_called` are the vb2 queue's; `active`, `kthread`, `slock` and
`mutex` the driver's; `tpc` and `sbuf` the thread's position and the buffer it
holds. An ioctl that calls back into the driver takes one step per callback, so
the thread runs in between; `step` says how far it is. Actions named after
driver functions (`buf_queue`, `start_streaming`, `stop_streaming_*`, `fgt_*`)
are the driver's code. `fgt_take` unlinks and unlocks in one step, because
nobody else can hold the lock.

Undefined behaviour is a choice: `kthread_stop` on a thread that has returned by
itself works or damages the kernel (`oops`). An `oops` is where the model stops.
The constant `Faults` says which calls may fail.

**FrameQueue** is the abstract specification of a capture queue: first in, first
out, each buffer once. FakeVid implements it, with `done_list` as the part that
is ready and the rest of `queued_list` as the part that is pending.

**Grabber** is the capture program, one action per system call, the call's
result being the action's parameter. Its own `Next` lets the device answer
anything: any result, any index, any length of buffer, and a `bytesused` of up to
the length of the buffer returned, which is what the V4L2 interface promises and
the program trusts. `length` is the length of each buffer, `size` that of the
frame processed last. `main` as committed has its capture calls commented out:
`CaptureEnabled` is FALSE for that program and TRUE for the one with these five
calls restored.

**CaptureSystem** composes the two by `INSTANCE`. A system call is a call step
in the driver and a return step in the program, with the driver's own steps in
between. However the program ends, the kernel closes its file. The system may
refuse the program the device (`stat`, `open`) or memory (`calloc`, `malloc`,
`mmap`, what vb2 allocates for REQBUFS, what it pins for QBUF): `Refusals` says
which, and `refusal` is the step in which the program meets it. The lengths are
the driver's: `queue_setup` for mapped buffers, the program's own for user
pointers, and the frame's size is what the thread sets as payload. Read i/o is
left out, as it goes through vb2's file-io emulation; `munmap`, `select` and the
ioctls without state do not fail here (they may in Grabber). `timely`, which never changes,
says whether the program returns each frame within the thread's 200 ms.

**DmTimer** is the timer driver with its nested interrupt chip, as built
(neither `DEBUG` nor `SINGLE`). The loading process runs probe, remove and exit
step by step; the processor has one core, so the handler runs whole between two
steps. Registers that are no longer mapped may or may not still be reachable:
another choice. Devices may be unbound and bound again through sysfs. `virq` is
what the last probe left in `dmtimer_drv.virq`, and `irq` says whose handler the
line has: a probe that finds no line sets `virq` to 0, after which `dmtimer_exit`
frees nothing and the handler outlives the module ("freed"). A later copy of the
module cannot request the line then, and its own exit frees that handler, since
every copy passes the same NULL `dev_id`.

**VidModule** is `v4l2_init` and `v4l2_exit` of the fake V4L2 driver, with open
files. A load is a number; its `fake_vid_device`, its `video_device` and its node
live and die separately, which is the point: the node outlives the rest. What
happens on a node between open and close is FakeVid, and `FilePinsDevice` is what
FakeVid starts from.

**Ehrpwm** is the PWM driver with its register-reading threads. Probe and remove
run under the device lock, one at a time; `pwm_exit` waits in `kthread_stop`
while sysfs may bind and unbind. Each probe starts a thread and forgets the one
before. The committed file does not compile (string literals broken over two
lines, `releaae_mem_region`); it is read as what it stands for.

**SomMmap** is the character driver with one `data` pointer. The allocator is
part of the model, since a freed block may be given to somebody else, who writes
to it: `owner` and `text` say whose it is and what it holds. A mapping keeps its
file open. **MmapApp** composes it with the test program: the processes in
`programs` run it, the others make any call in any order. `class_create` may fail
by itself or because an earlier load left its name; nobody looks. The kernel may refuse a
mapping before it calls the driver. `unmap`, which no library has, is read as
`munmap`.

**Epm** is the character and SPI driver. `objs` is what the present load has
registered, `stale` what earlier ones left behind. Users sleep in `generic_open`,
also while `epm_init` has yet to register the SPI driver.

**NetFilter** has packets on their way through one or both hooks, a writer in
`nf_store`, and set-up and tear-down call by call. The wait of
`nf_unregister_hook` for packets inside a hook, and that of the removal of a
sysfs file for writers, are the kernel's. `nf_unregister_hook` of a hook whose
registration failed follows null list links, unless the kernel was built to check
them: a choice.

**NetCapture** has buffers with references, handed to the stack's own handler and
to `packet_rcv`, and an interface that is plugged and unplugged. `ntohs` is
modelled by what it does on a little-endian machine.

**CustomBus** is the bus module, the driver module and clients that register
devices through the exported functions. The driver core lists a device or driver
first and looks for partners then, so the two sides interleave. Root may unbind
and bind devices through sysfs, which the bus offers; `unbound` remembers what was
unbound and not probed again (`drivers_autoprobe` stays on). Names are
sequences of parts, compared as `strncmp` does over the driver's length. The
driver module has its own copy of `custom_register_driver`; the one the bus
exports does the same and has no caller.

**FbPl111** has the references of the DRM device: one of the binding, one per
open file. The platform device and the DRM device are static data of the module.
A probe may fail at any set of its calls and goes on after most of them. `Causes`
says which of them, and which uses, can harm the kernel: an initialisation of the
device that failed (what follows uses it), one of the pipe that failed (line 173
goes through the plane's device, which may not be set), and a probe while the
device is open from an earlier one. `drm_mode_config_init` is taken to succeed.

**DrmApp** is the DRM program on any card: any ioctl may fail, and rows of a
buffer may be padded. An entry of `res_conn_buf` is two 32-bit words, as the
kernel writes it. **VlanSender** is the packet sender while its interface is
deleted and created again, with a new index.

`MCFakeVid`, `MCGrabber`, `MCCaptureSystem` and `MCDmTimer` give constants their
values. `MCNetwork`, `MCModules` and `MCPrograms` put parts that share nothing
side by side, by `EXTENDS` and `INSTANCE`: a variable `part`, chosen at the start,
says which of them runs, and the others stay in one initial state. So a run
explores the union of the parts' state graphs, each as if it were alone, and not
their product, in which no further behaviour of a part would appear.

The modules named `*Proofs` hold the theorems. Definitions named
`*_mutant_*` are faulty variants of the definition that follows them, kept to
show that each property can fail.

## Runs

| run | configuration | shows |
|---|---|---|
| driver_faults | 2 callers, 3 buffers, both failures | `BufferOwnership`, `NoLeak`, `DrainExclusive`, `ThreadAccounted`, `OopsExplained` |
| driver_fifo | 2 callers, 3 buffers, no failure | `ImplementsFrameQueue` |
| driver_progress | 2 callers, 2 buffers, both failures, fair | `StreamOffCompletes`, `FramesComeBack` |
| program_any_device | 4 buffers asked for, 0 to 5 granted, lengths 1 and 2, `-c` 0, 2 and -1, 3-bit `unsigned` | `CountHonoured`, `FrameInMemory`, `CleanExit` |
| capture | 4 buffers asked for, 1 to 4 granted, 0 or 6 frames, failures and refusals, program within 200 ms or not, fair | `QueuedInMemory`, `NeverStarved`, `FailureExplained`, `Terminates` |
| timer_lifecycle | 3 successful probes, every call of probe may fail, fair interrupts | `FirstLoadSafe`, `BoundReady`, `RegionsReturned`, `KeepsFiring` |
| network: NetFilter | 2 packets, 3 writes, every failure | `DisableIsFirm`; `FilterSafe`: `CallbackInModule`, `HarmExplained` |
| network: NetCapture | 2 buffers, 2 loads, interface plugged and unplugged | `CaptureSafe`: `NoUseAfterFree`, `RefPerHandler`, `DevAlive`, `CapturesOnInterface` |
| network: VlanSender | vlan100 created 3 times, both failures, fair | `PrivateVlan`, `KeepsSending` |
| modules: Ehrpwm | 3 probes, every failure, fair | `ReaderConfined`, `ExitCompletes`; `PwmReturned`: `ReaderKnown`, `NoRegionHeld` |
| modules: Epm | 3 users asleep in open, every failure | `EpmSafe`: `CodeStays`, `CharDevReturned` |
| modules: VidModule | 3 users, 4 loads, every failure | `VideoSafe`: `FilePinsDevice`, `DevsReturned`, `LiveNode` |
| modules: FbPl111 | 3 users, every failure | `FbSafe`: `BoundHasNode`, `ReleasedLast`, `FilePinsModule`, `HarmExplained` |
| modules: CustomBus | 4 device names, every failure, sysfs | `BoundExactly`; `BusSafe`: `Unwound`, `UsersHaveBus` |
| programs: SomMmap, MmapApp | 2 processes, 2 mappings, 3 blocks, every failure | `NoBlockLost`; `MmapSafe`: `MappedIsOwned`, `FreedOnce`, `UnloadSafe`; `ProgramSafe`: `ReadsHello`, `AloneIsSafe` |
| programs: DrmApp | 7 cards, sizes 1 to 3, padded rows, fair | `DrawingEnds`; `DrmSafe`: `DrawsInMapping`, `Only201` |
| program_committed | the program as committed | violation of `CountHonoured` |
| capture_force_format | the program on the driver | violation of `FormatCanBeForced` |
| timer_period | - | violation of `EverySecond` |

`driver_faults`, `program_any_device` and `timer_lifecycle` also check the `TypeOK`
of their module. In the three runs of several parts a name before a colon is an
invariant of the `MC` module, the conjunction of the invariants listed, which are
stated in the part's own module, and of its `TypeOK` (VlanSender has none, and
MmapApp's is SomMmap's).

The violations are disagreements between the code and its own words: `-c` and
`-f` of the program's usage text promise what the committed program and the
driver's `vidioc_s_fmt_vid_cap` do not do, and the timer's period is one tick
longer than the second its first line promises.

In the smaller modules the models show the following, which the code's words
do not say; the passing properties are stated around it.

* `ehrpwm.c:88` checks whether memory is "available for use by the driver"; line
  90 only prints that it is not, and probe goes on to read it.
* `epm.c:88` says that a non-zero return means a module that could not be loaded;
  line 112 takes only -1 for a failure, so after a failed `cdev_add` it is.
* `epm.c:134` says "Unregistered"; the SPI driver of line 116 stays registered.
* `vid4linux.c:454` says "Deregistering"; line 455 names the embedded
  `video_device`, and the registered one keeps its node.
* `netcapture.c:12` captures "on Interface"; when line 86 does not find it, on all
  (`CapturesOnInterface`). Line 61 applies `ntohs` to a tag in host order: VLAN
  100 is logged as 1024.
* `drm_app.c:149` goes through "all available connectors"; line 162 reads 32-bit
  ids as 64-bit entries, and so looks at every other one.

What the passing runs say that is less obvious:

* The thread ends for good when it finds the list empty. A program slower than
  the frame period makes that happen, and its `select` then times out
  (`FailureExplained`); one that is not never does (`NeverStarved`), and the
  proof says so for a single buffer too. Besides, a capture fails only where the
  device or memory is refused, the format is forced, too few buffers are granted or
  the thread cannot be started, and none of its asserts ever does.
* The unlocked walk of `stop_streaming` is safe, because `kthread_stop` has
  waited for the thread and the queue's mutex keeps other callers out.
* A failed `kthread_run` leaves vb2 and the driver disagreeing about who owns
  the buffers; `BufferOwnership` and `NoLeak` hold until then, and
  `OopsExplained` names this and the self-ended thread as the only causes of
  damage.
* `dmtimer_remove` neither stops the timer nor frees the interrupt. Until it has
  run once, no interrupt can do harm (`FirstLoadSafe`), although the handler is
  registered before what it uses: the timer is started last. Two failures that
  probe does not notice are the exceptions. After a removal an interrupt may do
  harm until the driver is bound again (`BoundReady`); only the handler of a module
  that went after a probe without a line stays dangerous longer.
* Unloading the netfilter module harms the kernel after two failures that
  `nf_module` goes on after, and after no others (`HarmExplained` of NetFilter);
  unloading the mmap driver does after a failed load or a failed `class_create`
  (`UnloadSafe`).
* Of all the video nodes that loads leave behind, the present one has its device
  (`LiveNode`).
* `pwm_exit` stops the thread before anything is unmapped, so without a sysfs
  unbind the thread reads only mapped registers; with one, a second probe leaves
  a thread nobody can stop (`ReaderConfined`, `ReaderKnown`).
* The mmap driver is safe for one file at a time that is mapped once and then
  closed, which is how its test program uses it; two instances of the same
  program are enough to read freed memory and to free twice, and so is one whose
  mapping the kernel refuses after an earlier run (`AloneIsSafe`).
* A verdict written while a packet is between the two hooks, or inside one,
  never lets through a packet that saw only a disabled host (`DisableIsFirm`).
* However a device and the driver are registered against each other, exactly the
  matching devices are bound in the end, but for those root has unbound: a pair
  that is met twice is bound once (`BoundExactly`).
* The DRM program ignores the pitch of its buffer, and still draws inside it:
  the pitch can only be larger (`DrawsInMapping`).

### Bounds

Two callers reach every pair of concurrent ioctls; more callers only wait for
the same mutex. Three buffers let one be in the thread's hand, one linked and
one on its way in. `program_any_device` gives fewer, as many, and more buffers
than asked for; lengths of 1 and 2 (`MaxLength`) make buffers of different
lengths and frames shorter than theirs; a 3-bit `unsigned` wraps -1 to 7. Six frames are more than the
four buffers, so that every buffer is queued again. Three probes allow
a first load, an unbind and bind, and a second load. `MaxBuffers`,
`MaxGranted`, `MaxLength`, `UINT` and `MaxDescs` are the named bounds; the proofs do without
values for theirs.

In the small modules two files, packets or buffers are enough for one to be in
the way of the other; there are three users, so that a reference count can be
wrong by one in both directions. Three probes in Ehrpwm leave two threads forgotten
(`MaxProbes`); three blocks in SomMmap let a freed one be reused by the driver
and by others; three writes in NetFilter disable, enable and disable again
(`MaxWrites`). `MaxLoads` bounds loads, `MaxIndex` the times vlan100 is created.
The cards of MCPrograms have connector 201 in every position that the packing of
ids and the overwritten third entry tell apart; the program's 500 drawing rounds
are the constant `Rounds`. The device names of MCModules are the driver's own, a
longer one, a shorter one and a different one.

### Fairness

The scheduler runs a thread that can run, and a caller inside the kernel; timed
sleeps end (weak fairness of the thread and of the ioctl in progress). Spinlocks
are granted in turn (strong fairness of the two lock acquisitions). User threads
are not obliged to issue ioctls in FakeVid; in CaptureSystem the process is run.
In DmTimer the hardware counts and is heard, and softirqs run; nobody has to
load or unload anything. In CaptureSystem `select` times out only when the
thread is not running: a frame takes 200 ms and the timeout is two seconds.
In Ehrpwm the threads, the probe or remove in progress and the exit in progress
are run; nobody has to begin one. DrmApp and VlanSender are processes the
scheduler runs, whose ioctls and sleeps end; `KeepsSending` asks besides that the
interface stays. The other modules state safety only and assume no fairness.

## Proofs

Every invariant that a run checks is also proved, for every value of the
constants that satisfies the assumptions stated beside them, and so are the
refinement `ImplementsFrameQueue` and the action properties `FrameInMemory` and
`FailureExplained`.

| module | proves |
|---|---|
| `FakeVidProofs` | `TypeOK`, `BufferOwnership`, `DrainExclusive`, `ThreadAccounted`, `NoLeak`, `OopsExplained` |
| `FrameQueueProofs` | `ImplementsFrameQueue`, with no injected failure |
| `GrabberProofs` | `TypeOK`, `FrameInMemory`, `CleanExit`; `CountHonoured` with the capture enabled, and that no frame is processed without it |
| `CaptureSystemProofs` | `QueuedInMemory`, `NeverStarved`; `FailureExplained` for at least two buffers |
| `DmTimerProofs` | `TypeOK`, `FirstLoadSafe`, `BoundReady`, `RegionsReturned` |
| `NetworkProofs` | `FilterSafe`, `DisableIsFirm`, `CaptureSafe`, `PrivateVlan` |
| `ModulesProofs` | `ReaderConfined`, `PwmReturned`, `EpmSafe`, `VideoSafe`, `FbSafe`, `BusSafe`, `BoundExactly` |
| `ProgramsProofs` | `MmapSafe`, `NoBlockLost`, `ProgramSafe`, `DrmSafe` |

Each module states one inductive invariant, a conjunction of named parts, proves
that it holds at the start and that every action keeps it, and derives the
properties from it. TLC has checked each of these invariants on the instance of
the corresponding run.

**The driver.** None of its properties is inductive: ownership, for example,
depends on where the ioctl and the thread are. `Inv` has five parts:

* the types;
* `ControlInv`: what the ioctl in progress knows at each of its steps;
* `ThreadInv`: the thread holds a buffer exactly between taking and completing
  it and the lock exactly while it looks at the list; it lives from
  `start_streaming` to the join, and `dmaq->kthread` names it;
* `QueueInv` and `TodoInv`: vb2's lists have no duplicates, and agree with the
  buffers' states;
* `OwnInv`: the list, the thread's hand and the argument of `buf_queue` are
  disjoint and hold exactly the ACTIVE buffers.

The last two are claimed only until a start fails, after which they are false.
One lemma per kind of change to the lists (`CompleteKeeps`, `TakeKeeps`,
`LinkKeeps`, `DrainKeeps`, ...) says that it keeps them; `OwnershipStep` applies
these to the actions. `CompleteInv` adds the converse of `QueueInv`, that every
buffer is on the list its state names; the proofs about the program need it.

**The driver is a FIFO.** `FifoInv` says that `queued_list` is `done_list`, the
buffer in the thread's hand, `active`, and what the ioctl has yet to hand over,
in this order. Each action moves the boundary between two neighbours of that
list, which FrameQueue either sees as one of its steps or not at all. The lemmas
at the start of the module are about splitting and joining lists.

**The program.** `MemoryInv` says which buffers are held at each call, `FrameInv`
that frames read and frames left add up to `-c` modulo 2^w; the one frame on its
way, and the wrap of the counter when the loop ends, are what makes it more than
a sum.

**The program on the driver.** The driver's invariants are taken over by
instantiating `FakeVidProofs` with the program as the only caller, after showing
that every step of the system is a step of that driver or none. `ProgramInv` is
about the program alone. `LengthInv` says that every buffer held is at least as
long as the driver's image; `RefusalMoves` says where a refusal can meet the program. `PhaseInv` says, for every call and for the time spent
inside it, which buffers are out (queued and not yet dequeued), whether the
stream runs, and what the ioctl may return: before STREAMON exactly the first `i`
buffers are out, in the loop all of them, between DQBUF and QBUF all but one,
after STREAMOFF none; and when the program has ended, so has the thread. `FedInv`
is the argument for `NeverStarved`: the thread of a timely program wakes up only
when the program waits in `select` with nothing done; all buffers are out then and
none is done, so all are on `active` (`AllLinked`). The hypothesis of two buffers
for `FailureExplained` is needed, because `init_mmap` refuses to work with one;
the code asks for four.

**The timer.** The invariant records, for every position of the process, which
regions are requested, what is mapped and registered, that a handler outlives its
module only after a probe without a line, and that before the first removal the
timer runs only while the driver is bound.

**The smaller modules.** The properties of the form "harm only after a misuse"
become inductive by adding what holds as long as the misuse has not happened:
`ReaderInv` (without an unbind, only `my_thread` lives, and only while the
registers are mapped), `NotUnboundInv` (one reference of the DRM device per file
and one of the binding), `HeapInv` and `LostInv` (without overlapping files the
one pointer is the driver's block), `AloneInv` (where each process of the test
program is, when all run it), `SetupInv` and `FailureInv` (which hooks and files
exist at each step of loading), `AllowedInv` (which packets have seen an enabled
host), `ListedInv` and `InterfaceInv` (who refers to the interface).
`BoundExactly` rests on `MatchInv`: a registered device that matches is bound or
on the list the driver has still to go through; `MatchIsPrefix` shows that the
comparison over the driver's length finds exactly the names that begin with it.
`DrmSafe` rests on the size of each mapping being at least four times the area
drawn, whatever the pitch.

Assumptions on constants, besides sets being sets of the right kind: the process
and the callers differ from `Nobody`; at least one buffer is asked for; `UINT` is
positive; the users of the frame buffer are finitely many (its references are
counted); the device names are sequences of strings; a card has at most ten
connectors, which is the size of the program's arrays.

Model-checked only: liveness (`StreamOffCompletes`, `FramesComeBack`,
`Terminates`, `KeepsFiring`, `ExitCompletes`, `KeepsSending`, `DrawingEnds`),
which needs fairness and ENABLED and is out of this prover's reach; and the
expected violations.

## Not modelled

* Read i/o, EXPBUF, events and controls of the driver: vb2 and the control
  framework do all of it.
* Frame contents, timestamps, `-o`, `-d`, messages.
* The debug thread and the `SINGLE` variant of the timer driver, compiled out;
  `timer_irq_free_chip`, which nobody calls.
* GPIO: five calls at load and three at unload with no result looked at, no
  callback that is ever installed and no state but a number. (It frees an interrupt it never requested, which the
  kernel only warns about.)
* The display pipe's callbacks of PL111, `nf_show`, the bus's `custom_hotplug`
  (compiled, never installed) and the driver's `remove` and `shutdown` (never
  called): they log, format or do nothing.
* Register values of the timer and PWM blocks beyond what starts, stops and
  clears; the ids DrmApp passes on to modesetting (197 and 211 are fixed in the
  code, so what is on the screen depends on the card and not on the buffer).
* Cards with more than ten resources and modes beyond fifty, for which DrmApp's
  arrays are too small: left out of the constant `Cards`.

## Plan

Done: FakeVid with FrameQueue, Grabber, CaptureSystem and DmTimer; VidModule,
SomMmap with MmapApp, Ehrpwm, CustomBus, Epm, NetFilter, NetCapture, FbPl111,
DrmApp and VlanSender; the proofs of every invariant and of the refinement.
What can be modelled of the repository is. Left:

1. Action properties that the inductive invariants already support, such as the
   driver completing only buffers it owns, stated and proved beside them.
2. Theorems for one part at a time in `ModulesProofs`, `NetworkProofs` and
   `ProgramsProofs`, whose specifications put several side by side.
