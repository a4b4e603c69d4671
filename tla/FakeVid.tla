------------------------------ MODULE FakeVid ------------------------------
(***************************************************************************)
(* The fake V4L2 capture driver, src/lkml/v4l2/vid4linux.c, together with  *)
(* the part of videobuf2 (vb2) that calls it.                              *)
(*                                                                         *)
(* Actors: user threads issuing ioctls on the one file handle that owns    *)
(* the queue (Callers), and the kernel thread the driver starts for every  *)
(* stream (frame_generation_thread).  An ioctl runs under vq->lock, which  *)
(* v4l2_init sets to dev->mutex; dmaq->active is protected by dev->slock,  *)
(* except in stop_streaming, which walks it with no lock.                  *)
(*                                                                         *)
(* vb2 is not under src/: its transitions are modelled from the way the    *)
(* driver's callbacks use them.  An ioctl whose callbacks interleave with  *)
(* the thread takes several steps, recorded in step; its caller owns       *)
(* mutex meanwhile.                                                        *)
(***************************************************************************)
EXTENDS Integers, Sequences, SequencesExt

CONSTANTS
  Callers,     \* user threads that issue ioctls
  Nobody,      \* value of mutex when no caller owns it
  MaxBuffers,  \* bound: the largest buffer count REQBUFS is asked for
  Faults       \* which failures the environment injects

ASSUME CallersAssumption == Nobody \notin Callers
ASSUME BuffersAssumption == MaxBuffers \in Nat \ {0}
ASSUME FaultsAssumption  == Faults \subseteq {"kthread_run", "vaddr"}

Index   == 0 .. MaxBuffers - 1
NoBuf   == -1
VbState == {"DEQUEUED", "QUEUED", "ACTIVE", "DONE", "ERROR"}

VARIABLES
  \* struct vb2_queue
  num_buffers,             \* buffers allocated by REQBUFS: 0 .. num_buffers-1
  vbstate,                 \* vb2_buffer.state
  queued_list,             \* buffers from QBUF until DQBUF, in QBUF order
  done_list,               \* completed buffers, in completion order
  streaming,               \* STREAMON succeeded
  start_streaming_called,  \* the driver's start_streaming succeeded
  \* struct fake_vid_device
  mutex,                   \* owner of vq->lock
  slock,                   \* dev->slock: "free", or held by the "thread"
  active,                  \* dmaq->active
  kthread,                 \* dmaq->kthread: "NULL", "task" or "ERR" (error pointer)
  \* frame_generation_thread
  tpc,                     \* where the thread is
  sbuf,                    \* the buffer it has taken off dmaq->active
  should_stop,             \* kthread_stop has been called on it
  \* ioctls in progress
  op, step,                \* what mutex's owner is doing, and how far it is
  todo,                    \* buffers it has yet to pass to buf_queue
  waiting,                 \* callers blocked in DQBUF, mutex dropped
  ret,                     \* result of the last ioctl that returned
  \* history
  start_failed,            \* some start_streaming has returned an error
  dangling,                \* dmaq->active links freed buffers
  oops                     \* why the kernel is in an undefined state, if it is

queueVars  == <<num_buffers, vbstate, queued_list, done_list, streaming,
                start_streaming_called>>
threadVars == <<tpc, sbuf, should_stop>>
ioctlVars  == <<mutex, op, step, todo, waiting, ret>>
faultVars  == <<start_failed, dangling, oops>>
vars == <<queueVars, slock, active, kthread, threadVars, ioctlVars, faultVars>>

ThreadRunning == {"check", "lock", "locked", "fill", "done", "sleep"}
ThreadDead    == {"aborted", "failed"}   \* the thread returned -1 by itself

-----------------------------------------------------------------------------
(* Initial state: v4l2_init has registered the device (kzalloc'ed struct,  *)
(* empty lists, unlocked locks) and one file handle is open.               *)
v4l2_init_device ==
  /\ num_buffers = 0
  /\ vbstate = [b \in Index |-> "DEQUEUED"]
  /\ queued_list = <<>> /\ done_list = <<>>
  /\ streaming = FALSE /\ start_streaming_called = FALSE
  /\ mutex = Nobody /\ slock = "free"
  /\ active = <<>> /\ kthread = "NULL"
  /\ tpc = "none" /\ sbuf = NoBuf /\ should_stop = FALSE
  /\ op = "none" /\ step = "none" /\ todo = <<>> /\ waiting = {}
  /\ ret = "none"
  /\ start_failed = FALSE /\ dangling = FALSE /\ oops = "none"

(* queue_setup fixes the plane size of every buffer, v4l2_init the image   *)
(* size buf_prepare compares it with.                                      *)
queue_setup_size == 640 * 480 * 3
dev_image_size   == 640 * 480 * 3
buf_prepare_ok   == ~(queue_setup_size < dev_image_size)

-----------------------------------------------------------------------------
(* vb2 helpers (external).                                                 *)

(* The v4l2 core takes vq->lock before it calls an ioctl of the queue.     *)
Enter(c) ==
  /\ mutex = Nobody
  /\ c \notin waiting

Return(result) ==
  /\ mutex' = Nobody /\ op' = "none" /\ step' = "none" /\ todo' = <<>>
  /\ ret' = result

Continue(c, cmd, next, bufs) ==
  /\ mutex' = c /\ op' = cmd /\ step' = next /\ todo' = bufs
  /\ UNCHANGED ret

(* vb2_buffer_done: only a buffer the driver owns can be completed; for    *)
(* any other it warns and returns.                                         *)
vb2_buffer_done(b, result) ==
  IF vbstate[b] = "ACTIVE"
  THEN /\ vbstate' = [vbstate EXCEPT ![b] = result]
       /\ done_list' = Append(done_list, b)
  ELSE UNCHANGED <<vbstate, done_list>>

-----------------------------------------------------------------------------
(* The frame generation thread.                                            *)

fgt_check ==
  /\ tpc = "check"
  /\ tpc' = IF should_stop THEN "stopped" ELSE "lock"
  /\ UNCHANGED <<queueVars, slock, active, kthread, sbuf, should_stop,
                 ioctlVars, faultVars>>

fgt_lock ==
  /\ tpc = "lock"
  /\ slock = "free"
  /\ slock' = "thread"
  /\ tpc' = "locked"
  /\ UNCHANGED <<queueVars, active, kthread, sbuf, should_stop, ioctlVars,
                 faultVars>>

(* Mutant: the buffer is filled without being unlinked (no list_del).      *)
fgt_take_mutant_linked ==
  /\ tpc = "locked"
  /\ slock' = "free"
  /\ IF active # <<>>
     THEN sbuf' = Head(active) /\ tpc' = "fill"
     ELSE tpc' = "aborted" /\ UNCHANGED sbuf
  /\ UNCHANGED <<queueVars, active, kthread, should_stop, ioctlVars, faultVars>>

(* An empty list makes the thread give up: it returns -1 and exits.        *)
fgt_take ==
  /\ tpc = "locked"
  /\ slock' = "free"
  /\ IF active # <<>>
     THEN /\ sbuf' = Head(active)
          /\ active' = Tail(active)
          /\ tpc' = "fill"
     ELSE /\ tpc' = "aborted"
          /\ UNCHANGED <<sbuf, active>>
  /\ UNCHANGED <<queueVars, kthread, should_stop, ioctlVars, faultVars>>

(* vb2_plane_vaddr, then the memcpy into the plane.                        *)
fgt_fill ==
  /\ tpc = "fill"
  /\ tpc' \in {"done"} \cup (IF "vaddr" \in Faults THEN {"failed"} ELSE {})
  /\ UNCHANGED <<queueVars, slock, active, kthread, sbuf, should_stop,
                 ioctlVars, faultVars>>

(* Mutant: the filled buffer is not completed.                             *)
fgt_done_mutant_dropped ==
  /\ tpc = "done"
  /\ sbuf' = NoBuf
  /\ tpc' = "sleep"
  /\ UNCHANGED <<queueVars, slock, active, kthread, should_stop, ioctlVars,
                 faultVars>>

fgt_done ==
  /\ tpc = "done"
  /\ vb2_buffer_done(sbuf, "DONE")
  /\ sbuf' = NoBuf
  /\ tpc' = "sleep"
  /\ UNCHANGED <<num_buffers, queued_list, streaming, start_streaming_called,
                 slock, active, kthread, should_stop, ioctlVars, faultVars>>

(* Mutant: the thread waits for the next buffer instead of a timeout.      *)
fgt_sleep_mutant_wait ==
  /\ tpc = "sleep"
  /\ active # <<>>
  /\ tpc' = "check"
  /\ UNCHANGED <<queueVars, slock, active, kthread, sbuf, should_stop,
                 ioctlVars, faultVars>>

(* schedule_timeout_interruptible: 200 ms pass, or kthread_stop wakes it.  *)
fgt_sleep ==
  /\ tpc = "sleep"
  /\ tpc' = "check"
  /\ UNCHANGED <<queueVars, slock, active, kthread, sbuf, should_stop,
                 ioctlVars, faultVars>>

frame_generation_thread ==
  fgt_check \/ fgt_lock \/ fgt_take \/ fgt_fill \/ fgt_done \/ fgt_sleep

-----------------------------------------------------------------------------
(* Mutant: one buffer more than asked for.                                 *)
REQBUFS_mutant_one_more(c, n) ==
  /\ Enter(c)
  /\ ~streaming
  /\ num_buffers' = n + 1
  /\ vbstate' = [b \in Index |-> "DEQUEUED"]
  /\ queued_list' = <<>> /\ done_list' = <<>>
  /\ Return("ok")
  /\ UNCHANGED <<streaming, start_streaming_called, slock, active, kthread,
                 threadVars, waiting, faultVars>>

(* REQBUFS (vb2_ioctl_reqbufs): refused while streaming; otherwise it      *)
(* cancels what is queued, frees the old buffers and allocates n new ones  *)
(* through queue_setup and buf_init.                                       *)
REQBUFS(c, n) ==
  /\ Enter(c)
  /\ IF streaming
     THEN /\ Return("EBUSY")
          /\ UNCHANGED <<queueVars, dangling>>
     ELSE /\ num_buffers' = n
          /\ vbstate' = [b \in Index |-> "DEQUEUED"]
          /\ queued_list' = <<>> /\ done_list' = <<>>
          /\ dangling' = (dangling \/ active # <<>>)
          /\ Return("ok")
          /\ UNCHANGED <<streaming, start_streaming_called>>
  /\ UNCHANGED <<slock, active, kthread, threadVars, waiting, start_failed,
                 oops>>

(* QBUF (vb2_ioctl_qbuf): buf_prepare, then the buffer joins queued_list.  *)
(* It goes on to the driver if the driver is running; if STREAMON came     *)
(* before the first buffer, the driver is started now.                     *)
QBUF(c, b) ==
  /\ Enter(c)
  /\ IF b < num_buffers /\ vbstate[b] = "DEQUEUED" /\ buf_prepare_ok
     THEN /\ vbstate' = [vbstate EXCEPT ![b] = "QUEUED"]
          /\ queued_list' = Append(queued_list, b)
          /\ IF streaming
             THEN Continue(c, "QBUF", "handover",
                           IF start_streaming_called
                           THEN <<b>> ELSE Append(queued_list, b))
             ELSE Return("ok")
     ELSE /\ Return("EINVAL")
          /\ UNCHANGED <<vbstate, queued_list>>
  /\ UNCHANGED <<num_buffers, done_list, streaming, start_streaming_called,
                 slock, active, kthread, threadVars, waiting, faultVars>>

(* STREAMON (vb2_ioctl_streamon): with min_buffers_needed = 1, every       *)
(* queued buffer goes to the driver, then start_streaming is called; with  *)
(* no buffer queued the start is left to the first QBUF.                   *)
STREAMON(c) ==
  /\ Enter(c)
  /\ IF ~streaming /\ num_buffers >= 1 /\ queued_list # <<>>
     THEN /\ Continue(c, "STREAMON", "handover", queued_list)
          /\ UNCHANGED streaming
     ELSE /\ streaming' = (streaming \/ num_buffers >= 1)
          /\ Return(IF streaming' THEN "ok" ELSE "EINVAL")
  /\ UNCHANGED <<num_buffers, vbstate, queued_list, done_list,
                 start_streaming_called, slock, active, kthread, threadVars,
                 waiting, faultVars>>

(* vb2 makes the next buffer ACTIVE and calls buf_queue (external).        *)
enqueue_in_driver ==
  /\ step = "handover" /\ todo # <<>>
  /\ vbstate' = [vbstate EXCEPT ![Head(todo)] = "ACTIVE"]
  /\ step' = "queuing"
  /\ UNCHANGED <<num_buffers, queued_list, done_list, streaming,
                 start_streaming_called, slock, active, kthread, threadVars,
                 mutex, op, todo, waiting, ret, faultVars>>

(* Mutant: the buffer is linked at the head, ahead of older ones.          *)
buf_queue_mutant_head ==
  /\ step = "queuing"
  /\ slock = "free"
  /\ active' = <<Head(todo)>> \o active
  /\ todo' = Tail(todo)
  /\ step' = "handover"
  /\ UNCHANGED <<queueVars, slock, kthread, threadVars, mutex, op, waiting,
                 ret, faultVars>>

(* The list_add_tail under slock.  Adding a node that is linked already,   *)
(* or behind a freed node, corrupts the list.                              *)
buf_queue ==
  /\ step = "queuing"
  /\ slock = "free"
  /\ IF dangling \/ Head(todo) \in Range(active)
     THEN /\ oops' = "list_add"
          /\ UNCHANGED <<active, todo, step>>
     ELSE /\ active' = Append(active, Head(todo))
          /\ todo' = Tail(todo)
          /\ step' = "handover"
          /\ UNCHANGED oops
  /\ UNCHANGED <<queueVars, slock, kthread, threadVars, mutex, op, waiting,
                 ret, start_failed, dangling>>

handover_done ==
  /\ step = "handover" /\ todo = <<>>
  /\ IF start_streaming_called
     THEN Return("ok")
     ELSE step' = "starting" /\ UNCHANGED <<mutex, op, todo, ret>>
  /\ UNCHANGED <<queueVars, slock, active, kthread, threadVars, waiting,
                 faultVars>>

(* Mutant: the result of kthread_run is not stored in dmaq->kthread.       *)
start_streaming_mutant_unstored ==
  /\ step = "starting"
  /\ tpc' = "check" /\ sbuf' = NoBuf /\ should_stop' = FALSE
  /\ start_streaming_called' = TRUE /\ streaming' = TRUE
  /\ Return("ok")
  /\ UNCHANGED <<num_buffers, vbstate, queued_list, done_list, slock, active,
                 kthread, waiting, faultVars>>

(* start_streaming: kthread_run succeeds and its result is stored.         *)
start_streaming ==
  /\ step = "starting"
  /\ kthread' = "task"
  /\ tpc' = "check" /\ sbuf' = NoBuf /\ should_stop' = FALSE
  /\ start_streaming_called' = TRUE /\ streaming' = TRUE
  /\ Return("ok")
  /\ UNCHANGED <<num_buffers, vbstate, queued_list, done_list, slock, active,
                 waiting, faultVars>>

(* Mutant: no IS_ERR test, the error pointer passes for a thread.          *)
start_streaming_failed_mutant_unchecked ==
  /\ step = "starting"
  /\ "kthread_run" \in Faults
  /\ kthread' = "ERR"
  /\ start_streaming_called' = TRUE /\ streaming' = TRUE
  /\ Return("ok")
  /\ UNCHANGED <<num_buffers, vbstate, queued_list, done_list, slock, active,
                 threadVars, waiting, faultVars>>

(* start_streaming fails: dmaq->kthread keeps the error pointer and        *)
(* dmaq->active keeps every buffer.  vb2 takes the buffers back to QUEUED. *)
start_streaming_failed ==
  /\ step = "starting"
  /\ "kthread_run" \in Faults
  /\ kthread' = "ERR"
  /\ start_failed' = TRUE
  /\ vbstate' = [b \in Index |-> IF vbstate[b] = "ACTIVE"
                                 THEN "QUEUED" ELSE vbstate[b]]
  /\ Return("ERR")
  /\ UNCHANGED <<num_buffers, queued_list, done_list, streaming,
                 start_streaming_called, slock, active, threadVars, waiting,
                 dangling, oops>>

(* DQBUF (vb2_ioctl_dqbuf), once mutex is held and a buffer is done.       *)
dqbuf_take ==
  LET b == Head(done_list) IN
  /\ done_list' = Tail(done_list)
  /\ \E i \in DOMAIN queued_list :
        queued_list[i] = b /\ queued_list' = RemoveAt(queued_list, i)
  /\ vbstate' = [vbstate EXCEPT ![b] = "DEQUEUED"]

(* With nothing done DQBUF fails on a non-blocking file, and otherwise     *)
(* waits with mutex dropped (wait_prepare, wait_finish).                   *)
DQBUF(c, nonblocking) ==
  /\ Enter(c)
  /\ IF ~streaming
     THEN Return("EINVAL") /\ UNCHANGED <<vbstate, queued_list, done_list, waiting>>
     ELSE IF done_list # <<>>
     THEN dqbuf_take /\ Return("ok") /\ UNCHANGED waiting
     ELSE /\ IF nonblocking
             THEN Return("EAGAIN") /\ UNCHANGED waiting
             ELSE /\ waiting' = waiting \cup {c}
                  /\ UNCHANGED <<mutex, op, step, todo, ret>>
          /\ UNCHANGED <<vbstate, queued_list, done_list>>
  /\ UNCHANGED <<num_buffers, streaming, start_streaming_called, slock,
                 active, kthread, threadVars, faultVars>>

dqbuf_wakeup(c) ==
  /\ c \in waiting
  /\ mutex = Nobody
  /\ done_list # <<>> \/ ~streaming
  /\ waiting' = waiting \ {c}
  /\ IF streaming
     THEN dqbuf_take /\ Return("ok")
     ELSE Return("EINVAL") /\ UNCHANGED <<vbstate, queued_list, done_list>>
  /\ UNCHANGED <<num_buffers, streaming, start_streaming_called, slock,
                 active, kthread, threadVars, faultVars>>

(* A signal ends the wait.                                                 *)
dqbuf_interrupted(c) ==
  /\ c \in waiting
  /\ mutex = Nobody
  /\ waiting' = waiting \ {c}
  /\ Return("ERESTARTSYS")
  /\ UNCHANGED <<queueVars, slock, active, kthread, threadVars, faultVars>>

(* STREAMOFF and the release of the file both cancel the queue; the driver *)
(* is told only if it was started.  A file is released when no other call  *)
(* on it is in progress.                                                   *)
STREAMOFF(c) ==
  /\ Enter(c)
  /\ Continue(c, "STREAMOFF",
              IF start_streaming_called THEN "stopping" ELSE "cancel", <<>>)
  /\ UNCHANGED <<queueVars, slock, active, kthread, threadVars, waiting,
                 faultVars>>

vb2_fop_release(c) ==
  /\ Enter(c)
  /\ waiting = {}
  /\ Continue(c, "RELEASE",
              IF start_streaming_called THEN "stopping" ELSE "cancel", <<>>)
  /\ UNCHANGED <<queueVars, slock, active, kthread, threadVars, waiting,
                 faultVars>>

(* stop_streaming: kthread_stop on a thread that has already returned by   *)
(* itself uses a task_struct nobody holds: it may work or crash.           *)
stop_streaming_signal ==
  /\ step = "stopping"
  /\ \/ /\ kthread = "NULL"
        /\ step' = "draining"
        /\ UNCHANGED <<should_stop, oops>>
     \/ /\ kthread = "task" /\ tpc \notin ThreadDead
        /\ should_stop' = TRUE
        /\ step' = "joining"
        /\ UNCHANGED oops
     \/ /\ kthread = "task" /\ tpc \in ThreadDead
        /\ step' = "joining"
        /\ UNCHANGED <<should_stop, oops>>
     \/ /\ kthread = "ERR" \/ tpc \in ThreadDead
        /\ oops' = "kthread_stop"
        /\ UNCHANGED <<should_stop, step>>
  /\ UNCHANGED <<queueVars, slock, active, kthread, tpc, sbuf, mutex, op,
                 todo, waiting, ret, start_failed, dangling>>

(* Mutant: the thread is told to stop and not waited for.                  *)
stop_streaming_join_mutant_nowait ==
  /\ step = "joining"
  /\ kthread' = "NULL"
  /\ step' = "draining"
  /\ UNCHANGED <<queueVars, slock, active, threadVars, mutex, op, todo,
                 waiting, ret, faultVars>>

stop_streaming_join ==
  /\ step = "joining"
  /\ tpc \notin ThreadRunning
  /\ kthread' = "NULL"
  /\ step' = "draining"
  /\ UNCHANGED <<queueVars, slock, active, threadVars, mutex, op, todo,
                 waiting, ret, faultVars>>

(* Mutant: if instead of while, one buffer is returned.                    *)
stop_streaming_drain_mutant_one ==
  /\ step = "draining"
  /\ step' = "cancel"
  /\ IF active # <<>>
     THEN active' = Tail(active) /\ vb2_buffer_done(Head(active), "ERROR")
     ELSE UNCHANGED <<active, vbstate, done_list>>
  /\ UNCHANGED <<num_buffers, queued_list, streaming, start_streaming_called,
                 slock, kthread, threadVars, mutex, op, todo, waiting, ret,
                 faultVars>>

(* The unlocked walk that returns every remaining buffer with ERROR.       *)
stop_streaming_drain ==
  /\ step = "draining"
  /\ IF active # <<>>
     THEN /\ active' = Tail(active)
          /\ vb2_buffer_done(Head(active), "ERROR")
          /\ UNCHANGED step
     ELSE /\ step' = "cancel"
          /\ UNCHANGED <<active, vbstate, done_list>>
  /\ UNCHANGED <<num_buffers, queued_list, streaming, start_streaming_called,
                 slock, kthread, threadVars, mutex, op, todo, waiting, ret,
                 faultVars>>

(* The rest of vb2's queue cancel: every buffer back to user space.        *)
queue_cancel ==
  /\ step = "cancel"
  /\ vbstate' = [b \in Index |-> "DEQUEUED"]
  /\ queued_list' = <<>> /\ done_list' = <<>>
  /\ streaming' = FALSE /\ start_streaming_called' = FALSE
  /\ tpc' = "none" /\ sbuf' = NoBuf /\ should_stop' = FALSE
  /\ IF op = "RELEASE"
     THEN num_buffers' = 0 /\ dangling' = (dangling \/ active # <<>>)
     ELSE UNCHANGED <<num_buffers, dangling>>
  /\ Return("ok")
  /\ UNCHANGED <<slock, active, kthread, waiting, start_failed, oops>>

-----------------------------------------------------------------------------
(* An undefined kernel state is where the model stops.                     *)
Oopsed == oops # "none" /\ UNCHANGED vars

Ioctl(c) ==
  \/ \E n \in 0 .. MaxBuffers : REQBUFS(c, n)
  \/ \E b \in Index : QBUF(c, b)
  \/ STREAMON(c)
  \/ \E nonblocking \in BOOLEAN : DQBUF(c, nonblocking)
  \/ STREAMOFF(c)
  \/ vb2_fop_release(c)

IoctlStep ==
  \/ enqueue_in_driver \/ buf_queue \/ handover_done
  \/ start_streaming \/ start_streaming_failed
  \/ stop_streaming_signal \/ stop_streaming_join \/ stop_streaming_drain
  \/ queue_cancel

Init == v4l2_init_device

Next ==
  \/ /\ oops = "none"
     /\ \/ \E c \in Callers : Ioctl(c) \/ dqbuf_wakeup(c) \/ dqbuf_interrupted(c)
        \/ IoctlStep
        \/ frame_generation_thread
  \/ Oopsed

(* The scheduler runs the thread and a caller inside the kernel; a timed   *)
(* sleep ends; queued spinlocks are granted in turn.  User threads need    *)
(* not issue any ioctl.                                                    *)
Fairness ==
  /\ WF_vars(oops = "none" /\ IoctlStep)
  /\ SF_vars(oops = "none" /\ buf_queue)
  /\ WF_vars(oops = "none" /\ frame_generation_thread)
  /\ SF_vars(oops = "none" /\ fgt_lock)

Spec == Init /\ [][Next]_vars
FairSpec == Spec /\ Fairness

-----------------------------------------------------------------------------
(* Properties.                                                             *)

ListTypeOK ==
  /\ queued_list \in Seq(Index)
  /\ done_list \in Seq(Index)
  /\ active \in Seq(Index)
  /\ todo \in Seq(Index)

QueueTypeOK ==
  /\ num_buffers \in 0 .. MaxBuffers
  /\ vbstate \in [Index -> VbState]
  /\ streaming \in BOOLEAN
  /\ start_streaming_called \in BOOLEAN

DeviceTypeOK ==
  /\ slock \in {"free", "thread"}
  /\ kthread \in {"NULL", "task", "ERR"}
  /\ tpc \in ThreadRunning \cup ThreadDead \cup {"none", "stopped"}
  /\ sbuf \in Index \cup {NoBuf}
  /\ should_stop \in BOOLEAN

IoctlTypeOK ==
  /\ mutex \in Callers \cup {Nobody}
  /\ op \in {"none", "QBUF", "STREAMON", "STREAMOFF", "RELEASE"}
  /\ step \in {"none", "handover", "queuing", "starting", "stopping",
               "joining", "draining", "cancel"}
  /\ waiting \in SUBSET Callers
  /\ ret \in {"none", "ok", "EINVAL", "EAGAIN", "EBUSY", "ERR", "ERESTARTSYS"}

FaultTypeOK ==
  /\ start_failed \in BOOLEAN
  /\ dangling \in BOOLEAN
  /\ oops \in {"none", "list_add", "kthread_stop"}

(* Every variable has its type.                                            *)
TypeOK == ListTypeOK /\ QueueTypeOK /\ DeviceTypeOK /\ IoctlTypeOK /\ FaultTypeOK

(* Where the driver keeps the buffers vb2 has given it: on dmaq->active,   *)
(* in the thread's hand, or on the way in through buf_queue.               *)
InHand  == {sbuf} \ {NoBuf}
Arriving == IF step = "queuing" THEN {Head(todo)} ELSE {}

(* Until a start_streaming fails, a buffer is ACTIVE exactly when it is in *)
(* one of the driver's three places, it is in only one of them and linked  *)
(* once: the thread never writes to a buffer user space owns, and no       *)
(* buffer is completed twice or forgotten (vid4linux.c:85-111, 177-223).   *)
BufferOwnership ==
  ~start_failed =>
    /\ IsInjective(active)
    /\ {b \in Index : vbstate[b] = "ACTIVE"} = Range(active) \cup InHand \cup Arriving
    /\ Range(active) \cap (InHand \cup Arriving) = {}
    /\ InHand \cap Arriving = {}

(* When stop_streaming returns, the driver owns no buffer, as vb2 demands, *)
(* unless vb2_plane_vaddr failed and the thread returned with a buffer in  *)
(* its hand, or a start failed before (vid4linux.c:103-106, 204-223).      *)
NoLeak ==
  (step = "cancel" /\ tpc # "failed" /\ ~start_failed) =>
    \A b \in Index : vbstate[b] # "ACTIVE"

(* stop_streaming walks dmaq->active without slock: while it does, the     *)
(* thread has ended and nobody holds slock (vid4linux.c:210-220).          *)
DrainExclusive ==
  step = "draining" => tpc \notin ThreadRunning /\ slock = "free"

(* A running thread is the one dmaq->kthread names and belongs to a        *)
(* started stream; stop_streaming never finds NULL or the error pointer    *)
(* there (vid4linux.c:124-129, 210-213).                                   *)
ThreadAccounted ==
  /\ tpc \in ThreadRunning => kthread = "task" /\ start_streaming_called
  /\ step = "stopping" => kthread = "task"

(* The two ways this driver can corrupt the kernel: a start_streaming that *)
(* failed and left its buffers linked (list_add, vid4linux.c:126-129), and *)
(* kthread_stop on a thread that returned by itself (vid4linux.c:100, 105, *)
(* 211).  No other interleaving leads there.                               *)
OopsExplained ==
  /\ (oops = "list_add" \/ dangling) => start_failed
  /\ oops = "kthread_stop" => tpc \in ThreadDead /\ kthread = "task"

(* Every STREAMOFF or close that has reached the driver returns: the       *)
(* thread always sees kthread_should_stop within one frame time            *)
(* (vid4linux.c:80-82, 113, 204-223).                                      *)
StreamOffCompletes ==
  (step = "stopping") ~> (mutex = Nobody \/ oops # "none")

(* A buffer the driver has linked while its thread runs comes back, filled *)
(* or with an error, unless vb2_plane_vaddr fails.  A thread that gives up *)
(* on an empty list has left none behind (vid4linux.c:80-114, 215-220).    *)
FramesComeBack ==
  \A b \in Index :
    (vbstate[b] = "ACTIVE" /\ b \notin Arriving /\ tpc \in ThreadRunning)
      ~> (vbstate[b] # "ACTIVE" \/ tpc = "failed" \/ oops # "none")

(* The abstract view of the queue: done_list is the part of queued_list    *)
(* that is ready.                                                          *)
FQ == INSTANCE FrameQueue WITH
        Buffers <- Index,
        ready   <- done_list,
        pending <- SubSeq(queued_list, Len(done_list) + 1, Len(queued_list))

(* With no injected failure the driver is a FIFO: buffers are completed    *)
(* and dequeued in the order they were queued, each once, through the      *)
(* thread, the drain of stop_streaming and every interleaving of callers   *)
(* (vid4linux.c:85-88, 186, 215-218).                                      *)
ImplementsFrameQueue == FQ!Spec
=============================================================================
