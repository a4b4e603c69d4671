--------------------------- MODULE CaptureSystem ---------------------------
(***************************************************************************)
(* The capture program (Grabber) on the fake capture driver (FakeVid).     *)
(*                                                                         *)
(* A system call of the program that reaches the driver is two steps: the  *)
(* call, which starts the ioctl in the driver, and the return, which takes *)
(* its result once the ioctl has given up the queue's mutex.  Between the  *)
(* two the driver and its thread run.  open_device opens the device with   *)
(* O_NONBLOCK, so DQBUF never waits.                                       *)
(*                                                                         *)
(* Read i/o goes through vb2's file-io emulation and is left out.          *)
(***************************************************************************)
EXTENDS Integers, Sequences

CONSTANTS
  Process, Nobody,          \* the one caller of the driver, and no caller
  ReqCount, FrameCounts, UINT, CaptureEnabled,   \* of Grabber
  Faults,                   \* of FakeVid
  Refusals                  \* what the system may refuse the program: "open"
                            \* (stat or open fails), "memory" (mmap, malloc,
                            \* or what REQBUFS and QBUF need)

ASSUME ProcessAssumption  == Process # Nobody
ASSUME ReqCountAssumption == ReqCount \in Nat \ {0}
ASSUME FaultsAssumption   == Faults \subseteq {"kthread_run", "vaddr"}
ASSUME RefusalsAssumption == Refusals \subseteq {"open", "memory"}

VARIABLES
  num_buffers, vbstate, queued_list, done_list, streaming,
  start_streaming_called, mutex, slock, active, kthread, tpc, sbuf,
  should_stop, op, step, todo, waiting, ret, start_failed, dangling, oops,
  pc, status, io, force_format, frame_count, fd, req_count, n_buffers, held,
  length, i, count, buf, size, frames,
  calling,                  \* the program is inside the kernel
  index,                    \* what the last DQBUF stored in buf.index
  file,                     \* the kernel's struct file: "none" or "open"
  timely,                   \* never changes: the program handles a frame, and
                            \* issues its next call, within the thread's 200 ms
  refused                   \* history: "none", or what was refused

Dev == INSTANCE FakeVid WITH Callers <- {Process}, MaxBuffers <- ReqCount
App == INSTANCE Grabber WITH MaxGranted <- ReqCount, MaxLength <- Dev!queue_setup_size

queueVars  == <<num_buffers, vbstate, queued_list, done_list, streaming,
                start_streaming_called>>
driverVars == <<slock, active, kthread, tpc, sbuf, should_stop, waiting,
                start_failed, dangling, oops>>
devVars == <<queueVars, driverVars, mutex, op, step, todo, ret>>
appVars == <<pc, status, io, force_format, frame_count, fd, req_count,
             n_buffers, held, length, i, count, buf, size, frames>>
vars == <<devVars, appVars, calling, index, file, timely, refused>>

-----------------------------------------------------------------------------
(* What the driver answers to the ioctls that have no state.               *)
vidioc_querycap == {"VIDEO_CAPTURE", "STREAMING", "READWRITE"}

width  == 640
height == 480
depth  == 24

(* Mutant: the depth of another entry of formats.                          *)
vidioc_g_fmt_vid_cap_mutant_depth == height * ((width * 16) \div 8)

(* f->fmt.pix.sizeimage                                                    *)
vidioc_g_fmt_vid_cap == height * ((width * depth) \div 8)

(* No format can be set.                                                   *)
vidioc_s_fmt_vid_cap == "error"

(* The length of the buffers the program allocates for user pointers, and  *)
(* of the ones it gets from QUERYBUF to map.                               *)
buffer_size == vidioc_g_fmt_vid_cap
BufferLength == IF io = "MMAP" THEN Dev!queue_setup_size ELSE buffer_size

(* vb2 refuses a user pointer to less memory than queue_setup asked for.   *)
UserMemoryTooSmall == io = "USERPTR" /\ buffer_size < Dev!queue_setup_size

-----------------------------------------------------------------------------
Init ==
  /\ Dev!Init /\ App!Init /\ calling = FALSE /\ index = 0 /\ file = "none"
  /\ timely \in BOOLEAN /\ refused = "none"

Result ==
  IF ret \in {"ok", "EAGAIN"} THEN ret ELSE "error"

(* The program enters the driver; the driver leaves its own trace.         *)
Call(p) ==
  /\ App!Running(p) /\ ~calling
  /\ calling' = TRUE
  /\ UNCHANGED <<appVars, file>>

Returned(p) ==
  /\ App!Running(p) /\ calling
  /\ mutex = Nobody
  /\ calling' = FALSE
  /\ UNCHANGED <<devVars, index>>

(* vb2 may grant fewer buffers than it is asked for, never none.           *)
call_reqbufs ==
  /\ Call("init_io")
  /\ \E n \in 1 .. ReqCount : Dev!REQBUFS(Process, n)
  /\ UNCHANGED index

return_reqbufs ==
  /\ Returned("init_io")
  /\ App!init_reqbufs(Result, num_buffers)
  /\ UNCHANGED file

(* A user pointer to too little memory is refused before buf_prepare.      *)
QbufOf(b) ==
  IF UserMemoryTooSmall
  THEN Dev!Enter(Process) /\ Dev!Return("EINVAL")
       /\ UNCHANGED <<queueVars, driverVars>>
  ELSE Dev!QBUF(Process, b)

call_qbuf == Call("qbuf") /\ i < n_buffers /\ QbufOf(i) /\ UNCHANGED index

call_streamon ==
  Call("qbuf") /\ i = n_buffers /\ Dev!STREAMON(Process) /\ UNCHANGED index

return_start ==
  /\ Returned("qbuf")
  /\ App!start_capturing_qbuf(Result) \/ App!start_capturing_streamon(Result)
  /\ UNCHANGED file

(* select returns at once when a frame is done (vb2_fop_poll), and after   *)
(* its two seconds when none will be: the thread produces one every 200 ms *)
(* as long as it runs.                                                     *)
select ==
  /\ ~calling
  /\ \/ done_list # <<>> /\ App!mainloop_select("ok")
     \/ /\ done_list = <<>> /\ tpc \notin Dev!ThreadRunning
        /\ App!mainloop_select("timeout")
  /\ UNCHANGED <<devVars, calling, index, file>>

call_dqbuf ==
  /\ Call("read_frame")
  /\ Dev!DQBUF(Process, TRUE)
  /\ index' = IF done_list # <<>> THEN Head(done_list) ELSE index

(* bytesused is the payload buf_prepare has set.                           *)
return_dqbuf ==
  /\ Returned("read_frame")
  /\ App!read_frame(Result, index, Dev!dev_image_size)
  /\ UNCHANGED file

call_requeue == Call("requeue") /\ QbufOf(buf) /\ UNCHANGED index

return_requeue ==
  /\ Returned("requeue")
  /\ App!read_frame_requeue(Result)
  /\ UNCHANGED file

call_streamoff ==
  Call("stop") /\ Dev!STREAMOFF(Process) /\ UNCHANGED index

return_streamoff ==
  Returned("stop") /\ App!stop_capturing(Result) /\ UNCHANGED file

call_close ==
  Call("close") /\ Dev!vb2_fop_release(Process) /\ UNCHANGED index

return_close ==
  Returned("close") /\ App!close_device("ok") /\ file' = "none"

(* The steps that reach the driver without changing it, or not at all.     *)
local_step ==
  /\ ~calling
  /\ \/ App!main_options /\ io' # "READ" /\ UNCHANGED file
     \/ App!open_device("ok") /\ file' = "open"
     \/ App!init_device_caps("ok", vidioc_querycap) /\ UNCHANGED file
     \/ /\ App!init_device_format(IF force_format THEN vidioc_s_fmt_vid_cap ELSE "ok")
        /\ UNCHANGED file
     \/ /\ App!init_map("ok", BufferLength) \/ App!init_done \/ App!mainloop
           \/ App!uninit_device("ok") \/ App!main_return
        /\ UNCHANGED file
  /\ UNCHANGED <<devVars, calling, index>>

(* What the program does when the system refuses it something.  REQBUFS    *)
(* leaves no buffers if it cannot have all; a calloc after it may fail     *)
(* too.  vb2 pins the memory of a user pointer when it is queued first, so *)
(* that a re-queue cannot fail for want of it.  A mapping of the device is *)
(* a region of its own, and munmap of the whole needs no memory.           *)
refusal ==
  /\ calling => mutex = Nobody
  /\ \/ /\ refused' = "open"
        /\ App!open_device("error")
     \/ /\ refused' = "memory"
        /\ \/ App!init_reqbufs("error", num_buffers)
           \/ App!init_map("error", BufferLength)
           \/ ~calling /\ io = "USERPTR" /\ App!start_capturing_qbuf("error")
  /\ refused' \in Refusals
  /\ calling' = FALSE
  /\ UNCHANGED <<devVars, index, file>>

(* However the program ends, the kernel closes its file.                   *)
exit_release ==
  /\ status # "running" /\ file = "open" /\ ~calling
  /\ Dev!vb2_fop_release(Process)
  /\ calling' = TRUE
  /\ UNCHANGED <<appVars, index, file>>

exit_released ==
  /\ status # "running" /\ calling /\ mutex = Nobody
  /\ calling' = FALSE /\ file' = "none"
  /\ UNCHANGED <<devVars, appVars, index>>

(* A program that is not slow is waiting for a frame, or for the driver to *)
(* stop, whenever the thread's sleep ends.                                 *)
SleepMayEnd ==
  timely => should_stop \/ (pc = "select" /\ done_list = <<>>)

ThreadStep ==
  /\ tpc = "sleep" => SleepMayEnd
  /\ Dev!frame_generation_thread
  /\ UNCHANGED <<appVars, calling, index, file, timely, refused>>

DriverStep ==
  Dev!IoctlStep /\ UNCHANGED <<appVars, calling, index, file, timely, refused>>

ProcessStep ==
  /\ \/ refusal
     \/ /\ \/ local_step \/ select
           \/ call_reqbufs \/ return_reqbufs \/ call_qbuf \/ call_streamon \/ return_start
           \/ call_dqbuf \/ return_dqbuf \/ call_requeue \/ return_requeue
           \/ call_streamoff \/ return_streamoff \/ call_close \/ return_close
           \/ exit_release \/ exit_released
        /\ UNCHANGED refused
  /\ UNCHANGED timely

Finished == status # "running" /\ file = "none" /\ ~calling

Next ==
  \/ oops = "none" /\ (ProcessStep \/ DriverStep \/ ThreadStep)
  \/ (oops # "none" \/ Finished) /\ UNCHANGED vars

(* The scheduler runs the process and the thread, and a spinlock is not    *)
(* refused for ever.                                                       *)
Fairness ==
  /\ WF_vars(oops = "none" /\ (ProcessStep \/ DriverStep))
  /\ SF_vars(oops = "none" /\ DriverStep /\ Dev!buf_queue)
  /\ WF_vars(oops = "none" /\ ThreadStep)
  /\ SF_vars(oops = "none" /\ ThreadStep /\ Dev!fgt_lock)

Spec == Init /\ [][Next]_vars /\ Fairness

-----------------------------------------------------------------------------
(* Properties.                                                             *)

(* While the program runs, every buffer the driver may write to is backed  *)
(* by memory the program has not given back, and the image the driver will *)
(* say it has put there fits: STREAMOFF comes before the munmap or free    *)
(* (grabber.c:208-224, 274-296, 361, 402; vid4linux.c:108-111, 165-172).   *)
QueuedInMemory ==
  status = "running" =>
    \A b \in Dev!Index : vbstate[b] \in {"QUEUED", "ACTIVE"} =>
      b \in held /\ Dev!dev_image_size <= length[b]

(* The only ways a capture fails on this driver: the device cannot be      *)
(* opened or memory is refused, the format cannot be set, vb2 granted too  *)
(* few buffers, the thread could not be started, or the thread has given   *)
(* up and select times out.  The asserts on what DQBUF returns never fail, *)
(* no ioctl fails for another reason, and none but the select once the     *)
(* capture has started (grabber.c:50-54, 123, 157, 196-199, 302, 336-344,  *)
(* 369, 396, 405, 527-543; vid4linux.c:96-106, 326-333).                   *)
FailureExplained ==
  [][(status = "running" /\ status' \in {"failure", "aborted"}) =>
       /\ status' = "failure"
       /\ \/ pc = "options"
          \/ pc = "open" /\ refused' = "open"
          \/ pc \in {"init_io", "map", "qbuf"} /\ refused' = "memory"
          \/ pc = "format" /\ force_format
          \/ pc \in {"init_io", "qbuf"} /\ num_buffers < ReqCount
          \/ pc = "qbuf" /\ start_failed
          \/ pc = "select" /\ tpc \in Dev!ThreadDead]_vars

(* The program ends and its file is closed, whatever the thread does and   *)
(* whether or not it is still alive (grabber.c:169-205; vid4linux.c:80-82, *)
(* 204-223).                                                               *)
Terminates == <>(Finished \/ oops # "none")

(* A program that returns each frame within the thread's sleep never lets  *)
(* dmaq->active run empty, not even with one buffer: the thread does not   *)
(* give up on it (grabber.c:127-129, 161-163; vid4linux.c:96-101, 113).    *)
NeverStarved == timely => tpc # "aborted"

(* -f: the format can be forced.                                           *)
FormatCanBeForced == ~(status = "failure" /\ pc = "format" /\ force_format)
=============================================================================
