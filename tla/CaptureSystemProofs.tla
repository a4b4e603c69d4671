------------------------ MODULE CaptureSystemProofs ------------------------
(***************************************************************************)
(* Theorems about CaptureSystem, for every number of buffers, every list   *)
(* of frame counts and every choice of injected failures: what the program *)
(* and the driver promise each other, system call by system call.          *)
(*                                                                         *)
(* The driver's own invariants come from FakeVidProofs, instantiated with  *)
(* the program as its only caller.                                         *)
(***************************************************************************)
EXTENDS MCCaptureSystem, TLAPS

DevP == INSTANCE FakeVidProofs WITH Callers <- {Process}, MaxBuffers <- ReqCount

-----------------------------------------------------------------------------
(* The inductive invariant.                                                *)

Buffers == 0 .. ReqCount - 1

(* A buffer is out from the QBUF that gives it to the kernel to the DQBUF  *)
(* or STREAMOFF that takes it back.                                        *)
Out(b) == vbstate[b] # "DEQUEUED"
OutBelow(n) == \A b \in Buffers : Out(b) <=> b < n
OutBut(x)   == \A b \in Buffers : Out(b) <=> (b < n_buffers /\ b # x)

Handing  == step \in {"handover", "queuing", "starting"}
Stopping == step \in {"stopping", "joining", "draining", "cancel"}

(* The driver before a capture and after it.                               *)
Idle ==
  /\ OutBelow(0)
  /\ ~streaming /\ ~start_streaming_called /\ ~start_failed /\ ~Handing

(* The driver during one; its thread may have given up.                    *)
Live ==
  /\ start_streaming_called /\ ~start_failed /\ ~should_stop
  /\ tpc \notin {"none", "stopped"}

Opening   == {"options", "open", "querycap", "format", "init_io"}
Capturing == {"qbuf", "mainloop", "select", "read_frame", "requeue", "stop"}
Closing   == {"unmap", "close", "return"}

(* The program's own state: what it holds at each call.                    *)
ProgramInv ==
  /\ calling \in BOOLEAN
  /\ status \in {"running", "success", "failure", "aborted"}
  /\ pc \in Opening \cup {"map"} \cup Capturing \cup Closing
  /\ io \in {"MMAP", "USERPTR"}
  /\ req_count \in 0 .. ReqCount /\ n_buffers \in 0 .. req_count
  /\ i \in 0 .. n_buffers
  /\ mutex # Nobody => calling
  /\ pc \in Opening => n_buffers = 0 /\ held = {}
  /\ pc = "map" => i = 0 /\ req_count >= 1
  /\ pc \in {"map"} \cup Capturing => held = 0 .. n_buffers - 1
  /\ pc \in Capturing => n_buffers >= 1
  /\ (status = "running" /\ calling) =>
       pc \in {"init_io", "qbuf", "read_frame", "requeue", "stop", "close"}

(* The image of the driver fits in every buffer the program holds.         *)
LengthInv ==
  /\ length \in [App!Indices -> Nat]
  /\ \A b \in held : Dev!dev_image_size <= length[b]

(* What the driver is doing at each call of the program.                   *)
IdlePhase ==
  (status = "running" /\ pc \in Opening \cup {"map"} \cup Closing) =>
    /\ Idle
    /\ (pc = "init_io" /\ calling) => mutex = Nobody /\ ret = "ok"

QbufPhase ==
  (status = "running" /\ pc = "qbuf" /\ (calling => i < n_buffers)) =>
    /\ ~streaming /\ ~start_streaming_called /\ ~start_failed /\ mutex = Nobody
    /\ ~calling => OutBelow(i)
    /\ calling => \/ ret = "ok" /\ OutBelow(i + 1)
                  \/ ret = "EINVAL" /\ num_buffers <= i /\ OutBelow(i)

StartPhase ==
  (status = "running" /\ pc = "qbuf" /\ calling /\ i = n_buffers) =>
    /\ OutBelow(n_buffers)
    /\ \/ Handing /\ ~start_streaming_called /\ ~start_failed
       \/ mutex = Nobody /\ ret = "ok" /\ Live
       \/ mutex = Nobody /\ ret = "ERR" /\ start_failed /\ ~start_streaming_called

LoopPhase ==
  (status = "running" /\ pc \in {"mainloop", "select"}) => Live /\ OutBelow(n_buffers)

ReadPhase ==
  (status = "running" /\ pc = "read_frame") =>
    /\ Live /\ mutex = Nobody
    /\ ~calling => OutBelow(n_buffers)
    /\ calling => \/ ret = "EAGAIN" /\ OutBelow(n_buffers)
                  \/ /\ ret = "ok" /\ OutBut(index)
                     /\ index \in 0 .. n_buffers - 1 /\ index < num_buffers

RequeuePhase ==
  (status = "running" /\ pc = "requeue") =>
    /\ Live /\ buf \in 0 .. n_buffers - 1 /\ buf < num_buffers
    /\ ~calling => OutBut(buf)
    /\ calling => /\ OutBelow(n_buffers)
                  /\ step \in {"handover", "queuing"} \/ (mutex = Nobody /\ ret = "ok")

StopPhase ==
  (status = "running" /\ pc = "stop") =>
    /\ ~calling => Live /\ OutBelow(n_buffers)
    /\ calling => \/ /\ Stopping /\ ~start_failed
                     /\ \A b \in Buffers : Out(b) => b < n_buffers
                  \/ mutex = Nobody /\ ret = "ok" /\ Idle

(* When the program has ended, however it did, the thread has too.         *)
EndPhase == status # "running" => ~Handing /\ tpc \notin Dev!ThreadRunning

PhaseInv ==
  /\ IdlePhase /\ QbufPhase /\ StartPhase /\ LoopPhase /\ ReadPhase
  /\ RequeuePhase /\ StopPhase /\ EndPhase

(* On its way to the list the thread of a timely program finds a buffer.   *)
FedInv ==
  timely =>
    /\ tpc \in {"lock", "locked"} => active # <<>>
    /\ tpc = "check" => should_stop \/ active # <<>>
    /\ tpc # "aborted"

(* The driver's invariants.                                                *)
DriverInv ==
  /\ DevP!Inv
  /\ ~start_failed => DevP!CompleteInv

SysInv == DriverInv /\ ProgramInv /\ LengthInv /\ PhaseInv /\ FedInv

-----------------------------------------------------------------------------
(* The driver inside the system is the driver the theorems are about.      *)

(* The program is not nobody, and the driver's other assumptions hold.     *)
LEMMA Assumptions ==
  DevP!CallersAssumption /\ DevP!BuffersAssumption /\ DevP!FaultsAssumption
  BY ProcessAssumption, ReqCountAssumption, FaultsAssumption
  DEF DevP!CallersAssumption, DevP!BuffersAssumption, DevP!FaultsAssumption

(* The driver's buffers, under both of its names.                          *)
LEMMA SameIndex == Dev!Index = Buffers /\ DevP!Index = Buffers
  BY DEF Dev!Index, DevP!Index, Buffers

(* An ioctl of the program is one of the driver's.                         *)
LEMMA SameIoctl ==
  /\ \A n : Dev!REQBUFS(Process, n) => DevP!REQBUFS(Process, n)
  /\ \A b : Dev!QBUF(Process, b) => DevP!QBUF(Process, b)
  /\ Dev!STREAMON(Process) => DevP!STREAMON(Process)
  /\ Dev!DQBUF(Process, TRUE) => DevP!DQBUF(Process, TRUE)
  /\ Dev!STREAMOFF(Process) => DevP!STREAMOFF(Process)
  /\ Dev!vb2_fop_release(Process) => DevP!vb2_fop_release(Process)
<1> USE DEF Dev!Enter, DevP!Enter, Dev!Return, DevP!Return, Dev!Continue, DevP!Continue,
            Dev!queueVars, DevP!queueVars, Dev!threadVars, DevP!threadVars,
            Dev!ioctlVars, DevP!ioctlVars, Dev!faultVars, DevP!faultVars
<1>1. ASSUME NEW n, Dev!REQBUFS(Process, n) PROVE  DevP!REQBUFS(Process, n)
  BY <1>1 DEF Dev!REQBUFS, DevP!REQBUFS, Dev!Index, DevP!Index
<1>2. ASSUME NEW b, Dev!QBUF(Process, b) PROVE  DevP!QBUF(Process, b)
  <2>1. Dev!buf_prepare_ok <=> DevP!buf_prepare_ok
    BY DEF Dev!buf_prepare_ok, DevP!buf_prepare_ok, Dev!queue_setup_size,
           DevP!queue_setup_size, Dev!dev_image_size, DevP!dev_image_size
  <2> QED
    BY <1>2, <2>1 DEF Dev!QBUF, DevP!QBUF
<1>3. Dev!STREAMON(Process) => DevP!STREAMON(Process)
  BY DEF Dev!STREAMON, DevP!STREAMON
<1>4. Dev!DQBUF(Process, TRUE) => DevP!DQBUF(Process, TRUE)
  BY DEF Dev!DQBUF, DevP!DQBUF, Dev!dqbuf_take, DevP!dqbuf_take, Dev!RemoveAt, DevP!RemoveAt
<1>5. Dev!STREAMOFF(Process) => DevP!STREAMOFF(Process)
  BY DEF Dev!STREAMOFF, DevP!STREAMOFF
<1>6. Dev!vb2_fop_release(Process) => DevP!vb2_fop_release(Process)
  BY DEF Dev!vb2_fop_release, DevP!vb2_fop_release
<1> QED
  BY <1>1, <1>2, <1>3, <1>4, <1>5, <1>6

(* So is every later step of an ioctl, and every step of the thread.       *)
LEMMA SameSteps ==
  /\ Dev!IoctlStep => DevP!IoctlStep
  /\ Dev!frame_generation_thread => DevP!frame_generation_thread
<1> USE DEF Dev!Return, DevP!Return, Dev!vb2_buffer_done, DevP!vb2_buffer_done,
            Dev!queueVars, DevP!queueVars, Dev!threadVars, DevP!threadVars,
            Dev!ioctlVars, DevP!ioctlVars, Dev!faultVars, DevP!faultVars,
            Dev!NoBuf, DevP!NoBuf, Dev!Index, DevP!Index
<1>1. Dev!enqueue_in_driver => DevP!enqueue_in_driver
  BY DEF Dev!enqueue_in_driver, DevP!enqueue_in_driver
<1>2. Dev!buf_queue => DevP!buf_queue
  BY DEF Dev!buf_queue, DevP!buf_queue, Dev!Range, DevP!Range
<1>3. Dev!handover_done => DevP!handover_done
  BY DEF Dev!handover_done, DevP!handover_done
<1>4. Dev!start_streaming => DevP!start_streaming
  BY DEF Dev!start_streaming, DevP!start_streaming
<1>5. Dev!start_streaming_failed => DevP!start_streaming_failed
  BY DEF Dev!start_streaming_failed, DevP!start_streaming_failed
<1>6. Dev!stop_streaming_signal => DevP!stop_streaming_signal
  BY DEF Dev!stop_streaming_signal, DevP!stop_streaming_signal, Dev!ThreadDead,
         DevP!ThreadDead
<1>7. Dev!stop_streaming_join => DevP!stop_streaming_join
  BY DEF Dev!stop_streaming_join, DevP!stop_streaming_join, Dev!ThreadRunning,
         DevP!ThreadRunning
<1>8. Dev!stop_streaming_drain => DevP!stop_streaming_drain
  BY DEF Dev!stop_streaming_drain, DevP!stop_streaming_drain
<1>9. Dev!queue_cancel => DevP!queue_cancel
  BY DEF Dev!queue_cancel, DevP!queue_cancel
<1>10. Dev!fgt_check => DevP!fgt_check
  BY DEF Dev!fgt_check, DevP!fgt_check
<1>11. Dev!fgt_lock => DevP!fgt_lock
  BY DEF Dev!fgt_lock, DevP!fgt_lock
<1>12. Dev!fgt_take => DevP!fgt_take
  BY DEF Dev!fgt_take, DevP!fgt_take
<1>13. Dev!fgt_fill => DevP!fgt_fill
  BY DEF Dev!fgt_fill, DevP!fgt_fill
<1>14. Dev!fgt_done => DevP!fgt_done
  BY DEF Dev!fgt_done, DevP!fgt_done
<1>15. Dev!fgt_sleep => DevP!fgt_sleep
  BY DEF Dev!fgt_sleep, DevP!fgt_sleep
<1>16. Dev!IoctlStep => DevP!IoctlStep
  BY <1>1, <1>2, <1>3, <1>4, <1>5, <1>6, <1>7, <1>8, <1>9
  DEF Dev!IoctlStep, DevP!IoctlStep
<1>17. Dev!frame_generation_thread => DevP!frame_generation_thread
  BY <1>10, <1>11, <1>12, <1>13, <1>14, <1>15
  DEF Dev!frame_generation_thread, DevP!frame_generation_thread
<1> QED
  BY <1>16, <1>17

(* buf_prepare never refuses a buffer, nor vb2 the memory of a user        *)
(* pointer: the three sizes of the image agree.                            *)
LEMMA SizesAgree ==
  /\ Dev!buf_prepare_ok /\ ~UserMemoryTooSmall
  /\ BufferLength \in Nat /\ Dev!dev_image_size <= BufferLength
<1>1. Dev!queue_setup_size = 921600
  BY DEF Dev!queue_setup_size
<1>2. buffer_size = 921600
  BY DEF buffer_size, vidioc_g_fmt_vid_cap, width, height, depth
<1>3. Dev!dev_image_size = 921600
  BY DEF Dev!dev_image_size
<1> QED
  BY <1>1, <1>2, <1>3 DEF UserMemoryTooSmall, BufferLength, Dev!buf_prepare_ok

(* The system refuses the program something only before the capture, and   *)
(* the program ends.                                                       *)
LEMMA RefusalMoves ==
  ASSUME refusal
  PROVE  /\ status = "running" /\ status' = "failure"
         /\ UNCHANGED <<pc, io, req_count, n_buffers, held, length, i, devVars, index>>
         /\ calling' = FALSE /\ (calling => mutex = Nobody)
         /\ \/ pc = "open" /\ refused' = "open"
            \/ pc \in {"init_io", "map"} /\ refused' = "memory"
            \/ pc = "qbuf" /\ refused' = "memory" /\ ~calling
<1> USE DEF App!Running, App!errno_exit, App!optionVars, App!bufferVars, App!frameVars
<1>1. CASE App!open_device("error") /\ refused' = "open"
  BY <1>1 DEF refusal, App!open_device
<1>2. CASE App!init_reqbufs("error", num_buffers) /\ refused' = "memory"
  BY <1>2 DEF refusal, App!init_reqbufs
<1>3. CASE App!init_map("error", BufferLength) /\ refused' = "memory"
  BY <1>3 DEF refusal, App!init_map
<1>4. CASE ~calling /\ App!start_capturing_qbuf("error") /\ refused' = "memory"
  BY <1>4 DEF refusal, App!start_capturing_qbuf
<1> QED
  BY <1>1, <1>2, <1>3, <1>4 DEF refusal

(* Whatever the program does, the driver takes a step of its own or none.  *)
LEMMA DriverSteps ==
  ASSUME ProgramInv, PhaseInv, [Next]_vars
  PROVE  [DevP!Next]_(DevP!vars)
<1> USE DEF vars, devVars, queueVars, driverVars, DevP!vars, DevP!queueVars,
            DevP!threadVars, DevP!ioctlVars, DevP!faultVars
<1>1. CASE UNCHANGED devVars
  BY <1>1
<1>2. CASE oops = "none" /\ \E n \in 1 .. ReqCount : Dev!REQBUFS(Process, n)
  <2>1. PICK n \in 0 .. ReqCount : DevP!REQBUFS(Process, n)
    BY <1>2, SameIoctl
  <2> QED
    BY <1>2, <2>1 DEF DevP!Next, DevP!Ioctl
<1>3. ASSUME NEW b \in Buffers, oops = "none", Dev!QBUF(Process, b)
      PROVE  DevP!Next
  <2>1. DevP!QBUF(Process, b) /\ b \in DevP!Index
    BY <1>3, SameIoctl, SameIndex
  <2> QED
    BY <1>3, <2>1 DEF DevP!Next, DevP!Ioctl
<1>4. CASE /\ oops = "none"
           /\ Dev!STREAMON(Process) \/ Dev!DQBUF(Process, TRUE)
              \/ Dev!STREAMOFF(Process) \/ Dev!vb2_fop_release(Process)
  BY <1>4, SameIoctl DEF DevP!Next, DevP!Ioctl
<1>5. CASE oops = "none" /\ (Dev!IoctlStep \/ Dev!frame_generation_thread)
  BY <1>5, SameSteps DEF DevP!Next
<1>6. ASSUME oops = "none", call_qbuf \/ call_requeue PROVE  DevP!Next
  <2>1. CASE call_qbuf
    <3>1. i \in Buffers
      BY <2>1, ReqCountAssumption DEF call_qbuf, ProgramInv, Buffers
    <3> QED
      BY <1>3, <1>6, <2>1, <3>1, SizesAgree DEF call_qbuf, QbufOf
  <2>2. CASE call_requeue
    <3>1. buf \in Buffers
      BY <2>2, ReqCountAssumption
      DEF call_requeue, Call, App!Running, PhaseInv, RequeuePhase, ProgramInv, Buffers
    <3> QED
      BY <1>3, <1>6, <2>2, <3>1, SizesAgree DEF call_requeue, QbufOf
  <2> QED
    BY <1>6, <2>1, <2>2
<1>7. CASE oops = "none" /\ ProcessStep
  <2>1. CASE refusal \/ local_step \/ select \/ return_reqbufs \/ return_start
             \/ return_dqbuf \/ return_requeue \/ return_streamoff \/ return_close
             \/ exit_released
    <3>1. UNCHANGED devVars
      BY <2>1 DEF refusal, local_step, select, return_reqbufs, return_start, return_dqbuf,
         return_requeue, return_streamoff, return_close, exit_released, Returned
    <3> QED
      BY <1>1, <3>1
  <2>2. CASE call_reqbufs
    BY <1>2, <1>7, <2>2 DEF call_reqbufs
  <2>3. CASE call_streamon \/ call_dqbuf \/ call_streamoff \/ call_close \/ exit_release
    BY <1>4, <1>7, <2>3
    DEF call_streamon, call_dqbuf, call_streamoff, call_close, exit_release
  <2> QED
    BY <1>6, <1>7, <2>1, <2>2, <2>3 DEF ProcessStep
<1>8. CASE oops = "none" /\ (DriverStep \/ ThreadStep)
  BY <1>5, <1>8 DEF DriverStep, ThreadStep
<1> QED
  BY <1>1, <1>7, <1>8 DEF Next

(* The driver's invariants hold in the system.                             *)
LEMMA DriverKept ==
  ASSUME DriverInv, ProgramInv, PhaseInv, [Next]_vars
  PROVE  DriverInv'
<1>1. [DevP!Next]_(DevP!vars)
  BY DriverSteps
<1>2. DevP!Inv'
  BY <1>1, Assumptions, DevP!InvStep DEF DriverInv
<1>3. ASSUME ~start_failed' PROVE  DevP!CompleteInv'
  <2>1. ~start_failed
    <3>1. start_failed' = start_failed \/ start_failed' = TRUE
      BY <1>1 DEF DevP!Next, DevP!vars, DevP!faultVars, DevP!Ioctl, DevP!IoctlStep,
         DevP!frame_generation_thread, DevP!REQBUFS, DevP!QBUF, DevP!STREAMON, DevP!DQBUF,
         DevP!dqbuf_wakeup, DevP!dqbuf_interrupted, DevP!STREAMOFF, DevP!vb2_fop_release,
         DevP!enqueue_in_driver, DevP!buf_queue, DevP!handover_done, DevP!start_streaming,
         DevP!start_streaming_failed, DevP!stop_streaming_signal,
         DevP!stop_streaming_join, DevP!stop_streaming_drain, DevP!queue_cancel,
         DevP!fgt_check, DevP!fgt_lock, DevP!fgt_take, DevP!fgt_fill, DevP!fgt_done,
         DevP!fgt_sleep, DevP!Oopsed
    <3> QED
      BY <1>3, <3>1
  <2> QED
    BY <1>1, <1>3, <2>1, Assumptions, DevP!ListsStayComplete DEF DriverInv
<1> QED
  BY <1>2, <1>3 DEF DriverInv

-----------------------------------------------------------------------------
(* What the driver's invariants say, in the words of this module.          *)
LEMMA DeviceFacts ==
  ASSUME DevP!Inv
  PROVE  /\ num_buffers \in 0 .. ReqCount
         /\ vbstate \in [Buffers -> {"DEQUEUED", "QUEUED", "ACTIVE", "DONE", "ERROR"}]
         /\ mutex \in {Process, Nobody}
         /\ mutex = Nobody => step = "none"
         /\ start_streaming_called => streaming
         /\ ~start_streaming_called => tpc = "none"
         /\ step = "starting" => ~start_streaming_called
         /\ step \in {"stopping", "joining", "draining"} => start_streaming_called
         /\ step \in {"draining", "cancel"} => tpc \notin Dev!ThreadRunning
<1> USE DEF DevP!Inv, DevP!TypeOK, DevP!ControlInv, DevP!ThreadInv
<1>1. /\ num_buffers \in 0 .. ReqCount
      /\ vbstate \in [Buffers -> {"DEQUEUED", "QUEUED", "ACTIVE", "DONE", "ERROR"}]
  BY SameIndex DEF DevP!QueueTypeOK, DevP!VbState
<1>2. mutex \in {Process, Nobody}
  BY DEF DevP!IoctlTypeOK
<1>3. step \in {"draining", "cancel"} => tpc \notin Dev!ThreadRunning
  BY DEF DevP!ThreadRunning, Dev!ThreadRunning
<1> QED
  BY <1>1, <1>2, <1>3

(* The thread completes buffers; it takes none back to the program.        *)
LEMMA ThreadMoves ==
  ASSUME DevP!Inv, Dev!frame_generation_thread
  PROVE  /\ UNCHANGED <<num_buffers, streaming, start_streaming_called, should_stop,
                        mutex, step, ret, start_failed>>
         /\ \A b \in Buffers : Out(b)' <=> Out(b)
         /\ tpc \in Dev!ThreadRunning /\ tpc' # "none"
         /\ tpc' = "stopped" => should_stop
<1> USE DEF Dev!queueVars, Dev!ioctlVars, Dev!faultVars, Dev!ThreadRunning
<1>1. CASE Dev!fgt_check \/ Dev!fgt_lock \/ Dev!fgt_take \/ Dev!fgt_fill \/ Dev!fgt_sleep
  BY <1>1 DEF Dev!fgt_check, Dev!fgt_lock, Dev!fgt_take, Dev!fgt_fill, Dev!fgt_sleep, Out
<1>2. CASE Dev!fgt_done
  <2>1. \A b \in Buffers : Out(b)' <=> Out(b)
    BY <1>2, DeviceFacts DEF Dev!fgt_done, Dev!vb2_buffer_done, Out
  <2> QED
    BY <1>2, <2>1 DEF Dev!fgt_done
<1> QED
  BY <1>1, <1>2 DEF Dev!frame_generation_thread

(* A later step of an ioctl, by the step it takes.                         *)
LEMMA IoctlMoves ==
  ASSUME DriverInv, Dev!IoctlStep, Handing => ~start_failed
  PROVE  /\ UNCHANGED num_buffers \/ op = "RELEASE"
         /\ mutex' \in {mutex, Nobody}
         /\ \/ /\ step \in {"handover", "queuing"}
               /\ \A b \in Buffers : Out(b)' <=> Out(b)
               /\ UNCHANGED <<streaming, start_streaming_called, should_stop, tpc, start_failed>>
               /\ \/ step' \in {"handover", "queuing"} /\ UNCHANGED <<mutex, ret>>
                  \/ step' = "starting" /\ ~start_streaming_called /\ UNCHANGED <<mutex, ret>>
                  \/ mutex' = Nobody /\ step' = "none" /\ ret' = "ok" /\ start_streaming_called
            \/ /\ step = "starting" /\ ~start_streaming_called
               /\ \A b \in Buffers : Out(b)' <=> Out(b)
               /\ mutex' = Nobody /\ step' = "none"
               /\ \/ /\ ret' = "ok" /\ start_streaming_called' /\ ~should_stop'
                     /\ tpc' = "check" /\ UNCHANGED start_failed
                  \/ /\ ret' = "ERR" /\ start_failed'
                     /\ UNCHANGED <<start_streaming_called, tpc>>
            \/ /\ step \in {"stopping", "joining", "draining"} /\ start_streaming_called
               /\ step' \in {"stopping", "joining", "draining", "cancel"}
               /\ \A b \in Buffers : Out(b)' <=> Out(b)
               /\ UNCHANGED <<mutex, ret, streaming, start_streaming_called, tpc, start_failed>>
            \/ /\ step = "cancel"
               /\ \A b \in Buffers : ~Out(b)'
               /\ mutex' = Nobody /\ step' = "none" /\ ret' = "ok"
               /\ ~streaming' /\ ~start_streaming_called' /\ tpc' = "none"
               /\ UNCHANGED start_failed
<1> USE DEF Dev!queueVars, Dev!threadVars, Dev!ioctlVars, Dev!faultVars, Dev!Return
<1>0. DevP!Inv
  BY DEF DriverInv
<1>1. CASE Dev!enqueue_in_driver
  <2>1. \A b \in Buffers : Out(b)' <=> Out(b)
    <3>1. ~start_failed
      BY <1>1 DEF Dev!enqueue_in_driver, Handing
    <3>2. Head(todo) \in Buffers /\ Head(todo) = todo[1] /\ Len(todo) \in Nat /\ Len(todo) >= 1
      BY <1>0, <1>1, Assumptions, SameIndex, DevP!ListOps, DevP!ListIndex
      DEF Dev!enqueue_in_driver, DevP!Inv, DevP!TypeOK, DevP!ListTypeOK
    <3>3. vbstate[Head(todo)] = "QUEUED"
      BY <1>0, <1>1, <3>1, <3>2 DEF Dev!enqueue_in_driver, DevP!Inv, DevP!TodoInv
    <3> QED
      BY <1>0, <1>1, <3>2, <3>3, DeviceFacts DEF Dev!enqueue_in_driver, Out
  <2> QED
    BY <1>1, <2>1 DEF Dev!enqueue_in_driver
<1>2. CASE Dev!buf_queue
  BY <1>2 DEF Dev!buf_queue, Out
<1>3. CASE Dev!handover_done
  BY <1>3 DEF Dev!handover_done, Out
<1>4. CASE Dev!start_streaming
  BY <1>0, <1>4, DeviceFacts DEF Dev!start_streaming, Out
<1>5. CASE Dev!start_streaming_failed
  <2>1. \A b \in Buffers : Out(b)' <=> Out(b)
    BY <1>0, <1>5, DeviceFacts, SameIndex DEF Dev!start_streaming_failed, Out
  <2> QED
    BY <1>0, <1>5, <2>1, DeviceFacts DEF Dev!start_streaming_failed
<1>6. CASE Dev!stop_streaming_signal
  BY <1>0, <1>6, DeviceFacts DEF Dev!stop_streaming_signal, Out
<1>7. CASE Dev!stop_streaming_join
  BY <1>0, <1>7, DeviceFacts DEF Dev!stop_streaming_join, Out
<1>8. CASE Dev!stop_streaming_drain
  <2>1. \A b \in Buffers : Out(b)' <=> Out(b)
    BY <1>0, <1>8, DeviceFacts DEF Dev!stop_streaming_drain, Dev!vb2_buffer_done, Out
  <2> QED
    BY <1>0, <1>8, <2>1, DeviceFacts DEF Dev!stop_streaming_drain
<1>9. CASE Dev!queue_cancel
  <2>1. \A b \in Buffers : ~Out(b)'
    BY <1>9, SameIndex DEF Dev!queue_cancel, Out
  <2>2. UNCHANGED num_buffers \/ op = "RELEASE"
    BY <1>9 DEF Dev!queue_cancel
  <2> QED
    BY <1>9, <2>1, <2>2 DEF Dev!queue_cancel
<1> QED
  BY <1>1, <1>2, <1>3, <1>4, <1>5, <1>6, <1>7, <1>8, <1>9 DEF Dev!IoctlStep

-----------------------------------------------------------------------------
(* Every step keeps the program's own invariant.                           *)
LEMMA ProgramKept ==
  ASSUME DriverInv, ProgramInv, PhaseInv, [Next]_vars
  PROVE  ProgramInv'
<1> USE DEF appVars, App!Goto, App!errno_exit, App!Running, App!optionVars,
            App!bufferVars, App!frameVars, Opening, Capturing, Closing
<1>0. Handing => ~start_failed
  BY DeviceFacts
  DEF DriverInv, ProgramInv, PhaseInv, IdlePhase, QbufPhase, StartPhase, LoopPhase,
      ReadPhase, RequeuePhase, StopPhase, EndPhase, Handing, Idle, Live, Stopping
<1>1. CASE UNCHANGED vars
  BY <1>1 DEF vars, devVars, ProgramInv
<1>2. CASE DriverStep
  <2>1. UNCHANGED <<appVars, calling>> /\ mutex' \in {mutex, Nobody}
    BY <1>0, <1>2, IoctlMoves DEF DriverStep
  <2> QED
    BY <2>1 DEF ProgramInv
<1>3. CASE ThreadStep
  <2>1. UNCHANGED <<appVars, calling, mutex>>
    BY <1>3, ThreadMoves DEF ThreadStep, DriverInv
  <2> QED
    BY <2>1 DEF ProgramInv
<1>4. ASSUME NEW p \in {"init_io", "qbuf", "read_frame", "requeue", "stop", "close"}, Call(p)
      PROVE  ProgramInv'
  BY <1>4 DEF Call, ProgramInv
<1>5. CASE call_reqbufs \/ call_qbuf \/ call_streamon \/ call_dqbuf \/ call_requeue
           \/ call_streamoff \/ call_close
  BY <1>4, <1>5
  DEF call_reqbufs, call_qbuf, call_streamon, call_dqbuf, call_requeue, call_streamoff,
      call_close
<1>6. CASE exit_release \/ exit_released
  BY <1>6 DEF exit_release, exit_released, devVars, ProgramInv
<1>7. CASE local_step
  <2>0. UNCHANGED <<mutex, calling, num_buffers>> /\ ~calling
    BY <1>7 DEF local_step, devVars, queueVars
  <2>1. CASE App!main_options /\ io' # "READ"
    BY <2>0, <2>1 DEF App!main_options, ProgramInv
  <2>2. CASE App!open_device("ok")
    BY <2>0, <2>2 DEF App!open_device, ProgramInv
  <2>3. CASE App!init_device_caps("ok", vidioc_querycap)
    BY <2>0, <2>3 DEF App!init_device_caps, ProgramInv
  <2>4. CASE App!init_device_format(IF force_format THEN vidioc_s_fmt_vid_cap ELSE "ok")
    BY <2>0, <2>4 DEF App!init_device_format, ProgramInv
  <2>5. CASE App!init_map("ok", BufferLength)
    <3>1. /\ pc = "map" /\ status = "running" /\ n_buffers < req_count
          /\ held' = held \cup {n_buffers} /\ n_buffers' = n_buffers + 1
          /\ UNCHANGED <<pc, status, io, req_count, i>>
      BY <2>5 DEF App!init_map
    <3>2. held' = 0 .. n_buffers' - 1
      BY <3>1, ReqCountAssumption DEF ProgramInv
    <3> QED
      BY <2>0, <3>1, <3>2, ReqCountAssumption DEF ProgramInv
  <2>6. CASE App!init_done
    BY <2>0, <2>6 DEF App!init_done, App!AfterInit, ProgramInv
  <2>7. CASE App!mainloop
    BY <2>0, <2>7 DEF App!mainloop, ProgramInv
  <2>8. CASE App!uninit_device("ok")
    BY <2>0, <2>8, ReqCountAssumption DEF App!uninit_device, ProgramInv
  <2>9. CASE App!main_return
    BY <2>0, <2>9 DEF App!main_return, ProgramInv
  <2> QED
    BY <1>7, <2>1, <2>2, <2>3, <2>4, <2>5, <2>6, <2>7, <2>8, <2>9 DEF local_step
<1>8. CASE select
  BY <1>8 DEF select, devVars, App!mainloop_select, ProgramInv
<1>9. CASE return_reqbufs
  <2>1. num_buffers \in 0 .. ReqCount
    BY DeviceFacts DEF DriverInv
  <2>2. /\ pc = "init_io" /\ status = "running" /\ UNCHANGED mutex /\ ~calling' /\ mutex = Nobody
        /\ UNCHANGED <<io, n_buffers, held, i>> /\ calling' \in BOOLEAN
    BY <1>9 DEF return_reqbufs, Returned, devVars, App!init_reqbufs
  <2>3. \/ pc' = "map" /\ UNCHANGED status /\ req_count' \in 1 .. ReqCount
        \/ status' = "failure" /\ UNCHANGED <<pc, req_count>>
    BY <1>9, <2>1, ReqCountAssumption DEF return_reqbufs, App!init_reqbufs, ProgramInv
  <2>4. n_buffers = 0 /\ i = 0 /\ held = {} /\ 0 .. 0 - 1 = {}
    BY <2>2 DEF ProgramInv
  <2>5. held' = 0 .. n_buffers' - 1 /\ n_buffers' \in 0 .. req_count' /\ i' \in 0 .. n_buffers'
    BY <2>2, <2>3, <2>4, ReqCountAssumption DEF ProgramInv
  <2>6. req_count' \in 0 .. ReqCount /\ (pc' = "map" => req_count' >= 1)
    BY <2>2, <2>3, ReqCountAssumption DEF ProgramInv
  <2> QED
    BY <2>2, <2>3, <2>4, <2>5, <2>6 DEF ProgramInv
<1>10. CASE return_start
  <2>1. /\ pc = "qbuf" /\ status = "running" /\ UNCHANGED mutex /\ ~calling' /\ mutex = Nobody
        /\ UNCHANGED <<io, req_count, n_buffers, held>> /\ calling' \in BOOLEAN
    BY <1>10
    DEF return_start, Returned, devVars, App!start_capturing_qbuf, App!start_capturing_streamon
  <2>2. \/ i < n_buffers /\ i' = i + 1 /\ UNCHANGED <<pc, status>>
        \/ UNCHANGED i /\ pc' \in {"qbuf", "mainloop"} /\ status' \in {"running", "failure"}
    BY <1>10, <2>1
    DEF return_start, Returned, App!start_capturing_qbuf, App!start_capturing_streamon
  <2>3. i' \in 0 .. n_buffers
    BY <2>2, ReqCountAssumption DEF ProgramInv
  <2> QED
    BY <2>1, <2>2, <2>3 DEF ProgramInv
<1>11. CASE return_dqbuf
  BY <1>11 DEF return_dqbuf, Returned, devVars, App!read_frame, ProgramInv
<1>12. CASE return_requeue \/ return_close
  BY <1>12
  DEF return_requeue, return_close, Returned, devVars, App!read_frame_requeue,
      App!close_device, ProgramInv
<1>13. CASE return_streamoff
  <2>1. /\ pc = "stop" /\ status = "running" /\ UNCHANGED mutex /\ ~calling' /\ mutex = Nobody
        /\ UNCHANGED <<io, req_count, n_buffers, held>> /\ calling' \in BOOLEAN
    BY <1>13 DEF return_streamoff, Returned, devVars, App!stop_capturing
  <2>2. \/ i' = 0 /\ pc' = "unmap" /\ UNCHANGED status
        \/ UNCHANGED <<i, pc>> /\ status' = "failure"
    BY <1>13 DEF return_streamoff, App!stop_capturing
  <2>3. i' \in 0 .. n_buffers
    BY <2>2, ReqCountAssumption DEF ProgramInv
  <2> QED
    BY <2>1, <2>2, <2>3 DEF ProgramInv
<1>14. CASE refusal
  BY <1>14, RefusalMoves DEF devVars, ProgramInv
<1> QED
  BY <1>1, <1>2, <1>3, <1>5, <1>6, <1>7, <1>8, <1>9, <1>10, <1>11, <1>12, <1>13, <1>14
  DEF Next, ProcessStep

(* Only init_map takes memory, and it takes enough for an image.           *)
LEMMA LengthKept ==
  ASSUME ProgramInv, LengthInv, [Next]_vars
  PROVE  LengthInv'
<1> USE DEF App!optionVars, App!bufferVars, App!frameVars
<1>1. CASE UNCHANGED length /\ held' \subseteq held
  BY <1>1 DEF LengthInv, App!Indices
<1>2. CASE App!init_map("ok", BufferLength)
  <2>1. /\ n_buffers < req_count /\ held' = held \cup {n_buffers}
        /\ length' = [length EXCEPT ![n_buffers] = BufferLength]
    BY <1>2 DEF App!init_map
  <2>2. n_buffers \in App!Indices
    BY <2>1, ReqCountAssumption DEF ProgramInv, App!Indices
  <2>3. length' \in [App!Indices -> Nat]
    BY <2>1, <2>2, SizesAgree DEF LengthInv
  <2>4. \A b \in held' : Dev!dev_image_size <= length'[b]
    <3> SUFFICES ASSUME NEW b \in held' PROVE  Dev!dev_image_size <= length'[b]
      OBVIOUS
    <3>1. CASE b = n_buffers
      BY <2>1, <2>2, <3>1, SizesAgree DEF LengthInv
    <3>2. CASE b # n_buffers
      BY <2>1, <3>2 DEF LengthInv
    <3> QED
      BY <3>1, <3>2
  <2> QED
    BY <2>3, <2>4 DEF LengthInv, App!Indices
<1>3. CASE local_step
  <2>1. CASE App!main_options \/ App!open_device("ok") \/ App!init_done \/ App!mainloop
             \/ App!init_device_caps("ok", vidioc_querycap) \/ App!main_return
             \/ App!init_device_format(IF force_format THEN vidioc_s_fmt_vid_cap ELSE "ok")
    BY <1>1, <2>1 DEF App!main_options, App!open_device, App!init_done, App!mainloop,
      App!init_device_caps, App!main_return, App!init_device_format
  <2>2. CASE App!uninit_device("ok")
    BY <1>1, <2>2 DEF App!uninit_device
  <2> QED
    BY <1>2, <1>3, <2>1, <2>2 DEF local_step
<1>4. CASE select \/ return_reqbufs \/ return_start \/ return_dqbuf \/ return_requeue
           \/ return_streamoff \/ return_close
  BY <1>1, <1>4 DEF select, return_reqbufs, return_start, return_dqbuf, return_requeue,
    return_streamoff, return_close, App!mainloop_select, App!init_reqbufs,
    App!start_capturing_qbuf, App!start_capturing_streamon, App!read_frame,
    App!read_frame_requeue, App!stop_capturing, App!close_device
<1>5. CASE \/ DriverStep \/ ThreadStep \/ UNCHANGED vars
           \/ call_reqbufs \/ call_qbuf \/ call_streamon \/ call_dqbuf \/ call_requeue
           \/ call_streamoff \/ call_close \/ exit_release \/ exit_released
  BY <1>1, <1>5 DEF DriverStep, ThreadStep, vars, appVars, call_reqbufs, call_qbuf,
    call_streamon, call_dqbuf, call_requeue, call_streamoff, call_close, exit_release,
    exit_released, Call
<1>6. CASE refusal
  BY <1>1, <1>6, RefusalMoves
<1> QED
  BY <1>3, <1>4, <1>5, <1>6 DEF Next, ProcessStep

-----------------------------------------------------------------------------
(* Every step keeps the agreement between the program and the driver.      *)

(* A buffer is handed over only by a capture that has not failed to start. *)
LEMMA HandingIsSound ==
  ASSUME DriverInv, ProgramInv, PhaseInv
  PROVE  Handing => ~start_failed /\ status = "running" /\ calling
  BY DeviceFacts
  DEF DriverInv, ProgramInv, PhaseInv, IdlePhase, QbufPhase, StartPhase, LoopPhase,
      ReadPhase, RequeuePhase, StopPhase, EndPhase, Handing, Idle, Live, Stopping,
      Opening, Capturing, Closing

(* The thread's steps.                                                     *)
LEMMA ThreadPhase ==
  ASSUME DriverInv, ProgramInv, PhaseInv, ThreadStep
  PROVE  PhaseInv'
<1>1. /\ UNCHANGED <<num_buffers, streaming, start_streaming_called, should_stop,
                     mutex, step, ret, start_failed>>
      /\ \A b \in Buffers : Out(b)' <=> Out(b)
      /\ tpc \in Dev!ThreadRunning /\ tpc' # "none"
      /\ tpc' = "stopped" => should_stop
  BY ThreadMoves DEF DriverInv, ThreadStep
<1>2. UNCHANGED <<status, pc, i, n_buffers, buf, calling, index>>
  BY DEF ThreadStep, appVars
<1>3. status = "running"
  BY <1>1 DEF PhaseInv, EndPhase
<1>4. /\ \A n : OutBelow(n)' <=> OutBelow(n)
      /\ \A x : OutBut(x)' <=> OutBut(x)
      /\ (\A b \in Buffers : Out(b) => b < n_buffers)'
           <=> \A b \in Buffers : Out(b) => b < n_buffers
  BY <1>1, <1>2 DEF OutBelow, OutBut
<1>5. (Live => Live') /\ (Idle => Idle') /\ (Handing' <=> Handing) /\ (Stopping' <=> Stopping)
  BY <1>1, <1>4 DEF Live, Idle, Handing, Stopping
<1> QED
  BY <1>1, <1>2, <1>3, <1>4, <1>5
  DEF PhaseInv, IdlePhase, QbufPhase, StartPhase, LoopPhase, ReadPhase, RequeuePhase,
      StopPhase, EndPhase

(* The later steps of an ioctl.                                            *)
LEMMA DriverPhase ==
  ASSUME DriverInv, ProgramInv, PhaseInv, DriverStep
  PROVE  PhaseInv'
<1> USE DEF Handing, Stopping, Idle, Live
<1>0. /\ UNCHANGED <<status, pc, i, n_buffers, buf, calling, index>>
      /\ DevP!Inv /\ (Handing => ~start_failed)
  BY HandingIsSound DEF DriverStep, appVars, DriverInv
<1>1. step # "none" /\ mutex # Nobody /\ calling
  <2>1. step # "none"
    BY DEF DriverStep, Dev!IoctlStep, Dev!enqueue_in_driver, Dev!buf_queue,
       Dev!handover_done, Dev!start_streaming, Dev!start_streaming_failed,
       Dev!stop_streaming_signal, Dev!stop_streaming_join, Dev!stop_streaming_drain,
       Dev!queue_cancel
  <2> QED
    BY <1>0, <2>1, DeviceFacts DEF ProgramInv
<1>2. ASSUME \A b \in Buffers : Out(b)' <=> Out(b)
      PROVE  /\ \A n : OutBelow(n)' <=> OutBelow(n)
             /\ \A x : OutBut(x)' <=> OutBut(x)
             /\ (\A b \in Buffers : Out(b) => b < n_buffers)'
                  <=> \A b \in Buffers : Out(b) => b < n_buffers
  BY <1>0, <1>2 DEF OutBelow, OutBut
<1>3. CASE /\ step \in {"handover", "queuing"}
           /\ \A b \in Buffers : Out(b)' <=> Out(b)
           /\ UNCHANGED <<streaming, start_streaming_called, should_stop, tpc, start_failed>>
           /\ \/ step' \in {"handover", "queuing"} /\ UNCHANGED <<mutex, ret>>
              \/ step' = "starting" /\ ~start_streaming_called /\ UNCHANGED <<mutex, ret>>
              \/ mutex' = Nobody /\ step' = "none" /\ ret' = "ok" /\ start_streaming_called
  <2>1. /\ status = "running"
        /\ \/ pc = "qbuf" /\ i = n_buffers
           \/ pc = "requeue"
    BY <1>0, <1>1, <1>3
    DEF ProgramInv, PhaseInv, IdlePhase, QbufPhase, LoopPhase, ReadPhase, StopPhase,
        EndPhase, Opening, Capturing, Closing
  <2>2. num_buffers' = num_buffers
    BY <1>3 DEF DriverStep, Dev!IoctlStep, Dev!enqueue_in_driver, Dev!buf_queue,
       Dev!handover_done, Dev!queueVars, Dev!start_streaming, Dev!start_streaming_failed,
       Dev!stop_streaming_signal, Dev!stop_streaming_join, Dev!stop_streaming_drain,
       Dev!queue_cancel
  <2> QED
    BY <1>0, <1>1, <1>2, <1>3, <2>1, <2>2
    DEF PhaseInv, IdlePhase, QbufPhase, StartPhase, LoopPhase, ReadPhase, RequeuePhase,
        StopPhase, EndPhase, Opening, Closing
<1>4. CASE /\ step = "starting" /\ ~start_streaming_called
           /\ \A b \in Buffers : Out(b)' <=> Out(b)
           /\ mutex' = Nobody /\ step' = "none"
           /\ \/ /\ ret' = "ok" /\ start_streaming_called' /\ ~should_stop'
                 /\ tpc' = "check" /\ UNCHANGED start_failed
              \/ /\ ret' = "ERR" /\ start_failed'
                 /\ UNCHANGED <<start_streaming_called, tpc>>
  <2>1. status = "running" /\ pc = "qbuf" /\ i = n_buffers
    BY <1>0, <1>1, <1>4
    DEF ProgramInv, PhaseInv, IdlePhase, QbufPhase, LoopPhase, ReadPhase, RequeuePhase,
        StopPhase, EndPhase, Opening, Capturing, Closing
  <2> QED
    BY <1>0, <1>1, <1>2, <1>4, <2>1
    DEF PhaseInv, IdlePhase, QbufPhase, StartPhase, LoopPhase, ReadPhase, RequeuePhase,
        StopPhase, EndPhase, Opening, Closing
<1>5. CASE /\ step \in {"stopping", "joining", "draining"} /\ start_streaming_called
           /\ step' \in {"stopping", "joining", "draining", "cancel"}
           /\ \A b \in Buffers : Out(b)' <=> Out(b)
           /\ UNCHANGED <<mutex, ret, streaming, start_streaming_called, tpc, start_failed>>
  <2>1. status = "running" => pc = "stop"
    BY <1>0, <1>1, <1>5
    DEF ProgramInv, PhaseInv, IdlePhase, QbufPhase, StartPhase, LoopPhase, ReadPhase,
        RequeuePhase, Opening, Capturing, Closing
  <2> QED
    BY <1>0, <1>1, <1>2, <1>5, <2>1
    DEF PhaseInv, IdlePhase, QbufPhase, StartPhase, LoopPhase, ReadPhase, RequeuePhase,
        StopPhase, EndPhase, Opening, Closing
<1>6. CASE /\ step = "cancel"
           /\ \A b \in Buffers : ~Out(b)'
           /\ mutex' = Nobody /\ step' = "none" /\ ret' = "ok"
           /\ ~streaming' /\ ~start_streaming_called' /\ tpc' = "none"
           /\ UNCHANGED start_failed
  <2>1. status = "running" => pc \in {"stop", "close"}
    BY <1>0, <1>1, <1>6
    DEF ProgramInv, PhaseInv, IdlePhase, QbufPhase, StartPhase, LoopPhase, ReadPhase,
        RequeuePhase, Opening, Capturing, Closing
  <2>2. OutBelow(0)'
    BY <1>6 DEF OutBelow, Buffers
  <2>3. status = "running" => ~start_failed
    BY <1>1, <1>6, <2>1 DEF PhaseInv, StopPhase, IdlePhase, Closing
  <2> QED
    BY <1>0, <1>1, <1>6, <2>1, <2>2, <2>3
    DEF PhaseInv, IdlePhase, QbufPhase, StartPhase, LoopPhase, ReadPhase, RequeuePhase,
        StopPhase, EndPhase, Opening, Closing, Dev!ThreadRunning
<1> QED
  BY <1>0, <1>3, <1>4, <1>5, <1>6, IoctlMoves DEF DriverStep

(* The calls.                                                              *)
LEMMA CallPhase ==
  ASSUME DriverInv, ProgramInv, PhaseInv,
         call_reqbufs \/ call_qbuf \/ call_streamon \/ call_dqbuf \/ call_requeue
         \/ call_streamoff \/ call_close \/ exit_release
  PROVE  PhaseInv'
<1> USE DEF Dev!Enter, Dev!Return, Dev!Continue, Dev!queueVars, Dev!threadVars,
            Dev!faultVars, appVars, App!Running, Opening, Closing
<1>0. /\ DevP!Inv
      /\ vbstate \in [Buffers -> {"DEQUEUED", "QUEUED", "ACTIVE", "DONE", "ERROR"}]
      /\ step = "none" \/ calling
      /\ start_streaming_called => streaming
      /\ n_buffers \in 0 .. ReqCount /\ i \in 0 .. n_buffers /\ num_buffers \in 0 .. ReqCount
      /\ UNCHANGED <<status, pc, i, n_buffers, buf>> /\ calling' /\ ~calling /\ mutex = Nobody
  <2>1. DevP!Inv
    BY DEF DriverInv
  <2>2. UNCHANGED <<status, pc, i, n_buffers, buf>> /\ calling' /\ ~calling
    BY DEF call_reqbufs, call_qbuf, call_streamon, call_dqbuf, call_requeue, call_streamoff,
       call_close, exit_release, Call
  <2>3. n_buffers \in 0 .. ReqCount /\ i \in 0 .. n_buffers
    BY ReqCountAssumption DEF ProgramInv
  <2> QED
    BY <2>1, <2>2, <2>3, DeviceFacts DEF ProgramInv
<1>1. CASE call_reqbufs
  <2>1. pc = "init_io" /\ status = "running" /\ Idle
    BY <1>1 DEF call_reqbufs, Call, PhaseInv, IdlePhase
  <2>2. PICK n \in 1 .. ReqCount : Dev!REQBUFS(Process, n)
    BY <1>1 DEF call_reqbufs
  <2>3. /\ vbstate' = [b \in Dev!Index |-> "DEQUEUED"]
        /\ UNCHANGED <<streaming, start_streaming_called, start_failed>>
        /\ mutex' = Nobody /\ ret' = "ok" /\ step' = "none"
    BY <2>1, <2>2 DEF Dev!REQBUFS, Idle
  <2>4. OutBelow(0)'
    BY <2>3, SameIndex DEF OutBelow, Out, Buffers
  <2> QED
    BY <1>0, <2>1, <2>3, <2>4 DEF Idle, Handing, PhaseInv, IdlePhase, QbufPhase, StartPhase, LoopPhase, ReadPhase, RequeuePhase,
      StopPhase, EndPhase
<1>2. ASSUME NEW b \in Buffers, Dev!QBUF(Process, b), b < num_buffers, ~Out(b)
      PROVE  /\ \A x \in Buffers : Out(x)' <=> (Out(x) \/ x = b)
             /\ UNCHANGED <<num_buffers, streaming, start_streaming_called, start_failed,
                            should_stop, tpc>>
             /\ streaming => step' = "handover" /\ mutex' = Process
             /\ ~streaming => step' = "none" /\ mutex' = Nobody /\ ret' = "ok"
  <2>1. /\ vbstate' = [vbstate EXCEPT ![b] = "QUEUED"]
        /\ UNCHANGED <<num_buffers, streaming, start_streaming_called, start_failed,
                       should_stop, tpc>>
        /\ streaming => step' = "handover" /\ mutex' = Process
        /\ ~streaming => step' = "none" /\ mutex' = Nobody /\ ret' = "ok"
    BY <1>2, SizesAgree DEF Dev!QBUF, Out
  <2>2. \A x \in Buffers : Out(x)' <=> (Out(x) \/ x = b)
    BY <1>0, <2>1 DEF Out
  <2> QED
    BY <2>1, <2>2
<1>3. CASE call_qbuf
  <2>1. /\ pc = "qbuf" /\ status = "running" /\ i < n_buffers /\ i \in Buffers
        /\ Dev!QBUF(Process, i)
    BY <1>0, <1>3, SizesAgree, ReqCountAssumption
    DEF call_qbuf, Call, QbufOf, Buffers
  <2>2. ~streaming /\ ~start_streaming_called /\ ~start_failed /\ OutBelow(i) /\ ~Out(i)
    BY <1>0, <2>1 DEF PhaseInv, QbufPhase, OutBelow
  <2>3. CASE i < num_buffers
    <3>1. OutBelow(i + 1)'
      BY <1>0, <1>2, <2>1, <2>2, <2>3, ReqCountAssumption DEF OutBelow, Buffers
    <3>2. /\ ~streaming' /\ ~start_streaming_called' /\ ~start_failed'
          /\ mutex' = Nobody /\ ret' = "ok"
      BY <1>2, <2>1, <2>2, <2>3
    <3> QED
      BY <1>0, <2>1, <3>1, <3>2 DEF PhaseInv, IdlePhase, QbufPhase, StartPhase, LoopPhase, ReadPhase, RequeuePhase,
      StopPhase, EndPhase
  <2>4. CASE ~(i < num_buffers)
    <3>1. /\ UNCHANGED <<vbstate, num_buffers, streaming, start_streaming_called, start_failed>>
          /\ mutex' = Nobody /\ ret' = "EINVAL"
      BY <2>1, <2>4 DEF Dev!QBUF
    <3>2. OutBelow(i)' /\ num_buffers <= i
      BY <1>0, <2>2, <2>4, <3>1 DEF OutBelow, Out
    <3> QED
      BY <1>0, <2>1, <2>2, <3>1, <3>2 DEF PhaseInv, IdlePhase, QbufPhase, StartPhase, LoopPhase, ReadPhase, RequeuePhase,
      StopPhase, EndPhase
  <2> QED
    BY <2>3, <2>4
<1>4. CASE call_streamon
  <2>1. pc = "qbuf" /\ status = "running" /\ i = n_buffers /\ Dev!STREAMON(Process)
    BY <1>4 DEF call_streamon, Call
  <2>2. ~streaming /\ ~start_streaming_called /\ ~start_failed /\ OutBelow(n_buffers)
    BY <1>0, <2>1 DEF PhaseInv, QbufPhase
  <2>3. 0 \in Buffers /\ Out(0)
    BY <1>0, <2>1, <2>2, ReqCountAssumption DEF ProgramInv, Capturing, OutBelow, Buffers
  <2>4. 0 < num_buffers /\ \E k \in 1 .. Len(queued_list) : queued_list[k] = 0
    BY <2>2, <2>3, SameIndex DEF DriverInv, DevP!CompleteInv, Out
  <2>5. num_buffers >= 1 /\ queued_list # <<>>
    BY <1>0, <2>4
  <2>6. /\ step' = "handover"
        /\ UNCHANGED <<vbstate, start_streaming_called, start_failed>>
    BY <2>1, <2>2, <2>5 DEF Dev!STREAMON
  <2>7. OutBelow(n_buffers)'
    BY <1>0, <2>2, <2>6 DEF OutBelow, Out
  <2> QED
    BY <1>0, <2>1, <2>2, <2>6, <2>7 DEF Handing, PhaseInv, IdlePhase, QbufPhase, StartPhase, LoopPhase, ReadPhase, RequeuePhase,
      StopPhase, EndPhase
<1>5. CASE call_dqbuf
  <2>1. /\ pc = "read_frame" /\ status = "running" /\ Dev!DQBUF(Process, TRUE)
        /\ index' = IF done_list # <<>> THEN Head(done_list) ELSE index
    BY <1>5 DEF call_dqbuf, Call
  <2>2. Live /\ OutBelow(n_buffers)
    BY <1>0, <2>1 DEF PhaseInv, ReadPhase
  <2>3. /\ UNCHANGED <<num_buffers, start_streaming_called, start_failed, should_stop, tpc>>
        /\ mutex' = Nobody
    BY <1>0, <2>1, <2>2 DEF Dev!DQBUF, Live
  <2>4. Live'
    BY <2>2, <2>3 DEF Live
  <2>5. CASE done_list # <<>>
    <3>1. /\ vbstate' = [vbstate EXCEPT ![Head(done_list)] = "DEQUEUED"] /\ ret' = "ok"
          /\ index' = Head(done_list)
      BY <1>0, <2>1, <2>2, <2>5 DEF Dev!DQBUF, Dev!dqbuf_take, Live
    <3>2. done_list \in Seq(DevP!Index)
      BY <1>0 DEF DevP!Inv, DevP!TypeOK, DevP!ListTypeOK
    <3>3. /\ Head(done_list) \in Buffers /\ Head(done_list) = done_list[1]
          /\ Len(done_list) \in Nat /\ Len(done_list) >= 1
      BY <2>5, <3>2, Assumptions, SameIndex, DevP!ListOps, DevP!ListIndex
    <3>4. Out(Head(done_list))
      BY <1>0, <2>2, <3>3 DEF DevP!Inv, DevP!QueueInv, Live, Out
    <3>5. Head(done_list) < n_buffers
      BY <2>2, <3>3, <3>4 DEF OutBelow
    <3>6. Head(done_list) < num_buffers
      BY <2>2, <3>3, <3>4, SameIndex DEF DriverInv, DevP!CompleteInv, Live, Out
    <3>7. OutBut(index)'
      BY <1>0, <2>2, <3>1, <3>3 DEF OutBelow, OutBut, Out
    <3>8. index' \in 0 .. n_buffers - 1
      BY <1>0, <3>1, <3>3, <3>5, ReqCountAssumption DEF Buffers
    <3> QED
      BY <1>0, <2>1, <2>3, <2>4, <3>1, <3>6, <3>7, <3>8 DEF PhaseInv, IdlePhase, QbufPhase, StartPhase, LoopPhase, ReadPhase, RequeuePhase,
      StopPhase, EndPhase
  <2>6. CASE done_list = <<>>
    <3>1. UNCHANGED vbstate /\ ret' = "EAGAIN"
      BY <1>0, <2>1, <2>2, <2>6 DEF Dev!DQBUF, Live
    <3>2. OutBelow(n_buffers)'
      BY <1>0, <2>2, <3>1 DEF OutBelow, Out
    <3> QED
      BY <1>0, <2>1, <2>3, <2>4, <3>1, <3>2 DEF PhaseInv, IdlePhase, QbufPhase, StartPhase, LoopPhase, ReadPhase, RequeuePhase,
      StopPhase, EndPhase
  <2> QED
    BY <2>5, <2>6
<1>6. CASE call_requeue
  <2>1. /\ pc = "requeue" /\ status = "running"
        /\ Live /\ buf \in 0 .. n_buffers - 1 /\ buf < num_buffers /\ OutBut(buf)
    BY <1>0, <1>6 DEF call_requeue, Call, PhaseInv, RequeuePhase
  <2>2. buf \in Buffers
    BY <1>0, <2>1, ReqCountAssumption DEF Buffers
  <2>3. Dev!QBUF(Process, buf) /\ ~Out(buf) /\ streaming
    BY <1>0, <1>6, <2>1, <2>2, SizesAgree DEF call_requeue, QbufOf, OutBut, Live
  <2>4. /\ \A x \in Buffers : Out(x)' <=> (Out(x) \/ x = buf)
        /\ UNCHANGED <<num_buffers, start_streaming_called, start_failed, should_stop, tpc>>
        /\ step' = "handover"
    BY <1>2, <2>1, <2>2, <2>3
  <2>5. OutBelow(n_buffers)'
    BY <1>0, <2>1, <2>4 DEF OutBelow, OutBut
  <2>6. Live'
    BY <2>1, <2>4 DEF Live
  <2> QED
    BY <1>0, <2>1, <2>4, <2>5, <2>6 DEF PhaseInv, IdlePhase, QbufPhase, StartPhase, LoopPhase, ReadPhase, RequeuePhase,
      StopPhase, EndPhase
<1>7. CASE call_streamoff
  <2>1. pc = "stop" /\ status = "running" /\ Live /\ OutBelow(n_buffers)
    BY <1>0, <1>7 DEF call_streamoff, Call, PhaseInv, StopPhase
  <2>2. step' = "stopping" /\ UNCHANGED <<vbstate, start_failed>>
    BY <1>7, <2>1 DEF call_streamoff, Dev!STREAMOFF, Live
  <2>3. (\A b \in Buffers : Out(b) => b < n_buffers)'
    BY <1>0, <2>1, <2>2 DEF OutBelow, Out
  <2> QED
    BY <1>0, <2>1, <2>2, <2>3 DEF Live, Stopping, PhaseInv, IdlePhase, QbufPhase, StartPhase, LoopPhase, ReadPhase, RequeuePhase,
      StopPhase, EndPhase
<1>8. CASE call_close
  <2>1. pc = "close" /\ status = "running" /\ Idle
    BY <1>8 DEF call_close, Call, PhaseInv, IdlePhase
  <2>2. /\ step' = "cancel"
        /\ UNCHANGED <<vbstate, streaming, start_streaming_called, start_failed>>
    BY <1>8, <2>1 DEF call_close, Dev!vb2_fop_release, Idle
  <2>3. Idle'
    BY <2>1, <2>2 DEF Idle, Handing, OutBelow, Out
  <2> QED
    BY <1>0, <2>1, <2>3 DEF PhaseInv, IdlePhase, QbufPhase, StartPhase, LoopPhase, ReadPhase, RequeuePhase,
      StopPhase, EndPhase
<1>9. CASE exit_release
  BY <1>0, <1>9
  DEF exit_release, Dev!vb2_fop_release, Handing, PhaseInv, IdlePhase, QbufPhase, StartPhase, LoopPhase, ReadPhase, RequeuePhase,
      StopPhase, EndPhase
<1> QED
  BY <1>1, <1>3, <1>4, <1>5, <1>6, <1>7, <1>8, <1>9

(* The returns: the driver is as the program left it when it called, or as *)
(* the ioctl left it.                                                      *)
LEMMA ReturnPhase ==
  ASSUME DriverInv, ProgramInv, PhaseInv,
         return_reqbufs \/ return_start \/ return_dqbuf \/ return_requeue
         \/ return_streamoff \/ return_close \/ exit_released
  PROVE  PhaseInv'
<1> USE DEF App!Running, App!Goto, App!errno_exit, App!optionVars, App!bufferVars,
            App!frameVars, Result, Opening, Closing, devVars, queueVars, driverVars
<1>0. /\ calling /\ ~calling' /\ mutex = Nobody /\ mutex' = Nobody /\ step = "none"
      /\ UNCHANGED <<num_buffers, vbstate, streaming, start_streaming_called, start_failed,
                     should_stop, tpc, step, ret>>
      /\ ~start_streaming_called => tpc = "none"
      /\ n_buffers \in 0 .. ReqCount /\ i \in 0 .. n_buffers
  <2>1. calling /\ ~calling' /\ mutex = Nobody /\ UNCHANGED devVars
    BY DEF return_reqbufs, return_start, return_dqbuf, return_requeue, return_streamoff,
       return_close, exit_released, Returned
  <2>2. n_buffers \in 0 .. ReqCount /\ i \in 0 .. n_buffers
    BY ReqCountAssumption DEF ProgramInv
  <2> QED
    BY <2>1, <2>2, DeviceFacts DEF DriverInv
<1>1. /\ Idle' <=> Idle
      /\ Live' <=> Live
      /\ ~Handing'
      /\ \A n : OutBelow(n)' <=> OutBelow(n)
  BY <1>0 DEF Idle, Live, Handing, OutBelow, Out
<1>2. CASE return_reqbufs
  <2>1. pc = "init_io" /\ status = "running" /\ Idle
    BY <1>2 DEF return_reqbufs, Returned, PhaseInv, IdlePhase
  <2>2. (pc' = "map" /\ status' = "running") \/ status' = "failure"
    BY <1>2 DEF return_reqbufs, Returned, App!init_reqbufs
  <2>3. tpc \notin Dev!ThreadRunning
    BY <1>0, <2>1 DEF Idle, Dev!ThreadRunning
  <2> QED
    BY <1>0, <1>1, <2>1, <2>2, <2>3 DEF PhaseInv, IdlePhase, QbufPhase, StartPhase, LoopPhase, ReadPhase, RequeuePhase,
      StopPhase, EndPhase
<1>3. CASE return_start
  <2>1. pc = "qbuf" /\ status = "running" /\ UNCHANGED n_buffers
    BY <1>3 DEF return_start, Returned, App!start_capturing_qbuf, App!start_capturing_streamon
  <2>2. CASE i < n_buffers
    <3>1. \/ ret = "ok" /\ i' = i + 1 /\ UNCHANGED <<pc, status>>
          \/ status' = "failure" /\ UNCHANGED pc
      BY <1>0, <1>3, <2>2
      DEF return_start, App!start_capturing_qbuf, App!start_capturing_streamon, ProgramInv
    <3>2. ~streaming /\ ~start_streaming_called /\ ~start_failed
          /\ (ret = "ok" => OutBelow(i + 1))
      BY <1>0, <2>1, <2>2 DEF PhaseInv, QbufPhase
    <3>3. tpc \notin Dev!ThreadRunning
      BY <1>0, <3>2 DEF Dev!ThreadRunning
    <3>4. i' = i + 1 => (OutBelow(i)' <=> OutBelow(i + 1))
      BY <1>0 DEF OutBelow, Out
    <3> QED
      BY <1>0, <1>1, <2>1, <2>2, <3>1, <3>2, <3>3, <3>4 DEF PhaseInv, IdlePhase, QbufPhase, StartPhase, LoopPhase, ReadPhase, RequeuePhase,
      StopPhase, EndPhase
  <2>3. CASE i = n_buffers
    <3>1. \/ ret = "ok" /\ pc' = "mainloop" /\ UNCHANGED status
          \/ ret # "ok" /\ status' = "failure" /\ UNCHANGED pc
      BY <1>0, <1>3, <2>1, <2>3
      DEF return_start, App!start_capturing_qbuf, App!start_capturing_streamon, ProgramInv
    <3>2. /\ OutBelow(n_buffers)
          /\ \/ ret = "ok" /\ Live
             \/ ret = "ERR" /\ start_failed /\ ~start_streaming_called
      BY <1>0, <2>1, <2>3 DEF PhaseInv, StartPhase, Handing
    <3>3. ret # "ok" => tpc \notin Dev!ThreadRunning
      BY <1>0, <3>2 DEF Dev!ThreadRunning
    <3>4. OutBelow(n_buffers)'
      BY <1>0, <2>1, <3>2 DEF OutBelow, Out
    <3> QED
      BY <1>0, <1>1, <2>1, <3>1, <3>2, <3>3, <3>4 DEF PhaseInv, IdlePhase, QbufPhase, StartPhase, LoopPhase, ReadPhase, RequeuePhase,
      StopPhase, EndPhase
  <2> QED
    BY <1>0, <2>2, <2>3
<1>4. CASE return_dqbuf
  <2>1. /\ pc = "read_frame" /\ status = "running" /\ UNCHANGED <<n_buffers, index>>
        /\ App!read_frame(Result, index, Dev!dev_image_size)
    BY <1>4 DEF return_dqbuf, Returned, App!read_frame
  <2>2. /\ Live
        /\ \/ ret = "EAGAIN" /\ OutBelow(n_buffers)
           \/ /\ ret = "ok" /\ OutBut(index)
              /\ index \in 0 .. n_buffers - 1 /\ index < num_buffers
    BY <1>0, <2>1 DEF PhaseInv, ReadPhase
  <2>3. CASE ret = "EAGAIN" /\ OutBelow(n_buffers)
    <3>1. pc' = "select" /\ status' = "running"
      BY <2>1, <2>3 DEF App!read_frame
    <3>2. OutBelow(n_buffers)'
      BY <1>0, <2>1, <2>3 DEF OutBelow, Out
    <3> QED
      BY <1>0, <1>1, <2>2, <3>1, <3>2 DEF PhaseInv, IdlePhase, QbufPhase, StartPhase, LoopPhase, ReadPhase, RequeuePhase,
      StopPhase, EndPhase
  <2>4. CASE /\ ret = "ok" /\ OutBut(index)
             /\ index \in 0 .. n_buffers - 1 /\ index < num_buffers
    <3>1. ~(index >= n_buffers) /\ io # "READ"
      BY <1>0, <2>4 DEF ProgramInv
    <3>2. pc' = "requeue" /\ status' = "running" /\ buf' = index
      BY <2>1, <2>4, <3>1 DEF App!read_frame
    <3>3. OutBut(buf)'
      BY <1>0, <2>1, <2>4, <3>2 DEF OutBut, Out
    <3> QED
      BY <1>0, <1>1, <2>1, <2>2, <2>4, <3>2, <3>3 DEF PhaseInv, IdlePhase, QbufPhase, StartPhase, LoopPhase, ReadPhase, RequeuePhase,
      StopPhase, EndPhase
  <2> QED
    BY <2>2, <2>3, <2>4
<1>5. CASE return_requeue
  <2>1. pc = "requeue" /\ status = "running" /\ UNCHANGED n_buffers
    BY <1>5 DEF return_requeue, Returned, App!read_frame_requeue
  <2>2. Live /\ ret = "ok" /\ OutBelow(n_buffers)
    BY <1>0, <2>1 DEF PhaseInv, RequeuePhase
  <2>3. pc' = "mainloop" /\ status' = "running"
    BY <1>5, <2>1, <2>2 DEF return_requeue, App!read_frame_requeue
  <2>4. OutBelow(n_buffers)'
    BY <1>0, <2>1, <2>2 DEF OutBelow, Out
  <2> QED
    BY <1>0, <1>1, <2>2, <2>3, <2>4 DEF PhaseInv, IdlePhase, QbufPhase, StartPhase, LoopPhase, ReadPhase, RequeuePhase,
      StopPhase, EndPhase
<1>6. CASE return_streamoff
  <2>1. pc = "stop" /\ status = "running"
    BY <1>6 DEF return_streamoff, Returned
  <2>2. Idle /\ ret = "ok"
    BY <1>0, <2>1 DEF PhaseInv, StopPhase, Stopping
  <2>3. pc' = "unmap" /\ status' = "running"
    BY <1>6, <2>1, <2>2 DEF return_streamoff, App!stop_capturing
  <2> QED
    BY <1>0, <1>1, <2>2, <2>3 DEF PhaseInv, IdlePhase, QbufPhase, StartPhase, LoopPhase, ReadPhase, RequeuePhase,
      StopPhase, EndPhase
<1>7. CASE return_close
  <2>1. pc = "close" /\ status = "running"
    BY <1>7 DEF return_close, Returned
  <2>2. Idle
    BY <2>1 DEF PhaseInv, IdlePhase
  <2>3. pc' = "return" /\ status' = "running"
    BY <1>7, <2>1 DEF return_close, App!close_device
  <2> QED
    BY <1>0, <1>1, <2>2, <2>3 DEF PhaseInv, IdlePhase, QbufPhase, StartPhase, LoopPhase, ReadPhase, RequeuePhase,
      StopPhase, EndPhase
<1>8. CASE exit_released
  BY <1>0, <1>1, <1>8 DEF exit_released, appVars, PhaseInv, IdlePhase, QbufPhase, StartPhase, LoopPhase, ReadPhase, RequeuePhase,
      StopPhase, EndPhase
<1> QED
  BY <1>2, <1>3, <1>4, <1>5, <1>6, <1>7, <1>8

(* The steps that leave the driver alone.                                  *)
LEMMA LocalPhase ==
  ASSUME DriverInv, ProgramInv, PhaseInv, local_step \/ select
  PROVE  PhaseInv'
<1> USE DEF App!Running, App!Goto, App!errno_exit, App!optionVars, App!bufferVars,
            App!frameVars, Opening, Closing, devVars, queueVars, driverVars
<1>0. /\ ~calling /\ ~calling' /\ mutex = Nobody /\ mutex' = Nobody /\ step = "none"
      /\ UNCHANGED <<num_buffers, vbstate, streaming, start_streaming_called, start_failed,
                     should_stop, tpc, step, ret>>
      /\ ~start_streaming_called => tpc = "none"
  <2>1. ~calling /\ UNCHANGED <<calling, devVars>>
    BY DEF local_step, select
  <2> QED
    BY <2>1, DeviceFacts DEF DriverInv, ProgramInv
<1>1. /\ Idle' <=> Idle
      /\ Live' <=> Live
      /\ ~Handing'
      /\ \A n : OutBelow(n)' <=> OutBelow(n)
  BY <1>0 DEF Idle, Live, Handing, OutBelow, Out
<1>2. ASSUME status = "running", pc \in Opening \cup {"map"} \cup Closing,
             status' = "running" => pc' \in Opening \cup {"map"} \cup Closing
      PROVE  PhaseInv'
  <2>1. Idle
    BY <1>2 DEF PhaseInv, IdlePhase
  <2>2. tpc \notin Dev!ThreadRunning
    BY <1>0, <2>1 DEF Idle, Dev!ThreadRunning
  <2> QED
    BY <1>0, <1>1, <1>2, <2>1, <2>2 DEF PhaseInv, IdlePhase, QbufPhase, StartPhase, LoopPhase, ReadPhase, RequeuePhase,
      StopPhase, EndPhase
<1>3. CASE App!main_options \/ App!open_device("ok")
           \/ App!init_device_caps("ok", vidioc_querycap)
  BY <1>2, <1>3 DEF App!main_options, App!open_device, App!init_device_caps
<1>4. CASE App!init_device_format(IF force_format THEN vidioc_s_fmt_vid_cap ELSE "ok")
  BY <1>2, <1>4 DEF App!init_device_format
<1>5. CASE App!init_map("ok", BufferLength) \/ App!uninit_device("ok") \/ App!main_return
  BY <1>2, <1>5 DEF App!init_map, App!uninit_device, App!main_return
<1>6. CASE App!init_done
  <2>1. pc = "map" /\ status = "running" /\ Idle /\ i = 0 /\ UNCHANGED <<status, i>>
    BY <1>6 DEF App!init_done, PhaseInv, IdlePhase, ProgramInv
  <2>2. CASE pc' = "return"
    BY <1>2, <2>1, <2>2
  <2>3. CASE pc' = "qbuf"
    <3>1. OutBelow(i)'
      BY <1>0, <2>1 DEF Idle, OutBelow, Out
    <3> QED
      BY <1>0, <2>1, <2>3, <3>1 DEF Idle, PhaseInv, IdlePhase, QbufPhase, StartPhase, LoopPhase, ReadPhase, RequeuePhase,
      StopPhase, EndPhase
  <2> QED
    BY <1>6, <2>2, <2>3 DEF App!init_done, App!AfterInit
<1>7. CASE App!mainloop
  <2>1. /\ status = "running" /\ Live /\ OutBelow(n_buffers)
        /\ pc' \in {"select", "stop"} /\ UNCHANGED <<status, n_buffers>>
    BY <1>7 DEF App!mainloop, PhaseInv, LoopPhase
  <2>2. OutBelow(n_buffers)'
    BY <1>0, <2>1 DEF OutBelow, Out
  <2> QED
    BY <1>0, <1>1, <2>1, <2>2 DEF PhaseInv, IdlePhase, QbufPhase, StartPhase, LoopPhase, ReadPhase, RequeuePhase,
      StopPhase, EndPhase
<1>8. CASE select
  <2>1. /\ status = "running" /\ Live /\ OutBelow(n_buffers) /\ UNCHANGED n_buffers
        /\ \/ pc' = "read_frame" /\ UNCHANGED status
           \/ status' = "failure" /\ tpc \notin Dev!ThreadRunning
    BY <1>8 DEF select, App!mainloop_select, PhaseInv, LoopPhase
  <2>2. OutBelow(n_buffers)'
    BY <1>0, <2>1 DEF OutBelow, Out
  <2> QED
    BY <1>0, <1>1, <2>1, <2>2 DEF PhaseInv, IdlePhase, QbufPhase, StartPhase, LoopPhase, ReadPhase, RequeuePhase,
      StopPhase, EndPhase
<1> QED
  BY <1>3, <1>4, <1>5, <1>6, <1>7, <1>8 DEF local_step

(* Every step of the system.                                               *)
LEMMA PhaseKept ==
  ASSUME DriverInv, ProgramInv, PhaseInv, [Next]_vars
  PROVE  PhaseInv'
<1>1. CASE UNCHANGED vars
  <2>1. /\ UNCHANGED <<num_buffers, vbstate, streaming, start_streaming_called, start_failed,
                       should_stop, tpc, step, ret, mutex>>
        /\ UNCHANGED <<status, pc, i, n_buffers, buf, calling, index>>
    BY <1>1 DEF vars, devVars, queueVars, driverVars, appVars
  <2> QED
    BY <2>1 DEF Idle, Live, Handing, Stopping, OutBelow, OutBut, Out, PhaseInv, IdlePhase, QbufPhase, StartPhase, LoopPhase, ReadPhase, RequeuePhase,
      StopPhase, EndPhase
<1>2. CASE refusal
  <2>1. /\ status = "running" /\ status' # "running" /\ mutex = Nobody
        /\ pc \in {"open", "init_io", "map"} \/ (pc = "qbuf" /\ ~calling)
        /\ UNCHANGED <<step, tpc>>
    BY <1>2, RefusalMoves DEF devVars, driverVars, ProgramInv
  <2>2. ~start_streaming_called
    BY <2>1 DEF PhaseInv, IdlePhase, QbufPhase, Idle, Opening
  <2>3. tpc = "none" /\ step = "none"
    BY <2>1, <2>2, DeviceFacts DEF DriverInv
  <2> QED
    BY <2>1, <2>3 DEF PhaseInv, IdlePhase, QbufPhase, StartPhase, LoopPhase, ReadPhase,
      RequeuePhase, StopPhase, EndPhase, Handing, Dev!ThreadRunning
<1>3. CASE ProcessStep
  BY <1>2, <1>3, LocalPhase, CallPhase, ReturnPhase DEF ProcessStep
<1> QED
  BY <1>1, <1>3, DriverPhase, ThreadPhase DEF Next

-----------------------------------------------------------------------------
(* The thread of a timely program is fed.                                  *)

(* When the program waits in select with nothing done, and the thread has  *)
(* no buffer in its hand, every buffer is linked on dmaq->active.          *)
LEMMA AllLinked ==
  ASSUME DriverInv, ProgramInv, PhaseInv,
         status = "running", pc = "select", done_list = <<>>, tpc = "sleep"
  PROVE  active # <<>>
<1>1. Live /\ OutBelow(n_buffers) /\ ~calling
  BY DEF PhaseInv, LoopPhase, ProgramInv
<1>2. DevP!Inv /\ DevP!CompleteInv /\ DevP!OwnInv
  BY <1>1 DEF DriverInv, DevP!Inv, Live
<1>3. step = "none" /\ start_streaming_called
  BY <1>1, <1>2, DeviceFacts DEF ProgramInv, Live
<1>4. 0 \in Buffers /\ Out(0)
  BY <1>1, ReqCountAssumption DEF ProgramInv, Capturing, OutBelow, Buffers
<1>5. vbstate[0] = "ACTIVE"
  <2>1. vbstate[0] # "QUEUED"
    BY <1>2, <1>3, <1>4, SameIndex DEF DevP!CompleteInv
  <2>2. vbstate[0] \notin {"DONE", "ERROR"}
    <3>1. ~\E k \in 1 .. Len(done_list) : done_list[k] = 0
      OBVIOUS
    <3> QED
      BY <1>2, <1>4, <3>1, SameIndex DEF DevP!CompleteInv
  <2> QED
    BY <1>2, <1>4, <2>1, <2>2, DeviceFacts DEF Out
<1>6. sbuf # 0
  BY <1>2, <1>4, SameIndex, Assumptions, DevP!NoBufNotIndex DEF DevP!Inv, DevP!ThreadInv
<1>7. \E k \in 1 .. Len(active) : active[k] = 0
  BY <1>2, <1>3, <1>4, <1>5, <1>6, SameIndex DEF DevP!OwnInv
<1> QED
  BY <1>7

(* No step takes the last buffer from under a thread on its way to it.     *)
LEMMA FedKept ==
  ASSUME DriverInv, ProgramInv, PhaseInv, FedInv, [Next]_vars
  PROVE  FedInv'
<1> USE DEF Dev!queueVars, Dev!threadVars, Dev!ioctlVars, Dev!faultVars
<1>1. CASE UNCHANGED <<active, tpc, should_stop, timely>>
  BY <1>1 DEF FedInv
<1>2. CASE ProcessStep
  <2> USE DEF devVars, driverVars
  <2>1. UNCHANGED <<active, tpc, should_stop>>
    <3>1. CASE refusal \/ local_step \/ select
      BY <3>1 DEF refusal, local_step, select
    <3>2. CASE return_reqbufs \/ return_start \/ return_dqbuf \/ return_requeue
               \/ return_streamoff \/ return_close \/ exit_released
      BY <3>2 DEF return_reqbufs, return_start, return_dqbuf, return_requeue,
         return_streamoff, return_close, exit_released, Returned
    <3>3. CASE call_reqbufs
      BY <3>3 DEF call_reqbufs, Dev!REQBUFS
    <3>4. CASE call_qbuf \/ call_requeue
      BY <3>4 DEF call_qbuf, call_requeue, QbufOf, Dev!QBUF
    <3>5. CASE call_streamon \/ call_dqbuf \/ call_streamoff \/ call_close \/ exit_release
      BY <3>5 DEF call_streamon, call_dqbuf, call_streamoff, call_close, exit_release,
         Dev!STREAMON, Dev!DQBUF, Dev!STREAMOFF, Dev!vb2_fop_release
    <3> QED
      BY <1>2, <3>1, <3>2, <3>3, <3>4, <3>5 DEF ProcessStep
  <2> QED
    BY <1>1, <1>2, <2>1 DEF ProcessStep
<1>3. CASE DriverStep
  <2>0. UNCHANGED timely /\ DevP!Inv
    BY <1>3 DEF DriverStep, DriverInv
  <2>1. CASE Dev!enqueue_in_driver \/ Dev!handover_done \/ Dev!start_streaming_failed
             \/ Dev!stop_streaming_join
    BY <1>1, <2>0, <2>1
    DEF Dev!enqueue_in_driver, Dev!handover_done, Dev!start_streaming_failed,
        Dev!stop_streaming_join
  <2>2. CASE Dev!buf_queue
    <3>1. UNCHANGED <<tpc, should_stop>>
      BY <2>2 DEF Dev!buf_queue
    <3>2. active' # <<>> \/ UNCHANGED active
      <4>1. CASE active' = Append(active, Head(todo))
        <5>1. active \in Seq(DevP!Index) /\ Head(todo) \in DevP!Index
          <6>1. todo # <<>>
            BY <2>0, <2>2 DEF Dev!buf_queue, DevP!Inv, DevP!ControlInv
          <6> QED
            BY <2>0, <6>1, Assumptions, DevP!ListOps
            DEF DevP!Inv, DevP!TypeOK, DevP!ListTypeOK
        <5> QED
          BY <4>1, <5>1, Assumptions, DevP!AppendKeeps
      <4> QED
        BY <2>2, <4>1 DEF Dev!buf_queue
    <3> QED
      BY <2>0, <3>1, <3>2 DEF FedInv
  <2>3. CASE Dev!start_streaming
    <3>1. ~start_failed
      BY <2>3, HandingIsSound DEF Dev!start_streaming, Handing
    <3>2. active # <<>>
      BY <2>3, <3>1 DEF Dev!start_streaming, DriverInv, DevP!CompleteInv
    <3> QED
      BY <2>0, <2>3, <3>2 DEF Dev!start_streaming, FedInv
  <2>4. CASE Dev!stop_streaming_signal
    <3>1. UNCHANGED <<tpc, active>> /\ (should_stop' = should_stop \/ should_stop')
      BY <2>4 DEF Dev!stop_streaming_signal
    <3> QED
      BY <2>0, <3>1 DEF FedInv
  <2>5. CASE Dev!stop_streaming_drain
    <3>1. UNCHANGED tpc /\ tpc \notin Dev!ThreadRunning
      BY <2>0, <2>5, DeviceFacts DEF Dev!stop_streaming_drain
    <3> QED
      BY <2>0, <3>1 DEF FedInv, Dev!ThreadRunning
  <2>6. CASE Dev!queue_cancel
    BY <2>6 DEF Dev!queue_cancel, FedInv
  <2> QED
    BY <1>3, <2>1, <2>2, <2>3, <2>4, <2>5, <2>6 DEF DriverStep, Dev!IoctlStep
<1>4. CASE ThreadStep
  <2>0. UNCHANGED timely
    BY <1>4 DEF ThreadStep
  <2>1. CASE Dev!fgt_check \/ Dev!fgt_lock \/ Dev!fgt_fill
    BY <2>0, <2>1 DEF Dev!fgt_check, Dev!fgt_lock, Dev!fgt_fill, FedInv
  <2>2. CASE Dev!fgt_take \/ Dev!fgt_done
    BY <2>0, <2>2 DEF Dev!fgt_take, Dev!fgt_done, FedInv
  <2>3. CASE Dev!fgt_sleep
    <3>1. tpc = "sleep" /\ tpc' = "check" /\ UNCHANGED <<active, should_stop>>
      BY <2>3 DEF Dev!fgt_sleep
    <3>2. status = "running"
      BY <3>1 DEF PhaseInv, EndPhase, Dev!ThreadRunning
    <3>3. timely => should_stop \/ active # <<>>
      BY <1>4, <3>1, <3>2, AllLinked DEF ThreadStep, SleepMayEnd
    <3> QED
      BY <2>0, <3>1, <3>3 DEF FedInv
  <2> QED
    BY <1>4, <2>1, <2>2, <2>3 DEF ThreadStep, Dev!frame_generation_thread
<1>5. CASE UNCHANGED vars
  BY <1>1, <1>5 DEF vars, devVars, driverVars
<1> QED
  BY <1>2, <1>3, <1>4, <1>5 DEF Next

-----------------------------------------------------------------------------
(* The theorems.                                                           *)

(* Before the first call nothing is out and nothing is held.               *)
LEMMA SysInit == Init => SysInv
<1> SUFFICES ASSUME Init PROVE  SysInv
  OBVIOUS
<1> USE DEF Init, Dev!Init, Dev!v4l2_init_device, App!Init
<1>1. DevP!Init
  BY DEF DevP!Init, DevP!v4l2_init_device, Dev!NoBuf, DevP!NoBuf, Dev!Index, DevP!Index
<1>2. DriverInv
  BY <1>1, Assumptions, DevP!InvInit, DevP!ListsStartComplete DEF DriverInv
<1>3. ProgramInv
  <2>1. /\ req_count \in 0 .. ReqCount /\ n_buffers \in 0 .. req_count
        /\ i \in 0 .. n_buffers
    BY ReqCountAssumption
  <2>2. calling \in BOOLEAN /\ ~calling
    OBVIOUS
  <2>3. pc \in Opening /\ pc # "map" /\ pc \notin Capturing
    BY DEF Opening, Capturing
  <2> QED
    BY <2>1, <2>2, <2>3 DEF ProgramInv
<1>4. PhaseInv
  <2>1. OutBelow(0)
    BY SameIndex DEF OutBelow, Out, Buffers
  <2> QED
    BY <2>1 DEF Idle, Handing, Opening, Closing, PhaseInv, IdlePhase, QbufPhase, StartPhase,
       LoopPhase, ReadPhase, RequeuePhase, StopPhase, EndPhase
<1>5. FedInv
  BY DEF FedInv
<1>6. LengthInv
  BY DEF LengthInv
<1> QED
  BY <1>2, <1>3, <1>4, <1>5, <1>6 DEF SysInv

(* Program and driver agree at every call: on which buffers are out, on    *)
(* whether the stream runs, and on who still holds memory.                 *)
THEOREM Invariant == Spec => []SysInv
<1>1. Init => SysInv
  BY SysInit
<1>2. SysInv /\ [Next]_vars => SysInv'
  BY DriverKept, ProgramKept, LengthKept, PhaseKept, FedKept DEF SysInv
<1> QED
  BY <1>1, <1>2, PTL DEF Spec

(* While the program runs, no buffer the driver may write to has been      *)
(* unmapped or freed, or is too short for an image: at every interleaving  *)
(* of the program's calls, the ioctls they start and the thread            *)
(* (grabber.c:208-224, 274-296, 361, 402).                                 *)
THEOREM MemoryOutlivesQueue == Spec => []QueuedInMemory
<1>1. SysInv => QueuedInMemory
  <2> SUFFICES ASSUME SysInv, status = "running", NEW b \in Buffers,
                      vbstate[b] \in {"QUEUED", "ACTIVE"}
               PROVE  b \in held /\ Dev!dev_image_size <= length[b]
    BY SameIndex DEF QueuedInMemory
  <2>1. Out(b) /\ b \in 0 .. ReqCount - 1
    BY DEF Out, Buffers
  <2>2. pc \in Capturing /\ b < n_buffers
    <3>1. ~(b < 0)
      BY <2>1, ReqCountAssumption
    <3>2. pc \in Capturing
      BY <2>1, <3>1
      DEF SysInv, ProgramInv, PhaseInv, IdlePhase, Idle, OutBelow
    <3>3. i \in Int /\ n_buffers \in Int /\ i <= n_buffers
      BY ReqCountAssumption DEF SysInv, ProgramInv
    <3>4. CASE pc = "qbuf"
      <4>1. CASE calling => i < n_buffers
        <5>1. OutBelow(i) \/ (i < n_buffers /\ OutBelow(i + 1))
          BY <3>4, <4>1 DEF SysInv, ProgramInv, PhaseInv, QbufPhase
        <5>2. b < i \/ (i < n_buffers /\ b < i + 1)
          BY <2>1, <5>1 DEF OutBelow
        <5> QED
          BY <2>1, <3>2, <3>3, <5>2
      <4>2. CASE calling /\ i = n_buffers
        BY <2>1, <3>2, <3>4, <4>2 DEF SysInv, PhaseInv, StartPhase, OutBelow
      <4> QED
        BY <3>2, <3>3, <4>1, <4>2
    <3>5. CASE pc \in {"mainloop", "select", "read_frame", "requeue"}
      BY <2>1, <3>2, <3>5
      DEF SysInv, ProgramInv, PhaseInv, LoopPhase, ReadPhase, RequeuePhase, OutBelow, OutBut
    <3>6. CASE pc = "stop"
      BY <2>1, <3>1, <3>2, <3>6
      DEF SysInv, ProgramInv, PhaseInv, StopPhase, OutBelow, Idle
    <3> QED
      BY <3>2, <3>4, <3>5, <3>6 DEF Capturing
  <2>3. b \in held
    BY <2>1, <2>2, ReqCountAssumption DEF SysInv, ProgramInv
  <2> QED
    BY <2>3 DEF SysInv, LengthInv
<1> QED
  BY <1>1, Invariant, PTL

(* A program that returns every frame within the thread's sleep is never   *)
(* given up on, with any number of buffers (vid4linux.c:96-101).           *)
THEOREM NobodyStarves == Spec => []NeverStarved
<1>1. SysInv => NeverStarved
  BY DEF SysInv, FedInv, NeverStarved
<1> QED
  BY <1>1, Invariant, PTL

(* Asked for at least two buffers (the code asks for four), a capture      *)
(* fails on this driver only in the ways FailureExplained lists, whatever  *)
(* the system refuses the program: the asserts of read_frame hold, and     *)
(* DQBUF, the QBUF of read_frame, STREAMOFF and close succeed at every     *)
(* interleaving with the thread (grabber.c:50-54, 123, 157, 196-199, 302,  *)
(* 336-344, 369, 396, 405, 527-543).                                       *)
THEOREM FailuresAreExplained == ReqCount >= 2 => (Spec => FailureExplained)
<1> SUFFICES ASSUME ReqCount >= 2 PROVE  Spec => FailureExplained
  OBVIOUS
<1> DEFINE Explained ==
      (status = "running" /\ status' \in {"failure", "aborted"}) =>
        /\ status' = "failure"
        /\ \/ pc = "options"
           \/ pc = "open" /\ refused' = "open"
           \/ pc \in {"init_io", "map", "qbuf"} /\ refused' = "memory"
           \/ pc = "format" /\ force_format
           \/ pc \in {"init_io", "qbuf"} /\ num_buffers < ReqCount
           \/ pc = "qbuf" /\ start_failed
           \/ pc = "select" /\ tpc \in Dev!ThreadDead
<1>1. ASSUME SysInv, [Next]_vars PROVE  [Explained]_vars
  <2> USE DEF App!Running, App!Goto, App!errno_exit, App!optionVars, App!bufferVars,
              App!frameVars, Result
  <2>0. DriverInv /\ ProgramInv /\ PhaseInv /\ DevP!Inv
    BY <1>1 DEF SysInv, DriverInv
  <2>1. SUFFICES ASSUME Next, status = "running", status' \in {"failure", "aborted"}
                 PROVE  Explained
    BY <1>1
  <2>2. status' # status
    BY <2>1
  <2>3. CASE \/ DriverStep \/ ThreadStep \/ UNCHANGED vars
             \/ call_reqbufs \/ call_qbuf \/ call_streamon \/ call_dqbuf \/ call_requeue
             \/ call_streamoff \/ call_close \/ exit_release \/ exit_released
    <3>1. UNCHANGED status
      BY <2>3 DEF DriverStep, ThreadStep, vars, appVars, call_reqbufs, call_qbuf,
         call_streamon, call_dqbuf, call_requeue, call_streamoff, call_close, exit_release,
         exit_released, Call
    <3> QED
      BY <2>2, <3>1
  <2>4. CASE local_step
    <3>1. CASE App!main_options
      BY <2>1, <3>1 DEF App!main_options
    <3>2. CASE App!open_device("ok") \/ App!init_map("ok", BufferLength) \/ App!init_done \/ App!mainloop
               \/ App!main_return
      BY <2>1, <3>2
      DEF App!open_device, App!init_map, App!init_done, App!mainloop, App!main_return
    <3>3. CASE App!init_device_caps("ok", vidioc_querycap)
      <4>1. App!CapsSuffice(vidioc_querycap)
        BY DEF App!CapsSuffice, vidioc_querycap
      <4> QED
        BY <2>1, <3>3, <4>1 DEF App!init_device_caps
    <3>4. CASE App!init_device_format(IF force_format THEN vidioc_s_fmt_vid_cap ELSE "ok")
      BY <2>1, <3>4 DEF App!init_device_format
    <3>5. CASE App!uninit_device("ok")
      BY <2>1, <3>5 DEF App!uninit_device
    <3> QED
      BY <2>4, <3>1, <3>2, <3>3, <3>4, <3>5 DEF local_step
  <2>5. CASE select
    <3>1. /\ pc = "select" /\ status' = "failure"
          /\ tpc \notin Dev!ThreadRunning /\ Live
      BY <2>0, <2>1, <2>5 DEF select, App!mainloop_select, PhaseInv, LoopPhase
    <3>2. tpc \in Dev!ThreadDead
      BY <2>0, <3>1 DEF DevP!Inv, DevP!TypeOK, DevP!DeviceTypeOK, DevP!ThreadRunning,
         DevP!ThreadDead, Dev!ThreadRunning, Dev!ThreadDead, Live
    <3> QED
      BY <3>1, <3>2
  <2>6. CASE return_reqbufs
    <3>1. pc = "init_io" /\ calling /\ App!init_reqbufs(Result, num_buffers)
      BY <2>6 DEF return_reqbufs, Returned
    <3>2. ret = "ok"
      BY <2>0, <2>1, <3>1 DEF PhaseInv, IdlePhase, Opening
    <3>3. status' = "failure" /\ ~(num_buffers >= 2)
      BY <2>1, <3>1, <3>2 DEF App!init_reqbufs
    <3>4. num_buffers < ReqCount
      BY <2>0, <3>3, DeviceFacts, ReqCountAssumption
    <3> QED
      BY <3>1, <3>3, <3>4
  <2>7. CASE return_start
    <3>1. /\ pc = "qbuf" /\ calling /\ mutex = Nobody
          /\ App!start_capturing_qbuf(Result) \/ App!start_capturing_streamon(Result)
      BY <2>7 DEF return_start, Returned
    <3>2. status' = "failure" /\ ret # "ok"
      BY <2>1, <3>1 DEF App!start_capturing_qbuf, App!start_capturing_streamon
    <3>3. i \in 0 .. n_buffers /\ n_buffers \in 0 .. ReqCount /\ num_buffers \in 0 .. ReqCount
      BY <2>0, DeviceFacts, ReqCountAssumption DEF ProgramInv
    <3>4. CASE i < n_buffers
      <4>1. num_buffers <= i
        BY <2>0, <2>1, <3>1, <3>2, <3>4 DEF PhaseInv, QbufPhase
      <4>2. num_buffers < ReqCount
        BY <3>3, <3>4, <4>1, ReqCountAssumption
      <4> QED
        BY <3>1, <3>2, <4>2
    <3>5. CASE i = n_buffers
      <4>1. step = "none"
        BY <2>0, <3>1, DeviceFacts
      <4>2. start_failed
        BY <2>0, <2>1, <3>1, <3>2, <3>5, <4>1 DEF PhaseInv, StartPhase, Handing
      <4> QED
        BY <3>1, <3>2, <4>2
    <3> QED
      BY <3>3, <3>4, <3>5
  <2>8. CASE return_dqbuf
    <3>1. pc = "read_frame" /\ calling /\ App!read_frame(Result, index, Dev!dev_image_size)
      BY <2>8 DEF return_dqbuf, Returned
    <3>2. ret = "EAGAIN" \/ (ret = "ok" /\ index \in 0 .. n_buffers - 1)
      BY <2>0, <2>1, <3>1 DEF PhaseInv, ReadPhase
    <3>3. ~(ret = "ok" /\ index >= n_buffers)
      BY <2>0, <3>2, ReqCountAssumption DEF ProgramInv
    <3> QED
      BY <2>1, <3>1, <3>2, <3>3 DEF App!read_frame
  <2>9. CASE return_requeue
    <3>1. pc = "requeue" /\ calling /\ mutex = Nobody /\ App!read_frame_requeue(Result)
      BY <2>9 DEF return_requeue, Returned
    <3>2. step = "none"
      BY <2>0, <3>1, DeviceFacts
    <3>3. ret = "ok"
      BY <2>0, <2>1, <3>1, <3>2 DEF PhaseInv, RequeuePhase
    <3> QED
      BY <2>1, <3>1, <3>3 DEF App!read_frame_requeue
  <2>10. CASE return_streamoff
    <3>1. pc = "stop" /\ calling /\ mutex = Nobody /\ App!stop_capturing(Result)
      BY <2>10 DEF return_streamoff, Returned
    <3>2. step = "none"
      BY <2>0, <3>1, DeviceFacts
    <3>3. ret = "ok"
      BY <2>0, <2>1, <3>1, <3>2 DEF PhaseInv, StopPhase, Stopping
    <3> QED
      BY <2>1, <3>1, <3>3 DEF App!stop_capturing
  <2>11. CASE return_close
    BY <2>1, <2>11 DEF return_close, App!close_device
  <2>12. CASE refusal
    BY <2>12, RefusalMoves
  <2> QED
    BY <2>1, <2>3, <2>4, <2>5, <2>6, <2>7, <2>8, <2>9, <2>10, <2>11, <2>12
      DEF Next, ProcessStep
<1>2. Spec => [][Explained]_vars
  BY <1>1, Invariant, PTL DEF Spec
<1> QED
  BY <1>2 DEF FailureExplained

=============================================================================
