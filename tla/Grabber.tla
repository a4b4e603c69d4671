------------------------------ MODULE Grabber ------------------------------
(***************************************************************************)
(* The capture program, src/lkml/v4l2-app/grabber.c.                       *)
(*                                                                         *)
(* One action per system call the program's control flow depends on.  The  *)
(* call's result r is the action's parameter: "ok", "EAGAIN", "EINTR",     *)
(* "timeout" or "error".  pc names the next call; a program that has ended *)
(* keeps the pc it ended at.  xioctl's retry on EINTR is part of the call. *)
(***************************************************************************)
EXTENDS Integers

CONSTANTS
  ReqCount,        \* buffers asked for (4 in the source)
  MaxGranted,      \* bound: the most buffers a device grants
  MaxLength,       \* bound: the longest buffer
  FrameCounts,     \* values of -c
  UINT,            \* 2^w, w the width of unsigned int
  CaptureEnabled   \* FALSE: main as committed, with lines 641-645 commented
                   \* out.  TRUE: main with those five calls restored.

ASSUME ReqCountAssumption == ReqCount \in Nat \ {0} /\ MaxGranted \in Nat
ASSUME LengthAssumption == MaxLength \in Nat
ASSUME UintAssumption == UINT \in Nat \ {0} /\ FrameCounts \subseteq Int
ASSUME CaptureAssumption == CaptureEnabled \in BOOLEAN

VARIABLES
  pc, status,      \* next call; "running", "success", "failure" or "aborted"
  io,              \* "READ", "MMAP" or "USERPTR"
  force_format,    \* -f was given
  frame_count,     \* -c
  fd,              \* "none", "open" or "closed"
  req_count,       \* length of the array buffers
  n_buffers,
  held,            \* buffers whose memory is mapped or allocated
  length,          \* and their length; 0, from calloc, before that
  i,               \* loop index of start_capturing and uninit_device
  count,           \* frames mainloop has left to read
  buf,             \* index of the buffer last dequeued
  size, frames     \* bytes of it, and frames so far, passed to process_image

optionVars == <<io, force_format, frame_count>>
bufferVars == <<req_count, n_buffers, held, length, i>>
frameVars  == <<count, buf, size, frames>>
vars == <<pc, status, optionVars, fd, bufferVars, frameVars>>

Running(p) == status = "running" /\ pc = p
Goto(p)    == pc' = p /\ UNCHANGED status

(* errno_exit, and every exit(EXIT_FAILURE).                               *)
errno_exit == status' = "failure" /\ UNCHANGED pc

(* The entries of the array buffers.                                       *)
Indices == 0 .. ReqCount + MaxGranted

(* What main does when init_device has returned.                           *)
AfterInit == IF CaptureEnabled THEN "qbuf" ELSE "return"

Init ==
  /\ pc = "options" /\ status = "running"
  /\ io = "MMAP" /\ force_format = FALSE /\ frame_count = 70
  /\ fd = "none" /\ req_count = 0 /\ n_buffers = 0 /\ held = {} /\ i = 0
  /\ length = [b \in Indices |-> 0]
  /\ count = 0 /\ buf = 0 /\ size = 0 /\ frames = 0

(* The option loop: its outcome is the last value of each option; -h and   *)
(* a bad option or number end the program.                                 *)
main_options ==
  /\ Running("options")
  /\ \/ /\ io' \in {"READ", "MMAP", "USERPTR"}
        /\ force_format' \in BOOLEAN
        /\ frame_count' \in FrameCounts
        /\ Goto("open")
     \/ status' \in {"success", "failure"} /\ UNCHANGED <<pc, optionVars>>
  /\ UNCHANGED <<fd, bufferVars, frameVars>>

(* stat, the S_ISCHR test and open.                                        *)
open_device(r) ==
  /\ Running("open")
  /\ IF r = "ok" THEN fd' = "open" /\ Goto("querycap")
     ELSE errno_exit /\ UNCHANGED fd
  /\ UNCHANGED <<optionVars, bufferVars, frameVars>>

(* Does the device do what the chosen method needs?                        *)
CapsSuffice(caps) ==
  /\ "VIDEO_CAPTURE" \in caps
  /\ (IF io = "READ" THEN "READWRITE" ELSE "STREAMING") \in caps

init_device_caps(r, caps) ==
  /\ Running("querycap")
  /\ IF r = "ok" /\ CapsSuffice(caps) THEN Goto("format") ELSE errno_exit
  /\ UNCHANGED <<optionVars, fd, bufferVars, frameVars>>

(* The errors of CROPCAP and S_CROP are ignored; then S_FMT if             *)
(* force_format is set, G_FMT otherwise.                                   *)
init_device_format(r) ==
  /\ Running("format")
  /\ IF r = "ok" THEN Goto("init_io") ELSE errno_exit
  /\ UNCHANGED <<optionVars, fd, bufferVars, frameVars>>

(* One buffer of len bytes, the sizeimage of the format.                   *)
init_read(r, len) ==
  /\ Running("init_io") /\ io = "READ"
  /\ IF r = "ok"
     THEN /\ held' = {0} /\ length' = [length EXCEPT ![0] = len]
          /\ req_count' = 1 /\ Goto(AfterInit)
     ELSE errno_exit /\ UNCHANGED <<held, length, req_count>>
  /\ UNCHANGED <<optionVars, fd, n_buffers, i, frameVars>>

(* REQBUFS and the calloc of buffers.  init_mmap goes by the number of     *)
(* buffers granted, init_userp by the number it asked for.                 *)
init_reqbufs(r, granted) ==
  /\ Running("init_io") /\ io # "READ"
  /\ IF r = "ok" /\ (io = "MMAP" => granted >= 2)
     THEN /\ req_count' = IF io = "MMAP" THEN granted ELSE ReqCount
          /\ Goto("map")
     ELSE errno_exit /\ UNCHANGED req_count
  /\ UNCHANGED <<optionVars, fd, n_buffers, held, length, i, frameVars>>

(* QUERYBUF and mmap, or malloc, for the next buffer; its length is the    *)
(* device's answer to QUERYBUF, or for all of them the format's sizeimage. *)
init_map(r, len) ==
  /\ Running("map") /\ n_buffers < req_count
  /\ io = "USERPTR" /\ n_buffers > 0 => len = length[0]
  /\ IF r = "ok"
     THEN /\ held' = held \cup {n_buffers}
          /\ length' = [length EXCEPT ![n_buffers] = len]
          /\ n_buffers' = n_buffers + 1
          /\ UNCHANGED <<pc, status>>
     ELSE errno_exit /\ UNCHANGED <<held, length, n_buffers>>
  /\ UNCHANGED <<optionVars, fd, req_count, i, frameVars>>

init_done ==
  /\ Running("map") /\ n_buffers = req_count
  /\ Goto(AfterInit)
  /\ UNCHANGED <<optionVars, fd, bufferVars, frameVars>>

(* Mutant: one buffer too many is queued.                                  *)
start_capturing_qbuf_mutant_one_more(r) ==
  /\ Running("qbuf") /\ io # "READ" /\ i <= n_buffers
  /\ IF r = "ok" THEN i' = i + 1 /\ UNCHANGED <<pc, status>>
     ELSE errno_exit /\ UNCHANGED i
  /\ UNCHANGED <<optionVars, fd, req_count, n_buffers, held, length, frameVars>>

(* QBUF for the next buffer; read i/o has none to queue.                   *)
start_capturing_qbuf(r) ==
  /\ Running("qbuf") /\ io # "READ" /\ i < n_buffers
  /\ IF r = "ok" THEN i' = i + 1 /\ UNCHANGED <<pc, status>>
     ELSE errno_exit /\ UNCHANGED i
  /\ UNCHANGED <<optionVars, fd, req_count, n_buffers, held, length, frameVars>>

(* STREAMON, which read i/o does without; mainloop copies frame_count to   *)
(* an unsigned int.                                                        *)
start_capturing_streamon(r) ==
  /\ Running("qbuf") /\ (io = "READ" \/ i = n_buffers)
  /\ IF r = "ok" \/ io = "READ"
     THEN count' = frame_count % UINT /\ Goto("mainloop")
     ELSE errno_exit /\ UNCHANGED count
  /\ UNCHANGED <<optionVars, fd, bufferVars, buf, size, frames>>

(* Mutant: the loop also runs once more when count is 0.                   *)
mainloop_mutant_ge ==
  /\ Running("mainloop")
  /\ count' = (count - 1) % UINT
  /\ Goto(IF count >= 0 /\ frames <= frame_count THEN "select" ELSE "stop")
  /\ UNCHANGED <<optionVars, fd, bufferVars, buf, size, frames>>

(* Mutant: the buffers are released without stop_capturing.                *)
mainloop_mutant_unstopped ==
  /\ Running("mainloop")
  /\ count' = (count - 1) % UINT
  /\ IF count > 0 THEN Goto("select") /\ UNCHANGED i
     ELSE Goto("unmap") /\ i' = 0
  /\ UNCHANGED <<optionVars, fd, req_count, n_buffers, held, length, buf, size, frames>>

(* while (count-- > 0)                                                     *)
mainloop ==
  /\ Running("mainloop")
  /\ count' = (count - 1) % UINT
  /\ Goto(IF count > 0 THEN "select" ELSE "stop")
  /\ UNCHANGED <<optionVars, fd, bufferVars, buf, size, frames>>

(* Mutant: a timeout is treated like EINTR.                                *)
mainloop_select_mutant_retries(r) ==
  /\ Running("select")
  /\ \/ r = "ok" /\ Goto("read_frame")
     \/ r \in {"EINTR", "timeout"} /\ UNCHANGED <<pc, status>>
     \/ r = "error" /\ errno_exit
  /\ UNCHANGED <<optionVars, fd, bufferVars, frameVars>>

(* select with a two-second timeout.                                       *)
mainloop_select(r) ==
  /\ Running("select")
  /\ \/ r = "ok" /\ Goto("read_frame")
     \/ r = "EINTR" /\ UNCHANGED <<pc, status>>
     \/ r \in {"timeout", "error"} /\ errno_exit
  /\ UNCHANGED <<optionVars, fd, bufferVars, frameVars>>

(* Mutant: no assert on the index the device returns.                      *)
read_frame_mutant_unchecked(r, index, bytesused) ==
  /\ Running("read_frame")
  /\ \/ r = "EAGAIN" /\ Goto("select") /\ UNCHANGED <<buf, size, frames>>
     \/ r = "error" /\ errno_exit /\ UNCHANGED <<buf, size, frames>>
     \/ /\ r = "ok"
        /\ buf' = index /\ size' = bytesused /\ frames' = frames + 1
        /\ Goto(IF io = "READ" THEN "mainloop" ELSE "requeue")
  /\ UNCHANGED <<optionVars, fd, bufferVars, count>>

(* Mutant: read_frame does not queue the buffer again.                     *)
read_frame_mutant_kept(r, index, bytesused) ==
  /\ Running("read_frame")
  /\ \/ r = "EAGAIN" /\ Goto("select") /\ UNCHANGED <<buf, size, frames>>
     \/ r = "error" /\ errno_exit /\ UNCHANGED <<buf, size, frames>>
     \/ /\ r = "ok" /\ Goto("mainloop")
        /\ buf' = index /\ size' = bytesused /\ frames' = frames + 1
  /\ UNCHANGED <<optionVars, fd, bufferVars, count>>

(* read or DQBUF, the assert on the index (MMAP) or the pointer (USERPTR)  *)
(* that came back, and process_image: of as many bytes as the device says  *)
(* it has filled, or of the whole buffer after a read.                     *)
read_frame(r, index, bytesused) ==
  /\ Running("read_frame")
  /\ \/ r = "EAGAIN" /\ Goto("select") /\ UNCHANGED <<buf, size, frames>>
     \/ r = "error" /\ errno_exit /\ UNCHANGED <<buf, size, frames>>
     \/ /\ r = "ok" /\ io # "READ" /\ index >= n_buffers
        /\ status' = "aborted"
        /\ UNCHANGED <<pc, buf, size, frames>>
     \/ /\ r = "ok" /\ io # "READ" /\ index < n_buffers
        /\ buf' = index /\ size' = bytesused /\ frames' = frames + 1
        /\ Goto("requeue")
     \/ /\ r = "ok" /\ io = "READ"
        /\ buf' = 0 /\ size' = length[0] /\ frames' = frames + 1
        /\ Goto("mainloop")
  /\ UNCHANGED <<optionVars, fd, bufferVars, count>>

(* The QBUF that ends read_frame.                                          *)
read_frame_requeue(r) ==
  /\ Running("requeue")
  /\ IF r = "ok" THEN Goto("mainloop") ELSE errno_exit
  /\ UNCHANGED <<optionVars, fd, bufferVars, frameVars>>

(* STREAMOFF, which read i/o does without.                                 *)
stop_capturing(r) ==
  /\ Running("stop")
  /\ IF r = "ok" \/ io = "READ" THEN i' = 0 /\ Goto("unmap")
     ELSE errno_exit /\ UNCHANGED i
  /\ UNCHANGED <<optionVars, fd, req_count, n_buffers, held, length, frameVars>>

(* Mutant: the last buffer is not released.                                *)
uninit_device_mutant_one_less(r) ==
  /\ Running("unmap")
  /\ IF i < n_buffers - 1
     THEN held' = held \ {i} /\ i' = i + 1 /\ UNCHANGED <<pc, status>>
     ELSE Goto("close") /\ UNCHANGED <<held, i>>
  /\ UNCHANGED <<optionVars, fd, req_count, n_buffers, length, frameVars>>

(* munmap can fail, free cannot.                                           *)
uninit_device(r) ==
  /\ Running("unmap")
  /\ IF io = "READ"
     THEN held' = {} /\ Goto("close") /\ UNCHANGED i
     ELSE IF i = n_buffers THEN Goto("close") /\ UNCHANGED <<held, i>>
     ELSE IF r = "ok" \/ io = "USERPTR"
     THEN held' = held \ {i} /\ i' = i + 1 /\ UNCHANGED <<pc, status>>
     ELSE errno_exit /\ UNCHANGED <<held, i>>
  /\ UNCHANGED <<optionVars, fd, req_count, n_buffers, length, frameVars>>

close_device(r) ==
  /\ Running("close")
  /\ IF r = "ok" THEN fd' = "closed" /\ Goto("return")
     ELSE errno_exit /\ UNCHANGED fd
  /\ UNCHANGED <<optionVars, bufferVars, frameVars>>

main_return ==
  /\ Running("return")
  /\ status' = "success"
  /\ UNCHANGED <<pc, optionVars, fd, bufferVars, frameVars>>

Ended == status # "running" /\ UNCHANGED vars

(* The program on any device: every call may return anything it can.  A    *)
(* device may name any buffer, of any length it chose, and says of none    *)
(* that it has filled more bytes than that.                                *)
Next ==
  \/ main_options \/ init_done \/ mainloop \/ main_return \/ Ended
  \/ \E r \in {"ok", "error"} :
       \/ open_device(r) \/ init_device_format(r)
       \/ \E len \in 1 .. MaxLength : init_read(r, len) \/ init_map(r, len)
       \/ \E caps \in SUBSET {"VIDEO_CAPTURE", "READWRITE", "STREAMING"} :
            init_device_caps(r, caps)
       \/ \E granted \in 0 .. MaxGranted : init_reqbufs(r, granted)
       \/ start_capturing_qbuf(r) \/ start_capturing_streamon(r)
       \/ read_frame_requeue(r) \/ stop_capturing(r) \/ uninit_device(r)
       \/ close_device(r)
  \/ \E r \in {"ok", "EINTR", "timeout", "error"} : mainloop_select(r)
  \/ \E r \in {"ok", "EAGAIN", "error"}, index \in 0 .. MaxGranted :
       \E bytesused \in 0 .. length[index] : read_frame(r, index, bytesused)

Spec == Init /\ [][Next]_vars

-----------------------------------------------------------------------------
(* Properties.                                                             *)

(* Every variable has its type.                                            *)
TypeOK ==
  /\ pc \in {"options", "open", "querycap", "format", "init_io", "map", "qbuf",
             "mainloop", "select", "read_frame", "requeue", "stop", "unmap",
             "close", "return"}
  /\ status \in {"running", "success", "failure", "aborted"}
  /\ io \in {"READ", "MMAP", "USERPTR"} /\ force_format \in BOOLEAN
  /\ frame_count \in FrameCounts \cup {70}
  /\ fd \in {"none", "open", "closed"}
  /\ req_count \in Nat /\ n_buffers \in 0 .. req_count /\ i \in 0 .. n_buffers
  /\ held \subseteq 0 .. req_count - 1
  /\ length \in [Indices -> 0 .. MaxLength]
  /\ count \in 0 .. UINT - 1 /\ buf \in Nat /\ size \in 0 .. MaxLength /\ frames \in 0 .. UINT - 1

(* A program that ends successfully without having been asked for help has *)
(* passed as many frames to process_image as -c says; a negative count is  *)
(* read as unsigned (grabber.c:171-205, 628).                              *)
CountHonoured ==
  (status = "success" /\ pc # "options") => frames = frame_count % UINT

(* Whatever index the device returns, the bytes process_image reads lie in *)
(* memory the program has mapped or allocated, if the device has not       *)
(* filled more of that buffer than there is: the pointer and the length    *)
(* are of the same buffer (grabber.c:99, 123-125, 152-159, 307, 349-371,   *)
(* 401-409).                                                               *)
FrameInMemory ==
  [][frames' # frames => buf' \in held /\ size' \in 0 .. length[buf']]_vars

(* A program that ends successfully after a capture has given back every   *)
(* mapping and allocation, and its descriptor (grabber.c:274-296, 515-521).*)
CleanExit ==
  (CaptureEnabled /\ status = "success" /\ pc # "options")
    => held = {} /\ fd = "closed"
=============================================================================
