--------------------------- MODULE GrabberProofs ---------------------------
(***************************************************************************)
(* Proofs about the capture program, for any device, any value of -c and   *)
(* any width of unsigned int.                                              *)
(*                                                                         *)
(* The invariants the run checks speak of the end of the program, or of    *)
(* one moment of it, and are not inductive.  Inv records, for every call   *)
(* the program can be about to make, what it has open (DeviceInv), which   *)
(* memory it holds (MemoryInv) and how the frames read and the frames left *)
(* add up to the number asked for (FrameInv).                              *)
(***************************************************************************)
EXTENDS Grabber, TLAPS

Asked == frame_count % UINT

Preparing == {"options", "open", "querycap", "format", "init_io"}
Capturing == {"qbuf", "mainloop", "select", "read_frame", "requeue", "stop"}

(* Which ends are possible, that only a program with the capture enabled   *)
(* captures, and what is open at the end.                                  *)
DeviceInv ==
  /\ status = "success" => pc \in {"options", "return"}
  /\ pc \in Capturing \cup {"unmap", "close"} => CaptureEnabled
  /\ (CaptureEnabled /\ pc = "return") => fd = "closed"

(* The memory held: none before init_device reaches it, the buffers that   *)
(* have been set up while it does, all of them during the capture, and     *)
(* those uninit_device has still to come to after it.                      *)
MemoryInv ==
  /\ pc \in Preparing => req_count = 0 /\ n_buffers = 0 /\ held = {}
  /\ pc \in Preparing \cup {"map"} => i = 0
  /\ pc = "map" => io # "READ" /\ held = 0 .. n_buffers - 1
  /\ pc \in Capturing =>
       held = IF io = "READ" THEN {0} ELSE 0 .. n_buffers - 1
  /\ (pc = "unmap" /\ io # "READ") => held = i .. n_buffers - 1
  /\ pc = "close" \/ (CaptureEnabled /\ pc = "return") => held = {}
  /\ pc = "requeue" => io # "READ" /\ buf < n_buffers

(* Frames read and frames left.  mainloop takes one off count before it    *)
(* reads a frame, so that one is on its way in select and read_frame; the  *)
(* test that ends the loop takes one off 0, which leaves UINT - 1.         *)
FrameInv ==
  /\ pc \in Preparing \cup {"map", "qbuf"} => frames = 0
  /\ pc \in {"mainloop", "requeue"} => frames + count = Asked
  /\ pc \in {"select", "read_frame"} => frames + count + 1 = Asked
  /\ pc \in {"stop", "unmap", "close"} \/ (CaptureEnabled /\ pc = "return") =>
       frames = Asked
  /\ (~CaptureEnabled /\ pc = "return") => frames = 0

Inv == TypeOK /\ DeviceInv /\ MemoryInv /\ FrameInv

-----------------------------------------------------------------------------
(* What the conversion of an int to unsigned int yields.                   *)
LEMMA Unsigned == \A n \in Int : n % UINT \in 0 .. UINT - 1
  BY UintAssumption

(* The first n indexes and the next one; the indexes from m on without m.  *)
LEMMA Intervals ==
  ASSUME NEW m \in Nat, NEW n \in Nat
  PROVE  /\ (0 .. n - 1) \cup {n} = 0 .. (n + 1) - 1
         /\ (m .. n - 1) \ {m} = m + 1 .. n - 1
  OBVIOUS

(* The number of -c is an int, the default of 70 included.                 *)
LEMMA CountIsInt == TypeOK => frame_count \in Int /\ Asked \in 0 .. UINT - 1
  BY Unsigned, UintAssumption DEF TypeOK, Asked

(* Every call keeps the types: in particular frames never passes UINT - 1, *)
(* and no index passes the length of buffers.                              *)
LEMMA TypeStep == Inv /\ [Next]_vars => TypeOK'
<1> SUFFICES ASSUME Inv, [Next]_vars PROVE  TypeOK'
  OBVIOUS
<1> USE DEF Inv, TypeOK
<1>1. CASE main_options
  BY <1>1, ReqCountAssumption, UintAssumption, CaptureAssumption DEF
    main_options, Running, Goto, errno_exit, optionVars, bufferVars, frameVars
<1>2. CASE init_done
  BY <1>2, ReqCountAssumption, UintAssumption, CaptureAssumption DEF
    init_done, AfterInit, Running, Goto, errno_exit, optionVars, bufferVars,
    frameVars
<1>3. CASE mainloop
  BY <1>3, ReqCountAssumption, UintAssumption, CaptureAssumption, CountIsInt,
    Unsigned DEF mainloop, Running, Goto, errno_exit, optionVars, bufferVars,
    frameVars
<1>4. CASE main_return
  BY <1>4, ReqCountAssumption, UintAssumption, CaptureAssumption DEF
    main_return, Running, Goto, errno_exit, optionVars, bufferVars, frameVars
<1>5. CASE Ended
  BY <1>5, ReqCountAssumption, UintAssumption, CaptureAssumption DEF Ended,
    vars, optionVars, bufferVars, frameVars
<1>6. ASSUME NEW r \in {"ok", "error"}, open_device(r) PROVE  TypeOK'
  BY <1>6, ReqCountAssumption, UintAssumption, CaptureAssumption DEF
    open_device, Running, Goto, errno_exit, optionVars, bufferVars, frameVars
<1>7. ASSUME NEW r \in {"ok", "error"}, NEW caps, init_device_caps(r, caps)
  PROVE  TypeOK'
  BY <1>7, ReqCountAssumption, UintAssumption, CaptureAssumption DEF
    init_device_caps, Running, Goto, errno_exit, optionVars, bufferVars,
    frameVars
<1>8. ASSUME NEW r \in {"ok", "error"}, init_device_format(r) PROVE  TypeOK'
  BY <1>8, ReqCountAssumption, UintAssumption, CaptureAssumption DEF
    init_device_format, Running, Goto, errno_exit, optionVars, bufferVars,
    frameVars
<1>9. ASSUME NEW r \in {"ok", "error"}, NEW len \in 1 .. MaxLength,
  init_read(r, len) PROVE  TypeOK'
  <2>1. CASE r = "ok"
    <3>1. held' \subseteq 0 .. req_count' - 1
      BY <1>9, <2>1 DEF init_read
    <3>2. length' \in [Indices -> 0 .. MaxLength]
      BY <1>9, <2>1, LengthAssumption DEF init_read
    <3> QED
      BY <1>9, <2>1, <3>1, <3>2, CaptureAssumption DEF init_read, AfterInit, MemoryInv,
        Preparing, Running, Goto, optionVars, bufferVars, frameVars
  <2>2. CASE r # "ok"
    BY <1>9, <2>2 DEF init_read, Running, errno_exit, optionVars, frameVars
  <2> QED
    BY <2>1, <2>2
<1>10. ASSUME NEW r \in {"ok", "error"}, NEW granted \in 0 .. MaxGranted,
  init_reqbufs(r, granted) PROVE  TypeOK'
  BY <1>10, ReqCountAssumption, UintAssumption, CaptureAssumption DEF
    init_reqbufs, Running, Goto, errno_exit, optionVars, bufferVars,
    frameVars, MemoryInv, Preparing
<1>11. ASSUME NEW r \in {"ok", "error"}, NEW len \in 1 .. MaxLength,
  init_map(r, len) PROVE  TypeOK'
  <2>1. CASE r = "ok"
    <3>1. /\ held' = held \cup {n_buffers} /\ n_buffers < req_count
          /\ UNCHANGED req_count
      BY <1>11, <2>1 DEF init_map
    <3>2. held' \subseteq 0 .. req_count' - 1
      BY <3>1
    <3>3. length' \in [Indices -> 0 .. MaxLength]
      BY <1>11, <2>1, LengthAssumption DEF init_map
    <3> QED
      BY <1>11, <2>1, <3>2, <3>3 DEF init_map, Running, optionVars, frameVars
  <2>2. CASE r # "ok"
    BY <1>11, <2>2 DEF init_map, Running, errno_exit, optionVars, frameVars
  <2> QED
    BY <2>1, <2>2
<1>12. ASSUME NEW r \in {"ok", "error"}, start_capturing_qbuf(r) PROVE
  TypeOK'
  BY <1>12, ReqCountAssumption, UintAssumption, CaptureAssumption DEF
    start_capturing_qbuf, Running, Goto, errno_exit, optionVars, bufferVars,
    frameVars
<1>13. ASSUME NEW r \in {"ok", "error"}, start_capturing_streamon(r) PROVE
  TypeOK'
  BY <1>13, ReqCountAssumption, UintAssumption, CaptureAssumption, CountIsInt
    DEF start_capturing_streamon, Running, Goto, errno_exit, optionVars,
    bufferVars, frameVars, Asked
<1>14. ASSUME NEW r \in {"ok", "error"}, read_frame_requeue(r) PROVE  TypeOK'
  BY <1>14, ReqCountAssumption, UintAssumption, CaptureAssumption DEF
    read_frame_requeue, Running, Goto, errno_exit, optionVars, bufferVars,
    frameVars
<1>15. ASSUME NEW r \in {"ok", "error"}, stop_capturing(r) PROVE  TypeOK'
  BY <1>15, ReqCountAssumption, UintAssumption, CaptureAssumption DEF
    stop_capturing, Running, Goto, errno_exit, optionVars, bufferVars,
    frameVars
<1>16. ASSUME NEW r \in {"ok", "error"}, uninit_device(r) PROVE  TypeOK'
  <2>1. held' \subseteq held
    BY <1>16 DEF uninit_device
  <2>2. i' \in 0 .. n_buffers'
    BY <1>16 DEF uninit_device
  <2> QED
    BY <1>16, <2>1, <2>2 DEF uninit_device, Running, Goto, errno_exit,
      optionVars, frameVars
<1>17. ASSUME NEW r \in {"ok", "error"}, close_device(r) PROVE  TypeOK'
  BY <1>17, ReqCountAssumption, UintAssumption, CaptureAssumption DEF
    close_device, Running, Goto, errno_exit, optionVars, bufferVars, frameVars
<1>18. ASSUME NEW r, mainloop_select(r) PROVE  TypeOK'
  BY <1>18, ReqCountAssumption, UintAssumption, CaptureAssumption DEF
    mainloop_select, Running, Goto, errno_exit, optionVars, bufferVars,
    frameVars
<1>19. ASSUME NEW r, NEW index \in 0 .. MaxGranted, NEW bytesused \in 0 .. length[index],
  read_frame(r, index, bytesused) PROVE  TypeOK'
  <2>1. length[0] \in 0 .. MaxLength /\ length[index] \in 0 .. MaxLength
    BY ReqCountAssumption DEF Indices
  <2>2. size' \in 0 .. MaxLength
    BY <1>19, <2>1, LengthAssumption DEF read_frame
  <2> QED
    BY <1>19, <2>2, ReqCountAssumption, UintAssumption, CaptureAssumption, CountIsInt
      DEF read_frame, Running, Goto, errno_exit, optionVars, bufferVars,
      frameVars, FrameInv
<1>20. CASE UNCHANGED vars
  BY <1>20, ReqCountAssumption, UintAssumption, CaptureAssumption DEF vars,
    optionVars, bufferVars, frameVars
<1> QED
  BY <1>1, <1>2, <1>3, <1>4, <1>5, <1>6, <1>7, <1>8, <1>9, <1>10, <1>11,
    <1>12, <1>13, <1>14, <1>15, <1>16, <1>17, <1>18, <1>19, <1>20 DEF Next

(* The program ends successfully only from the option loop or from main's  *)
(* return, which a capturing program reaches through close_device.         *)
LEMMA DeviceStep == Inv /\ [Next]_vars => DeviceInv'
<1> SUFFICES ASSUME Inv, [Next]_vars PROVE  DeviceInv'
  OBVIOUS
<1> USE DEF Inv, DeviceInv, Capturing
<1>1. CASE main_options
  BY <1>1 DEF main_options, Running, Goto, errno_exit, optionVars, bufferVars,
    frameVars
<1>2. CASE init_done
  BY <1>2 DEF init_done, AfterInit, Running, Goto, errno_exit, optionVars,
    bufferVars, frameVars
<1>3. CASE mainloop
  BY <1>3 DEF mainloop, Running, Goto, errno_exit, optionVars, bufferVars,
    frameVars
<1>4. CASE main_return
  BY <1>4 DEF main_return, Running, Goto, errno_exit, optionVars, bufferVars,
    frameVars
<1>5. CASE Ended
  BY <1>5 DEF Ended, vars, optionVars, bufferVars, frameVars
<1>6. ASSUME NEW r \in {"ok", "error"}, open_device(r) PROVE  DeviceInv'
  BY <1>6 DEF open_device, Running, Goto, errno_exit, optionVars, bufferVars,
    frameVars
<1>7. ASSUME NEW r \in {"ok", "error"}, NEW caps, init_device_caps(r, caps)
  PROVE  DeviceInv'
  BY <1>7 DEF init_device_caps, Running, Goto, errno_exit, optionVars,
    bufferVars, frameVars
<1>8. ASSUME NEW r \in {"ok", "error"}, init_device_format(r) PROVE
  DeviceInv'
  BY <1>8 DEF init_device_format, Running, Goto, errno_exit, optionVars,
    bufferVars, frameVars
<1>9. ASSUME NEW r \in {"ok", "error"}, NEW len \in 1 .. MaxLength,
  init_read(r, len) PROVE  DeviceInv'
  BY <1>9 DEF init_read, AfterInit, Running, Goto, errno_exit, optionVars,
    bufferVars, frameVars
<1>10. ASSUME NEW r \in {"ok", "error"}, NEW granted \in 0 .. MaxGranted,
  init_reqbufs(r, granted) PROVE  DeviceInv'
  BY <1>10 DEF init_reqbufs, Running, Goto, errno_exit, optionVars,
    bufferVars, frameVars
<1>11. ASSUME NEW r \in {"ok", "error"}, NEW len \in 1 .. MaxLength,
  init_map(r, len) PROVE  DeviceInv'
  BY <1>11 DEF init_map, Running, Goto, errno_exit, optionVars, bufferVars,
    frameVars
<1>12. ASSUME NEW r \in {"ok", "error"}, start_capturing_qbuf(r) PROVE
  DeviceInv'
  BY <1>12 DEF start_capturing_qbuf, Running, Goto, errno_exit, optionVars,
    bufferVars, frameVars
<1>13. ASSUME NEW r \in {"ok", "error"}, start_capturing_streamon(r) PROVE
  DeviceInv'
  BY <1>13 DEF start_capturing_streamon, Running, Goto, errno_exit,
    optionVars, bufferVars, frameVars
<1>14. ASSUME NEW r \in {"ok", "error"}, read_frame_requeue(r) PROVE
  DeviceInv'
  BY <1>14 DEF read_frame_requeue, Running, Goto, errno_exit, optionVars,
    bufferVars, frameVars
<1>15. ASSUME NEW r \in {"ok", "error"}, stop_capturing(r) PROVE  DeviceInv'
  BY <1>15 DEF stop_capturing, Running, Goto, errno_exit, optionVars,
    bufferVars, frameVars
<1>16. ASSUME NEW r \in {"ok", "error"}, uninit_device(r) PROVE  DeviceInv'
  BY <1>16 DEF uninit_device, Running, Goto, errno_exit, optionVars,
    bufferVars, frameVars
<1>17. ASSUME NEW r \in {"ok", "error"}, close_device(r) PROVE  DeviceInv'
  BY <1>17 DEF close_device, Running, Goto, errno_exit, optionVars,
    bufferVars, frameVars
<1>18. ASSUME NEW r, mainloop_select(r) PROVE  DeviceInv'
  BY <1>18 DEF mainloop_select, Running, Goto, errno_exit, optionVars,
    bufferVars, frameVars
<1>19. ASSUME NEW r, NEW index \in 0 .. MaxGranted, NEW bytesused \in 0 .. length[index],
  read_frame(r, index, bytesused) PROVE  DeviceInv'
  BY <1>19 DEF read_frame, Running, Goto, errno_exit, optionVars, bufferVars,
    frameVars
<1>20. CASE UNCHANGED vars
  BY <1>20 DEF vars, optionVars, bufferVars, frameVars
<1> QED
  BY <1>1, <1>2, <1>3, <1>4, <1>5, <1>6, <1>7, <1>8, <1>9, <1>10, <1>11,
    <1>12, <1>13, <1>14, <1>15, <1>16, <1>17, <1>18, <1>19, <1>20 DEF Next

(* Every call keeps the account of the memory held.                        *)
LEMMA MemoryStep == Inv /\ [Next]_vars => MemoryInv'
<1> SUFFICES ASSUME Inv, [Next]_vars PROVE  MemoryInv'
  OBVIOUS
<1> USE DEF Inv, TypeOK, MemoryInv, Preparing, Capturing
<1>1. CASE main_options
  BY <1>1 DEF main_options, Running, Goto, errno_exit, optionVars, bufferVars,
    frameVars
<1>2. CASE init_done
  BY <1>2 DEF init_done, AfterInit, Running, Goto, errno_exit, optionVars,
    bufferVars, frameVars
<1>3. CASE mainloop
  BY <1>3 DEF mainloop, Running, Goto, errno_exit, optionVars, bufferVars,
    frameVars
<1>4. CASE main_return
  BY <1>4 DEF main_return, Running, Goto, errno_exit, optionVars, bufferVars,
    frameVars
<1>5. CASE Ended
  BY <1>5 DEF Ended, vars, optionVars, bufferVars, frameVars
<1>6. ASSUME NEW r \in {"ok", "error"}, open_device(r) PROVE  MemoryInv'
  BY <1>6 DEF open_device, Running, Goto, errno_exit, optionVars, bufferVars,
    frameVars
<1>7. ASSUME NEW r \in {"ok", "error"}, NEW caps, init_device_caps(r, caps)
  PROVE  MemoryInv'
  BY <1>7 DEF init_device_caps, Running, Goto, errno_exit, optionVars,
    bufferVars, frameVars
<1>8. ASSUME NEW r \in {"ok", "error"}, init_device_format(r) PROVE
  MemoryInv'
  BY <1>8 DEF init_device_format, Running, Goto, errno_exit, optionVars,
    bufferVars, frameVars
<1>9. ASSUME NEW r \in {"ok", "error"}, NEW len \in 1 .. MaxLength,
  init_read(r, len) PROVE  MemoryInv'
  BY <1>9 DEF init_read, AfterInit, Running, Goto, errno_exit, optionVars,
    bufferVars, frameVars
<1>10. ASSUME NEW r \in {"ok", "error"}, NEW granted \in 0 .. MaxGranted,
  init_reqbufs(r, granted) PROVE  MemoryInv'
  BY <1>10 DEF init_reqbufs, Running, Goto, errno_exit, optionVars,
    bufferVars, frameVars
<1>11. ASSUME NEW r \in {"ok", "error"}, NEW len \in 1 .. MaxLength,
  init_map(r, len) PROVE  MemoryInv'
  <2>1. CASE r = "ok"
    <3>1. /\ held' = held \cup {n_buffers} /\ n_buffers' = n_buffers + 1
          /\ held = 0 .. n_buffers - 1
      BY <1>11, <2>1 DEF init_map, Running
    <3>2. held' = 0 .. n_buffers' - 1
      BY <3>1, Intervals
    <3> QED
      BY <1>11, <2>1, <3>2 DEF init_map, Running, optionVars, frameVars
  <2>2. CASE r # "ok"
    BY <1>11, <2>2 DEF init_map, Running, errno_exit, optionVars, frameVars
  <2> QED
    BY <2>1, <2>2
<1>12. ASSUME NEW r \in {"ok", "error"}, start_capturing_qbuf(r) PROVE
  MemoryInv'
  BY <1>12 DEF start_capturing_qbuf, Running, Goto, errno_exit, optionVars,
    bufferVars, frameVars
<1>13. ASSUME NEW r \in {"ok", "error"}, start_capturing_streamon(r) PROVE
  MemoryInv'
  BY <1>13 DEF start_capturing_streamon, Running, Goto, errno_exit,
    optionVars, bufferVars, frameVars
<1>14. ASSUME NEW r \in {"ok", "error"}, read_frame_requeue(r) PROVE
  MemoryInv'
  BY <1>14 DEF read_frame_requeue, Running, Goto, errno_exit, optionVars,
    bufferVars, frameVars
<1>15. ASSUME NEW r \in {"ok", "error"}, stop_capturing(r) PROVE  MemoryInv'
  BY <1>15 DEF stop_capturing, Running, Goto, errno_exit, optionVars,
    bufferVars, frameVars
<1>16. ASSUME NEW r \in {"ok", "error"}, uninit_device(r) PROVE  MemoryInv'
  <2>1. CASE io # "READ" /\ i = n_buffers
    <3>1. held = {}
      BY <1>16, <2>1 DEF uninit_device, Running
    <3> QED
      BY <1>16, <2>1, <3>1 DEF uninit_device, Running, Goto, optionVars, frameVars
  <2>2. CASE io # "READ" /\ i # n_buffers /\ (r = "ok" \/ io = "USERPTR")
    <3>1. /\ held' = held \ {i} /\ i' = i + 1 /\ n_buffers' = n_buffers
          /\ held = i .. n_buffers - 1
      BY <1>16, <2>2 DEF uninit_device, Running
    <3>2. held' = i' .. n_buffers' - 1
      BY <3>1, Intervals
    <3> QED
      BY <1>16, <2>2, <3>2 DEF uninit_device, Running, optionVars, frameVars
  <2>3. CASE io # "READ" /\ i # n_buffers /\ ~(r = "ok" \/ io = "USERPTR")
    BY <1>16, <2>3 DEF uninit_device, Running, errno_exit, optionVars, frameVars
  <2>4. CASE io = "READ"
    BY <1>16, <2>4 DEF uninit_device, Running, Goto, optionVars, frameVars
  <2> QED
    BY <2>1, <2>2, <2>3, <2>4
<1>17. ASSUME NEW r \in {"ok", "error"}, close_device(r) PROVE  MemoryInv'
  BY <1>17 DEF close_device, Running, Goto, errno_exit, optionVars,
    bufferVars, frameVars
<1>18. ASSUME NEW r, mainloop_select(r) PROVE  MemoryInv'
  BY <1>18 DEF mainloop_select, Running, Goto, errno_exit, optionVars,
    bufferVars, frameVars
<1>19. ASSUME NEW r, NEW index \in 0 .. MaxGranted, NEW bytesused \in 0 .. length[index],
  read_frame(r, index, bytesused) PROVE  MemoryInv'
  BY <1>19, ReqCountAssumption DEF read_frame, Running, Goto, errno_exit,
    optionVars, bufferVars, frameVars
<1>20. CASE UNCHANGED vars
  BY <1>20 DEF vars, optionVars, bufferVars, frameVars
<1> QED
  BY <1>1, <1>2, <1>3, <1>4, <1>5, <1>6, <1>7, <1>8, <1>9, <1>10, <1>11,
    <1>12, <1>13, <1>14, <1>15, <1>16, <1>17, <1>18, <1>19, <1>20 DEF Next

(* Every call keeps the account of the frames.                             *)
LEMMA FrameStep == Inv /\ [Next]_vars => FrameInv'
<1> SUFFICES ASSUME Inv, [Next]_vars PROVE  FrameInv'
  OBVIOUS
<1> USE DEF Inv, DeviceInv, FrameInv, Preparing, Capturing
<1>1. CASE main_options
  BY <1>1, CountIsInt DEF main_options, Running, Goto, errno_exit, optionVars,
    bufferVars, frameVars, TypeOK, Asked
<1>2. CASE init_done
  BY <1>2, CountIsInt DEF init_done, AfterInit, Running, Goto, errno_exit,
    optionVars, bufferVars, frameVars, TypeOK, Asked
<1>3. CASE mainloop
  BY <1>3, CountIsInt, UintAssumption DEF mainloop, Running, Goto, errno_exit,
    optionVars, bufferVars, frameVars, TypeOK, Asked
<1>4. CASE main_return
  BY <1>4, CountIsInt DEF main_return, Running, Goto, errno_exit, optionVars,
    bufferVars, frameVars, TypeOK, Asked
<1>5. CASE Ended
  BY <1>5, CountIsInt DEF Ended, vars, optionVars, bufferVars, frameVars,
    TypeOK, Asked
<1>6. ASSUME NEW r \in {"ok", "error"}, open_device(r) PROVE  FrameInv'
  BY <1>6, CountIsInt DEF open_device, Running, Goto, errno_exit, optionVars,
    bufferVars, frameVars, TypeOK, Asked
<1>7. ASSUME NEW r \in {"ok", "error"}, NEW caps, init_device_caps(r, caps)
  PROVE  FrameInv'
  BY <1>7, CountIsInt DEF init_device_caps, Running, Goto, errno_exit,
    optionVars, bufferVars, frameVars, TypeOK, Asked
<1>8. ASSUME NEW r \in {"ok", "error"}, init_device_format(r) PROVE  FrameInv'
  BY <1>8, CountIsInt DEF init_device_format, Running, Goto, errno_exit,
    optionVars, bufferVars, frameVars, TypeOK, Asked
<1>9. ASSUME NEW r \in {"ok", "error"}, NEW len \in 1 .. MaxLength,
  init_read(r, len) PROVE  FrameInv'
  BY <1>9, CountIsInt DEF init_read, AfterInit, Running, Goto, errno_exit,
    optionVars, bufferVars, frameVars, TypeOK, Asked
<1>10. ASSUME NEW r \in {"ok", "error"}, NEW granted \in 0 .. MaxGranted,
  init_reqbufs(r, granted) PROVE  FrameInv'
  BY <1>10, CountIsInt DEF init_reqbufs, Running, Goto, errno_exit,
    optionVars, bufferVars, frameVars, TypeOK, Asked
<1>11. ASSUME NEW r \in {"ok", "error"}, NEW len \in 1 .. MaxLength,
  init_map(r, len) PROVE  FrameInv'
  BY <1>11, CountIsInt DEF init_map, Running, Goto, errno_exit, optionVars,
    bufferVars, frameVars, TypeOK, Asked
<1>12. ASSUME NEW r \in {"ok", "error"}, start_capturing_qbuf(r) PROVE
  FrameInv'
  BY <1>12, CountIsInt DEF start_capturing_qbuf, Running, Goto, errno_exit,
    optionVars, bufferVars, frameVars, TypeOK, Asked
<1>13. ASSUME NEW r \in {"ok", "error"}, start_capturing_streamon(r) PROVE
  FrameInv'
  BY <1>13, CountIsInt DEF start_capturing_streamon, Running, Goto,
    errno_exit, optionVars, bufferVars, frameVars, TypeOK, Asked
<1>14. ASSUME NEW r \in {"ok", "error"}, read_frame_requeue(r) PROVE
  FrameInv'
  BY <1>14, CountIsInt DEF read_frame_requeue, Running, Goto, errno_exit,
    optionVars, bufferVars, frameVars, TypeOK, Asked
<1>15. ASSUME NEW r \in {"ok", "error"}, stop_capturing(r) PROVE  FrameInv'
  BY <1>15, CountIsInt DEF stop_capturing, Running, Goto, errno_exit,
    optionVars, bufferVars, frameVars, TypeOK, Asked
<1>16. ASSUME NEW r \in {"ok", "error"}, uninit_device(r) PROVE  FrameInv'
  BY <1>16, CountIsInt DEF uninit_device, Running, Goto, errno_exit,
    optionVars, bufferVars, frameVars, TypeOK, Asked
<1>17. ASSUME NEW r \in {"ok", "error"}, close_device(r) PROVE  FrameInv'
  BY <1>17, CountIsInt DEF close_device, Running, Goto, errno_exit,
    optionVars, bufferVars, frameVars, TypeOK, Asked
<1>18. ASSUME NEW r, mainloop_select(r) PROVE  FrameInv'
  BY <1>18, CountIsInt DEF mainloop_select, Running, Goto, errno_exit,
    optionVars, bufferVars, frameVars, TypeOK, Asked
<1>19. ASSUME NEW r, NEW index \in 0 .. MaxGranted, NEW bytesused \in 0 .. length[index],
  read_frame(r, index, bytesused) PROVE  FrameInv'
  BY <1>19, CountIsInt DEF read_frame, Running, Goto, errno_exit, optionVars,
    bufferVars, frameVars, TypeOK, Asked
<1>20. CASE UNCHANGED vars
  BY <1>20, CountIsInt DEF vars, optionVars, bufferVars, frameVars, TypeOK,
    Asked
<1> QED
  BY <1>1, <1>2, <1>3, <1>4, <1>5, <1>6, <1>7, <1>8, <1>9, <1>10, <1>11,
    <1>12, <1>13, <1>14, <1>15, <1>16, <1>17, <1>18, <1>19, <1>20 DEF Next

(* The invariant holds in every state of the program.                      *)
THEOREM Invariant == Spec => []Inv
<1>1. Init => Inv
  <2> SUFFICES ASSUME Init PROVE  Inv
    OBVIOUS
  <2>1. TypeOK
    <3>1. held \subseteq 0 .. req_count - 1 /\ force_format \in BOOLEAN
      BY DEF Init
    <3>2. length \in [Indices -> 0 .. MaxLength] /\ size \in 0 .. MaxLength
      BY LengthAssumption DEF Init
    <3> QED
      BY <3>1, <3>2, UintAssumption DEF Init, TypeOK
  <2>2. DeviceInv
    BY DEF Init, DeviceInv, Capturing
  <2>3. MemoryInv
    BY DEF Init, MemoryInv, Preparing, Capturing
  <2>4. FrameInv
    BY DEF Init, FrameInv, Preparing
  <2> QED
    BY <2>1, <2>2, <2>3, <2>4 DEF Inv
<1>2. Inv /\ [Next]_vars => Inv'
  BY TypeStep, DeviceStep, MemoryStep, FrameStep DEF Inv
<1> QED
  BY <1>1, <1>2, PTL DEF Spec

(* Every variable of the program keeps its type, whatever the device does. *)
THEOREM TypeCorrect == Spec => []TypeOK
<1>1. Inv => TypeOK
  BY DEF Inv
<1> QED
  BY <1>1, Invariant, PTL

(* With the capture enabled, a program that ends successfully has passed   *)
(* exactly as many frames to process_image as -c says, read as unsigned:   *)
(* neither a retry after EAGAIN or EINTR nor the wrap of count at the end  *)
(* of mainloop changes the number (grabber.c:171-205).                     *)
THEOREM CountIsHonoured == CaptureEnabled => (Spec => []CountHonoured)
<1> SUFFICES ASSUME CaptureEnabled PROVE  Spec => []CountHonoured
  OBVIOUS
<1>1. Inv => CountHonoured
  BY DEF Inv, DeviceInv, FrameInv, CountHonoured, Asked
<1> QED
  BY <1>1, Invariant, PTL

(* With lines 641-645 commented out a program that ends successfully has   *)
(* read no frame at all, so that it honours only a count of 0.             *)
THEOREM CommittedReadsNothing ==
  ~CaptureEnabled =>
    (Spec => [](status = "success" /\ pc # "options" => frames = 0))
<1> SUFFICES ASSUME ~CaptureEnabled
             PROVE  Spec => [](status = "success" /\ pc # "options" => frames = 0)
  OBVIOUS
<1>1. Inv => (status = "success" /\ pc # "options" => frames = 0)
  BY DEF Inv, DeviceInv, FrameInv
<1> QED
  BY <1>1, Invariant, PTL

(* Whatever index a device returns, the bytes process_image reads lie in   *)
(* memory the program has mapped or allocated, with any method and any     *)
(* lengths of the buffers (grabber.c:99, 123-125, 152-159).                *)
THEOREM FramesAreInMemory == Spec => FrameInMemory
<1> DEFINE Inside == frames' # frames => buf' \in held /\ size' \in 0 .. length[buf']
<1>1. ASSUME Inv, [Next]_vars PROVE  [Inside]_vars
  <2>1. ASSUME NEW r, NEW index \in 0 .. MaxGranted, NEW bytesused \in 0 .. length[index],
               read_frame(r, index, bytesused)
        PROVE  Inside
    <3>1. /\ n_buffers \in Nat /\ 0 \in Indices /\ length[0] \in Nat
          /\ held = IF io = "READ" THEN {0} ELSE 0 .. n_buffers - 1
      BY <1>1, <2>1, ReqCountAssumption, LengthAssumption
        DEF Inv, TypeOK, MemoryInv, Capturing, read_frame, Running, Indices
    <3>2. CASE UNCHANGED frames
      BY <3>2
    <3>3. CASE io # "READ" /\ index < n_buffers /\ buf' = index /\ size' = bytesused
      BY <2>1, <3>1, <3>3
    <3>4. CASE io = "READ" /\ buf' = 0 /\ size' = length[0]
      BY <3>1, <3>4
    <3> QED
      BY <2>1, <3>2, <3>3, <3>4 DEF read_frame
  <2>2. CASE \E r \in {"ok", "EAGAIN", "error"}, index \in 0 .. MaxGranted :
               \E bytesused \in 0 .. length[index] : read_frame(r, index, bytesused)
    BY <2>1, <2>2
  <2>3. CASE \/ main_options \/ init_done \/ mainloop \/ main_return \/ Ended
             \/ \E r : \/ open_device(r) \/ init_device_format(r)
                      \/ \E len : init_read(r, len) \/ init_map(r, len)
                      \/ \E caps : init_device_caps(r, caps)
                      \/ \E granted : init_reqbufs(r, granted)
                      \/ start_capturing_qbuf(r) \/ start_capturing_streamon(r)
                      \/ read_frame_requeue(r) \/ stop_capturing(r) \/ uninit_device(r)
                      \/ close_device(r) \/ mainloop_select(r)
    <3>1. UNCHANGED frames
      BY <2>3 DEF main_options, init_done, mainloop, main_return, Ended, vars, open_device,
        init_device_format, init_read, init_map, init_device_caps, init_reqbufs,
        start_capturing_qbuf, start_capturing_streamon, read_frame_requeue,
        stop_capturing, uninit_device, close_device, mainloop_select, frameVars
    <3> QED
      BY <3>1
  <2> QED
    BY <1>1, <2>2, <2>3 DEF Next
<1>2. Spec => [][Inside]_vars
  BY <1>1, Invariant, PTL DEF Spec
<1> QED
  BY <1>2 DEF FrameInMemory

(* A program that ends successfully after a capture has given back every   *)
(* mapping and allocation, and its descriptor (grabber.c:274-296, 515-521).*)
THEOREM ExitIsClean == Spec => []CleanExit
<1>1. Inv => CleanExit
  BY DEF Inv, DeviceInv, MemoryInv, CleanExit
<1> QED
  BY <1>1, Invariant, PTL
=============================================================================
