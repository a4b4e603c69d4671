--------------------------- MODULE FakeVidProofs ---------------------------
(***************************************************************************)
(* Theorems about FakeVid, for every set of callers, every number of       *)
(* buffers and every choice of injected failures.                          *)
(***************************************************************************)
EXTENDS FakeVid, SequenceTheorems, TLAPS

-----------------------------------------------------------------------------
(* Lemmas on the sequences that stand for the driver's and vb2's lists.    *)

(* list_del of the i-th node: the others keep their order.                 *)
LEMMA RemoveAtProperties ==
  ASSUME NEW S, NEW s \in Seq(S), NEW i \in 1 .. Len(s)
  PROVE  /\ RemoveAt(s, i) \in Seq(S)
         /\ Len(RemoveAt(s, i)) = Len(s) - 1
         /\ \A j \in 1 .. Len(s) - 1 :
              RemoveAt(s, i)[j] = IF j < i THEN s[j] ELSE s[j + 1]
<1> DEFINE front == SubSeq(s, 1, i - 1)
           back  == SubSeq(s, i + 1, Len(s))
<1>1. /\ Len(s) \in Nat
      /\ \A j \in 1 .. Len(s) : s[j] \in S
  BY ElementOfSeq, LenProperties
<1>2. /\ front \in Seq(S)
      /\ Len(front) = i - 1
      /\ \A j \in 1 .. i - 1 : front[j] = s[j]
  <2>1. \A j \in 1 .. i - 1 : s[j] \in S
    BY <1>1
  <2> QED
    BY <1>1, <2>1, SubSeqProperties
<1>3. /\ back \in Seq(S)
      /\ Len(back) = Len(s) - i
      /\ \A j \in 1 .. Len(s) - i : back[j] = s[i + j]
  <2>1. \A j \in i + 1 .. Len(s) : s[j] \in S
    BY <1>1
  <2> QED
    BY <1>1, <2>1, SubSeqProperties
<1>4. /\ front \o back \in Seq(S)
      /\ Len(front \o back) = Len(front) + Len(back)
      /\ \A j \in 1 .. Len(front) + Len(back) :
           (front \o back)[j] = IF j <= Len(front) THEN front[j]
                                ELSE back[j - Len(front)]
  BY <1>2, <1>3, ConcatProperties
<1>5. RemoveAt(s, i) = front \o back
  BY DEF RemoveAt
<1> HIDE DEF front, back
<1>6. ASSUME NEW j \in 1 .. Len(s) - 1
      PROVE  (front \o back)[j] = IF j < i THEN s[j] ELSE s[j + 1]
  <2>1. CASE j < i
    BY <1>1, <1>2, <1>3, <1>4, <2>1
  <2>2. CASE ~(j < i)
    <3>1. /\ j - Len(front) = j - i + 1
          /\ j - i + 1 \in 1 .. Len(s) - i
          /\ ~(j <= Len(front))
          /\ j \in 1 .. Len(front) + Len(back)
      BY <1>1, <1>2, <1>3, <2>2
    <3>2. (front \o back)[j] = back[j - i + 1]
      BY <1>4, <3>1
    <3>3. back[j - i + 1] = s[i + (j - i + 1)]
      BY <1>3, <3>1
    <3>4. i + (j - i + 1) = j + 1
      BY <1>1
    <3> QED
      BY <2>2, <3>2, <3>3, <3>4
  <2> QED
    BY <2>1, <2>2
<1>7. Len(front \o back) = Len(s) - 1
  BY <1>1, <1>2, <1>3, <1>4
<1> HIDE DEF RemoveAt
<1> QED
  BY <1>4, <1>5, <1>6, <1>7

(* An empty hand is no buffer.                                             *)
LEMMA NoBufNotIndex == NoBuf \notin Index
  BY BuffersAssumption DEF NoBuf, Index

(* What the operations on a list of buffers return.                        *)
LEMMA ListOps ==
  /\ <<>> \in Seq(Index)
  /\ \A b \in Index : <<b>> \in Seq(Index)
  /\ \A s \in Seq(Index), b \in Index : Append(s, b) \in Seq(Index)
  /\ \A s \in Seq(Index) : s # <<>> => Head(s) \in Index /\ Tail(s) \in Seq(Index)
  /\ \A s \in Seq(Index) : \A i \in DOMAIN s : RemoveAt(s, i) \in Seq(Index)
<1>1. <<>> \in Seq(Index) /\ \A b \in Index : <<b>> \in Seq(Index)
  BY EmptySeq
<1>2. \A s \in Seq(Index), b \in Index : Append(s, b) \in Seq(Index)
  BY AppendProperties
<1>3. \A s \in Seq(Index) : s # <<>> => Head(s) \in Index /\ Tail(s) \in Seq(Index)
  BY HeadTailProperties
<1>4. \A s \in Seq(Index) : \A i \in DOMAIN s : RemoveAt(s, i) \in Seq(Index)
  BY RemoveAtProperties, LenProperties
<1> QED
  BY <1>1, <1>2, <1>3, <1>4

(* Where the elements of a list are after each operation.                  *)
LEMMA ListIndex ==
  /\ \A s \in Seq(Index) :
       /\ Len(s) \in Nat
       /\ DOMAIN s = 1 .. Len(s)
       /\ \A i \in 1 .. Len(s) : s[i] \in Index
  /\ \A s \in Seq(Index), b \in Index :
       /\ Len(Append(s, b)) = Len(s) + 1
       /\ \A i \in 1 .. Len(s) : Append(s, b)[i] = s[i]
       /\ Append(s, b)[Len(s) + 1] = b
  /\ \A s \in Seq(Index) : s # <<>> =>
       /\ Len(s) >= 1
       /\ Head(s) = s[1]
       /\ Len(Tail(s)) = Len(s) - 1
       /\ \A i \in 1 .. Len(s) - 1 : Tail(s)[i] = s[i + 1]
  /\ \A s \in Seq(Index) : \A k \in 1 .. Len(s) :
       /\ Len(RemoveAt(s, k)) = Len(s) - 1
       /\ \A i \in 1 .. Len(s) - 1 :
            RemoveAt(s, k)[i] = IF i < k THEN s[i] ELSE s[i + 1]
<1>1. \A s \in Seq(Index) :
        /\ Len(s) \in Nat
        /\ DOMAIN s = 1 .. Len(s)
        /\ \A i \in 1 .. Len(s) : s[i] \in Index
  BY LenProperties, ElementOfSeq
<1>2. \A s \in Seq(Index), b \in Index :
        /\ Len(Append(s, b)) = Len(s) + 1
        /\ \A i \in 1 .. Len(s) : Append(s, b)[i] = s[i]
        /\ Append(s, b)[Len(s) + 1] = b
  BY AppendProperties
<1>3. \A s \in Seq(Index) : s # <<>> =>
        /\ Len(s) >= 1
        /\ Head(s) = s[1]
        /\ Len(Tail(s)) = Len(s) - 1
        /\ \A i \in 1 .. Len(s) - 1 : Tail(s)[i] = s[i + 1]
  BY HeadTailProperties, EmptySeq
<1>4. \A s \in Seq(Index) : \A k \in 1 .. Len(s) :
        /\ Len(RemoveAt(s, k)) = Len(s) - 1
        /\ \A i \in 1 .. Len(s) - 1 :
             RemoveAt(s, k)[i] = IF i < k THEN s[i] ELSE s[i + 1]
  BY RemoveAtProperties
<1> QED
  BY <1>1, <1>2, <1>3, <1>4

-----------------------------------------------------------------------------
(* The inductive invariant.                                                *)

(* Where an ioctl is, and what it knows there.                             *)
ControlInv ==
  /\ mutex = Nobody => step = "none"
  /\ step = "queuing" => todo # <<>>
  /\ step \in {"stopping", "joining", "draining"} => start_streaming_called
  /\ step = "starting" => ~start_streaming_called
  /\ start_streaming_called => streaming

(* The thread lives between start_streaming and the join, holds slock only *)
(* to look at the list, and a buffer only from then to vb2_buffer_done.    *)
ThreadInv ==
  /\ (sbuf # NoBuf) <=> (tpc \in {"fill", "done", "failed"})
  /\ (slock = "thread") <=> (tpc = "locked")
  /\ ~start_streaming_called => tpc = "none"
  /\ step \in {"draining", "cancel"} => tpc \notin ThreadRunning
  /\ (start_streaming_called /\ step \notin {"draining", "cancel"}) => kthread = "task"

HandingOver == step \in {"handover", "queuing", "starting"}

(* vb2's lists: no buffer is on one of them twice, and its state says so.  *)
QueueInv ==
  /\ \A i, j \in 1 .. Len(queued_list) :
       queued_list[i] = queued_list[j] => i = j
  /\ \A i \in 1 .. Len(queued_list) : vbstate[queued_list[i]] # "DEQUEUED"
  /\ (~start_streaming_called /\ ~HandingOver) =>
       \A i \in 1 .. Len(queued_list) : vbstate[queued_list[i]] = "QUEUED"
  /\ \A i, j \in 1 .. Len(done_list) : done_list[i] = done_list[j] => i = j
  /\ \A i \in 1 .. Len(done_list) : vbstate[done_list[i]] \in {"DONE", "ERROR"}

(* The buffers an ioctl has yet to hand over are QUEUED, except the one    *)
(* that is in buf_queue.                                                   *)
TodoInv ==
  /\ \A i, j \in 1 .. Len(todo) : todo[i] = todo[j] => i = j
  /\ step \in {"handover", "starting"} =>
       \A i \in 1 .. Len(todo) : vbstate[todo[i]] = "QUEUED"
  /\ step = "queuing" =>
       \A i \in 2 .. Len(todo) : vbstate[todo[i]] = "QUEUED"

(* The driver's three places for a buffer are disjoint and hold exactly    *)
(* the ACTIVE ones.                                                        *)
OwnInv ==
  /\ \A i, j \in 1 .. Len(active) : active[i] = active[j] => i = j
  /\ \A i \in 1 .. Len(active) : vbstate[active[i]] = "ACTIVE" /\ active[i] # sbuf
  /\ sbuf # NoBuf => vbstate[sbuf] = "ACTIVE"
  /\ step = "queuing" =>
       /\ vbstate[todo[1]] = "ACTIVE"
       /\ todo[1] # sbuf
       /\ \A i \in 1 .. Len(active) : active[i] # todo[1]
  /\ \A b \in Index : vbstate[b] = "ACTIVE" =>
       \/ \E i \in 1 .. Len(active) : active[i] = b
       \/ sbuf = b
       \/ step = "queuing" /\ todo[1] = b
  /\ (~start_streaming_called /\ ~HandingOver) \/ step = "cancel" => active = <<>>

Inv ==
  /\ TypeOK /\ ControlInv /\ ThreadInv
  /\ ~start_failed => QueueInv /\ TodoInv /\ OwnInv

-----------------------------------------------------------------------------
(* Type correctness.                                                       *)

(* v4l2_init leaves every variable with its type.                          *)
LEMMA TypeInit == Init => TypeOK
<1> SUFFICES ASSUME Init
             PROVE  TypeOK
  OBVIOUS
<1> USE DEF Init, v4l2_init_device
<1>1. ListTypeOK
  BY DEF ListTypeOK
<1>2. QueueTypeOK
  <2>1. vbstate \in [Index -> VbState]
    BY DEF VbState
  <2>2. num_buffers \in 0 .. MaxBuffers
    BY BuffersAssumption
  <2> QED
    BY <2>1, <2>2 DEF QueueTypeOK
<1>3. DeviceTypeOK
  BY DEF DeviceTypeOK
<1>4. IoctlTypeOK
  BY DEF IoctlTypeOK
<1>5. FaultTypeOK
  BY DEF FaultTypeOK
<1> QED
  BY <1>1, <1>2, <1>3, <1>4, <1>5 DEF TypeOK

(* Every operation keeps the types: one step per action below.             *)
LEMMA TypeStep == Inv /\ [Next]_vars => TypeOK'
<1> SUFFICES ASSUME ListTypeOK, QueueTypeOK, DeviceTypeOK, IoctlTypeOK,
                    FaultTypeOK, ControlInv, ThreadInv, [Next]_vars
             PROVE  TypeOK'
  BY DEF Inv, TypeOK
<1> USE DEF ListTypeOK, QueueTypeOK, DeviceTypeOK, IoctlTypeOK, FaultTypeOK,
            ControlInv, ThreadInv, VbState, ThreadRunning, ThreadDead,
            queueVars, threadVars, ioctlVars, faultVars
<1>1. ASSUME NEW c \in Callers, NEW n \in 0 .. MaxBuffers, REQBUFS(c, n)
       PROVE  TypeOK'
  <2>1. ListTypeOK'
    <3>1. queued_list' \in Seq(Index)
      BY <1>1, ListOps
      DEF REQBUFS, Enter, Return
    <3>2. done_list' \in Seq(Index)
      BY <1>1, ListOps
      DEF REQBUFS, Enter, Return
    <3>3. active' \in Seq(Index)
      BY <1>1, ListOps
      DEF REQBUFS, Enter, Return
    <3>4. todo' \in Seq(Index)
      BY <1>1, ListOps
      DEF REQBUFS, Enter, Return
    <3> QED
      BY <3>1, <3>2, <3>3, <3>4
  <2>2. QueueTypeOK'
    BY <1>1 DEF REQBUFS, Enter, Return
  <2>3. DeviceTypeOK'
    BY <1>1 DEF REQBUFS, Enter, Return
  <2>4. IoctlTypeOK'
    BY <1>1 DEF REQBUFS, Enter, Return
  <2>5. FaultTypeOK'
    BY <1>1 DEF REQBUFS, Enter, Return
  <2> QED
    BY <2>1, <2>2, <2>3, <2>4, <2>5 DEF TypeOK
<1>2. ASSUME NEW c \in Callers, NEW b \in Index, QBUF(c, b)
       PROVE  TypeOK'
  <2>1. ListTypeOK'
    <3>1. queued_list' \in Seq(Index)
      <4>1. queued_list' = Append(queued_list, b) \/ queued_list' = queued_list
        BY <1>2 DEF QBUF, Enter, Return, Continue
      <4> QED
        BY <1>2, <4>1, ListOps
    <3>2. done_list' \in Seq(Index)
      BY <1>2, ListOps
      DEF QBUF, Enter, Return, Continue
    <3>3. active' \in Seq(Index)
      BY <1>2, ListOps
      DEF QBUF, Enter, Return, Continue
    <3>4. todo' \in Seq(Index)
      <4>1. todo' \in {<<>>, <<b>>, Append(queued_list, b)}
        BY <1>2 DEF QBUF, Enter, Return, Continue
      <4> QED
        BY <1>2, <4>1, ListOps
    <3> QED
      BY <3>1, <3>2, <3>3, <3>4
  <2>2. QueueTypeOK'
    BY <1>2 DEF QBUF, Enter, Return, Continue
  <2>3. DeviceTypeOK'
    BY <1>2 DEF QBUF, Enter, Return, Continue
  <2>4. IoctlTypeOK'
    BY <1>2 DEF QBUF, Enter, Return, Continue
  <2>5. FaultTypeOK'
    BY <1>2 DEF QBUF, Enter, Return, Continue
  <2> QED
    BY <2>1, <2>2, <2>3, <2>4, <2>5 DEF TypeOK
<1>3. ASSUME NEW c \in Callers, STREAMON(c)
       PROVE  TypeOK'
  <2>1. ListTypeOK'
    <3>1. queued_list' \in Seq(Index)
      BY <1>3, ListOps
      DEF STREAMON, Enter, Return, Continue
    <3>2. done_list' \in Seq(Index)
      BY <1>3, ListOps
      DEF STREAMON, Enter, Return, Continue
    <3>3. active' \in Seq(Index)
      BY <1>3, ListOps
      DEF STREAMON, Enter, Return, Continue
    <3>4. todo' \in Seq(Index)
      BY <1>3, ListOps
      DEF STREAMON, Enter, Return, Continue
    <3> QED
      BY <3>1, <3>2, <3>3, <3>4
  <2>2. QueueTypeOK'
    BY <1>3 DEF STREAMON, Enter, Return, Continue
  <2>3. DeviceTypeOK'
    BY <1>3 DEF STREAMON, Enter, Return, Continue
  <2>4. IoctlTypeOK'
    BY <1>3 DEF STREAMON, Enter, Return, Continue
  <2>5. FaultTypeOK'
    BY <1>3 DEF STREAMON, Enter, Return, Continue
  <2> QED
    BY <2>1, <2>2, <2>3, <2>4, <2>5 DEF TypeOK
<1>4. ASSUME NEW c \in Callers, NEW nb \in BOOLEAN, DQBUF(c, nb)
       PROVE  TypeOK'
  <2>1. ListTypeOK'
    <3>1. queued_list' \in Seq(Index)
      BY <1>4, ListOps
      DEF DQBUF, Enter, Return, dqbuf_take
    <3>2. done_list' \in Seq(Index)
      BY <1>4, ListOps
      DEF DQBUF, Enter, Return, dqbuf_take
    <3>3. active' \in Seq(Index)
      BY <1>4, ListOps
      DEF DQBUF, Enter, Return, dqbuf_take
    <3>4. todo' \in Seq(Index)
      BY <1>4, ListOps
      DEF DQBUF, Enter, Return, dqbuf_take
    <3> QED
      BY <3>1, <3>2, <3>3, <3>4
  <2>2. QueueTypeOK'
    BY <1>4 DEF DQBUF, Enter, Return, dqbuf_take
  <2>3. DeviceTypeOK'
    BY <1>4 DEF DQBUF, Enter, Return, dqbuf_take
  <2>4. IoctlTypeOK'
    BY <1>4 DEF DQBUF, Enter, Return, dqbuf_take
  <2>5. FaultTypeOK'
    BY <1>4 DEF DQBUF, Enter, Return, dqbuf_take
  <2> QED
    BY <2>1, <2>2, <2>3, <2>4, <2>5 DEF TypeOK
<1>5. ASSUME NEW c \in Callers, dqbuf_wakeup(c)
       PROVE  TypeOK'
  <2>1. ListTypeOK'
    <3>1. queued_list' \in Seq(Index)
      BY <1>5, ListOps
      DEF dqbuf_wakeup, Return, dqbuf_take
    <3>2. done_list' \in Seq(Index)
      BY <1>5, ListOps
      DEF dqbuf_wakeup, Return, dqbuf_take
    <3>3. active' \in Seq(Index)
      BY <1>5, ListOps
      DEF dqbuf_wakeup, Return, dqbuf_take
    <3>4. todo' \in Seq(Index)
      BY <1>5, ListOps
      DEF dqbuf_wakeup, Return, dqbuf_take
    <3> QED
      BY <3>1, <3>2, <3>3, <3>4
  <2>2. QueueTypeOK'
    BY <1>5 DEF dqbuf_wakeup, Return, dqbuf_take
  <2>3. DeviceTypeOK'
    BY <1>5 DEF dqbuf_wakeup, Return, dqbuf_take
  <2>4. IoctlTypeOK'
    BY <1>5 DEF dqbuf_wakeup, Return, dqbuf_take
  <2>5. FaultTypeOK'
    BY <1>5 DEF dqbuf_wakeup, Return, dqbuf_take
  <2> QED
    BY <2>1, <2>2, <2>3, <2>4, <2>5 DEF TypeOK
<1>6. ASSUME NEW c \in Callers, dqbuf_interrupted(c)
       PROVE  TypeOK'
  BY <1>6 DEF TypeOK, dqbuf_interrupted, Return
<1>7. ASSUME NEW c \in Callers, STREAMOFF(c)
       PROVE  TypeOK'
  BY <1>7 DEF TypeOK, STREAMOFF, Enter, Continue
<1>8. ASSUME NEW c \in Callers, vb2_fop_release(c)
       PROVE  TypeOK'
  BY <1>8 DEF TypeOK, vb2_fop_release, Enter, Continue
<1>9. CASE enqueue_in_driver
  BY <1>9 DEF TypeOK, enqueue_in_driver
<1>10. CASE buf_queue
  <2>1. ListTypeOK'
    <3>1. queued_list' \in Seq(Index)
      BY <1>10, ListOps
      DEF buf_queue
    <3>2. done_list' \in Seq(Index)
      BY <1>10, ListOps
      DEF buf_queue
    <3>3. active' \in Seq(Index)
      BY <1>10, ListOps
      DEF buf_queue
    <3>4. todo' \in Seq(Index)
      BY <1>10, ListOps
      DEF buf_queue
    <3> QED
      BY <3>1, <3>2, <3>3, <3>4
  <2>2. QueueTypeOK'
    BY <1>10 DEF buf_queue
  <2>3. DeviceTypeOK'
    BY <1>10 DEF buf_queue
  <2>4. IoctlTypeOK'
    BY <1>10 DEF buf_queue
  <2>5. FaultTypeOK'
    BY <1>10 DEF buf_queue
  <2> QED
    BY <2>1, <2>2, <2>3, <2>4, <2>5 DEF TypeOK
<1>11. CASE handover_done
  <2>1. ListTypeOK'
    BY <1>11 DEF handover_done, Return
  <2>2. QueueTypeOK'
    BY <1>11 DEF handover_done, Return
  <2>3. DeviceTypeOK'
    BY <1>11 DEF handover_done, Return
  <2>4. IoctlTypeOK'
    BY <1>11 DEF handover_done, Return
  <2>5. FaultTypeOK'
    BY <1>11 DEF handover_done, Return
  <2> QED
    BY <2>1, <2>2, <2>3, <2>4, <2>5 DEF TypeOK
<1>12. CASE start_streaming
  <2>1. ListTypeOK'
    BY <1>12 DEF start_streaming, Return
  <2>2. QueueTypeOK'
    BY <1>12 DEF start_streaming, Return
  <2>3. DeviceTypeOK'
    BY <1>12 DEF start_streaming, Return
  <2>4. IoctlTypeOK'
    BY <1>12 DEF start_streaming, Return
  <2>5. FaultTypeOK'
    BY <1>12 DEF start_streaming, Return
  <2> QED
    BY <2>1, <2>2, <2>3, <2>4, <2>5 DEF TypeOK
<1>13. CASE start_streaming_failed
  BY <1>13 DEF TypeOK, start_streaming_failed, Return
<1>14. CASE stop_streaming_signal
  <2>1. ListTypeOK'
    BY <1>14 DEF stop_streaming_signal
  <2>2. QueueTypeOK'
    BY <1>14 DEF stop_streaming_signal
  <2>3. DeviceTypeOK'
    BY <1>14 DEF stop_streaming_signal
  <2>4. IoctlTypeOK'
    BY <1>14 DEF stop_streaming_signal
  <2>5. FaultTypeOK'
    BY <1>14 DEF stop_streaming_signal
  <2> QED
    BY <2>1, <2>2, <2>3, <2>4, <2>5 DEF TypeOK
<1>15. CASE stop_streaming_join
  BY <1>15 DEF TypeOK, stop_streaming_join
<1>16. CASE stop_streaming_drain
  <2>1. ListTypeOK'
    <3>1. queued_list' \in Seq(Index)
      BY <1>16, ListOps
      DEF stop_streaming_drain, vb2_buffer_done
    <3>2. done_list' \in Seq(Index)
      <4>1. \/ done_list' = done_list
            \/ active # <<>> /\ done_list' = Append(done_list, Head(active))
        BY <1>16 DEF stop_streaming_drain, vb2_buffer_done
      <4> QED
        BY <4>1, ListOps
    <3>3. active' \in Seq(Index)
      BY <1>16, ListOps
      DEF stop_streaming_drain, vb2_buffer_done
    <3>4. todo' \in Seq(Index)
      BY <1>16, ListOps
      DEF stop_streaming_drain, vb2_buffer_done
    <3> QED
      BY <3>1, <3>2, <3>3, <3>4
  <2>2. QueueTypeOK'
    BY <1>16 DEF stop_streaming_drain, vb2_buffer_done
  <2>3. DeviceTypeOK'
    BY <1>16 DEF stop_streaming_drain, vb2_buffer_done
  <2>4. IoctlTypeOK'
    BY <1>16 DEF stop_streaming_drain, vb2_buffer_done
  <2>5. FaultTypeOK'
    BY <1>16 DEF stop_streaming_drain, vb2_buffer_done
  <2> QED
    BY <2>1, <2>2, <2>3, <2>4, <2>5 DEF TypeOK
<1>17. CASE queue_cancel
  <2>1. ListTypeOK'
    BY <1>17 DEF queue_cancel, Return
  <2>2. QueueTypeOK'
    <3>1. vbstate' \in [Index -> VbState]
      BY <1>17 DEF queue_cancel, Return
    <3>2. num_buffers' \in 0 .. MaxBuffers
      BY <1>17, BuffersAssumption DEF queue_cancel, Return
    <3>3. streaming' = FALSE /\ start_streaming_called' = FALSE
      BY <1>17 DEF queue_cancel, Return
    <3> QED
      BY <3>1, <3>2, <3>3
  <2>3. DeviceTypeOK'
    BY <1>17 DEF queue_cancel, Return
  <2>4. IoctlTypeOK'
    BY <1>17 DEF queue_cancel, Return
  <2>5. FaultTypeOK'
    BY <1>17 DEF queue_cancel, Return
  <2> QED
    BY <2>1, <2>2, <2>3, <2>4, <2>5 DEF TypeOK
<1>18. CASE fgt_check
  BY <1>18 DEF TypeOK, fgt_check
<1>19. CASE fgt_lock
  BY <1>19 DEF TypeOK, fgt_lock
<1>20. CASE fgt_take
  <2>1. ListTypeOK'
    <3>1. queued_list' \in Seq(Index)
      BY <1>20, ListOps
      DEF fgt_take
    <3>2. done_list' \in Seq(Index)
      BY <1>20, ListOps
      DEF fgt_take
    <3>3. active' \in Seq(Index)
      BY <1>20, ListOps
      DEF fgt_take
    <3>4. todo' \in Seq(Index)
      BY <1>20, ListOps
      DEF fgt_take
    <3> QED
      BY <3>1, <3>2, <3>3, <3>4
  <2>2. QueueTypeOK'
    BY <1>20 DEF fgt_take
  <2>3. DeviceTypeOK'
    BY <1>20 DEF fgt_take
  <2>4. IoctlTypeOK'
    BY <1>20 DEF fgt_take
  <2>5. FaultTypeOK'
    BY <1>20 DEF fgt_take
  <2> QED
    BY <2>1, <2>2, <2>3, <2>4, <2>5 DEF TypeOK
<1>21. CASE fgt_fill
  BY <1>21 DEF TypeOK, fgt_fill
<1>22. CASE fgt_done
  <2>1. ListTypeOK'
    <3>1. queued_list' \in Seq(Index)
      BY <1>22, ListOps
      DEF fgt_done, vb2_buffer_done
    <3>2. done_list' \in Seq(Index)
      <4>1. \/ done_list' = done_list
            \/ done_list' = Append(done_list, sbuf)
        BY <1>22 DEF fgt_done, vb2_buffer_done
      <4>2. sbuf \in Index
        BY <1>22 DEF fgt_done
      <4> QED
        BY <4>1, <4>2, ListOps
    <3>3. active' \in Seq(Index)
      BY <1>22, ListOps
      DEF fgt_done, vb2_buffer_done
    <3>4. todo' \in Seq(Index)
      BY <1>22, ListOps
      DEF fgt_done, vb2_buffer_done
    <3> QED
      BY <3>1, <3>2, <3>3, <3>4
  <2>2. QueueTypeOK'
    BY <1>22 DEF fgt_done, vb2_buffer_done
  <2>3. DeviceTypeOK'
    BY <1>22 DEF fgt_done, vb2_buffer_done
  <2>4. IoctlTypeOK'
    BY <1>22 DEF fgt_done, vb2_buffer_done
  <2>5. FaultTypeOK'
    BY <1>22 DEF fgt_done, vb2_buffer_done
  <2> QED
    BY <2>1, <2>2, <2>3, <2>4, <2>5 DEF TypeOK
<1>23. CASE fgt_sleep
  BY <1>23 DEF TypeOK, fgt_sleep
<1>24. CASE UNCHANGED vars
  BY <1>24 DEF TypeOK, vars
<1> QED
  BY <1>1, <1>2, <1>3, <1>4, <1>5, <1>6, <1>7, <1>8, <1>9, <1>10, <1>11, <1>12,
     <1>13, <1>14, <1>15, <1>16, <1>17, <1>18, <1>19, <1>20, <1>21, <1>22, <1>23, <1>24
  DEF Next, Ioctl, IoctlStep, frame_generation_thread, Oopsed

(* mutex, op, step and todo stay in agreement across every operation.      *)
LEMMA ControlStep == Inv /\ [Next]_vars => ControlInv'
<1> SUFFICES ASSUME QueueTypeOK, IoctlTypeOK, ControlInv, ThreadInv,
                    [Next]_vars
             PROVE  ControlInv'
  BY DEF Inv, TypeOK
<1> USE CallersAssumption
    DEF QueueTypeOK, IoctlTypeOK, ControlInv, ThreadInv, queueVars, threadVars,
        ioctlVars, faultVars
<1>1. ASSUME NEW c \in Callers, NEW n \in 0 .. MaxBuffers, REQBUFS(c, n)
       PROVE  ControlInv'
  BY <1>1 DEF REQBUFS, Enter, Return
<1>2. ASSUME NEW c \in Callers, NEW b \in Index, QBUF(c, b)
       PROVE  ControlInv'
  BY <1>2 DEF QBUF, Enter, Return, Continue
<1>3. ASSUME NEW c \in Callers, STREAMON(c)
       PROVE  ControlInv'
  BY <1>3 DEF STREAMON, Enter, Return, Continue
<1>4. ASSUME NEW c \in Callers, NEW nb \in BOOLEAN, DQBUF(c, nb)
       PROVE  ControlInv'
  BY <1>4 DEF DQBUF, Enter, Return, dqbuf_take
<1>5. ASSUME NEW c \in Callers, dqbuf_wakeup(c)
       PROVE  ControlInv'
  BY <1>5 DEF dqbuf_wakeup, Return, dqbuf_take
<1>6. ASSUME NEW c \in Callers, dqbuf_interrupted(c)
       PROVE  ControlInv'
  BY <1>6 DEF dqbuf_interrupted, Return
<1>7. ASSUME NEW c \in Callers, STREAMOFF(c)
       PROVE  ControlInv'
  BY <1>7 DEF STREAMOFF, Enter, Continue
<1>8. ASSUME NEW c \in Callers, vb2_fop_release(c)
       PROVE  ControlInv'
  BY <1>8 DEF vb2_fop_release, Enter, Continue
<1>9. CASE enqueue_in_driver
  BY <1>9 DEF enqueue_in_driver
<1>10. CASE buf_queue
  BY <1>10 DEF buf_queue
<1>11. CASE handover_done
  BY <1>11 DEF handover_done, Return
<1>12. CASE start_streaming
  BY <1>12 DEF start_streaming, Return
<1>13. CASE start_streaming_failed
  BY <1>13 DEF start_streaming_failed, Return
<1>14. CASE stop_streaming_signal
  BY <1>14 DEF stop_streaming_signal
<1>15. CASE stop_streaming_join
  BY <1>15 DEF stop_streaming_join
<1>16. CASE stop_streaming_drain
  BY <1>16 DEF stop_streaming_drain, vb2_buffer_done
<1>17. CASE queue_cancel
  BY <1>17 DEF queue_cancel, Return
<1>18. CASE fgt_check
  BY <1>18 DEF fgt_check
<1>19. CASE fgt_lock
  BY <1>19 DEF fgt_lock
<1>20. CASE fgt_take
  BY <1>20 DEF fgt_take
<1>21. CASE fgt_fill
  BY <1>21 DEF fgt_fill
<1>22. CASE fgt_done
  BY <1>22 DEF fgt_done, vb2_buffer_done
<1>23. CASE fgt_sleep
  BY <1>23 DEF fgt_sleep
<1>24. CASE UNCHANGED vars
  BY <1>24 DEF vars
<1> QED
  BY <1>1, <1>2, <1>3, <1>4, <1>5, <1>6, <1>7, <1>8, <1>9, <1>10, <1>11, <1>12,
     <1>13, <1>14, <1>15, <1>16, <1>17, <1>18, <1>19, <1>20, <1>21, <1>22, <1>23, <1>24
  DEF Next, Ioctl, IoctlStep, frame_generation_thread, Oopsed

(* The thread, dmaq->kthread, slock and the stop protocol stay in          *)
(* agreement across every operation.                                       *)
LEMMA ThreadStep == Inv /\ [Next]_vars => ThreadInv'
<1> SUFFICES ASSUME ListTypeOK, QueueTypeOK, DeviceTypeOK, IoctlTypeOK,
                    ControlInv, ThreadInv, [Next]_vars
             PROVE  ThreadInv'
  BY DEF Inv, TypeOK
<1> USE DEF QueueTypeOK, DeviceTypeOK, IoctlTypeOK, ControlInv, ThreadInv,
            ThreadRunning, ThreadDead, queueVars, threadVars, ioctlVars,
            faultVars
<1>1. ASSUME NEW c \in Callers, NEW n \in 0 .. MaxBuffers, REQBUFS(c, n)
       PROVE  ThreadInv'
  BY <1>1 DEF REQBUFS, Enter, Return
<1>2. ASSUME NEW c \in Callers, NEW b \in Index, QBUF(c, b)
       PROVE  ThreadInv'
  BY <1>2 DEF QBUF, Enter, Return, Continue
<1>3. ASSUME NEW c \in Callers, STREAMON(c)
       PROVE  ThreadInv'
  BY <1>3 DEF STREAMON, Enter, Return, Continue
<1>4. ASSUME NEW c \in Callers, NEW nb \in BOOLEAN, DQBUF(c, nb)
       PROVE  ThreadInv'
  BY <1>4 DEF DQBUF, Enter, Return, dqbuf_take
<1>5. ASSUME NEW c \in Callers, dqbuf_wakeup(c)
       PROVE  ThreadInv'
  BY <1>5 DEF dqbuf_wakeup, Return, dqbuf_take
<1>6. ASSUME NEW c \in Callers, dqbuf_interrupted(c)
       PROVE  ThreadInv'
  BY <1>6 DEF dqbuf_interrupted, Return
<1>7. ASSUME NEW c \in Callers, STREAMOFF(c)
       PROVE  ThreadInv'
  BY <1>7 DEF STREAMOFF, Enter, Continue
<1>8. ASSUME NEW c \in Callers, vb2_fop_release(c)
       PROVE  ThreadInv'
  BY <1>8 DEF vb2_fop_release, Enter, Continue
<1>9. CASE enqueue_in_driver
  BY <1>9 DEF enqueue_in_driver
<1>10. CASE buf_queue
  BY <1>10 DEF buf_queue
<1>11. CASE handover_done
  BY <1>11 DEF handover_done, Return
<1>12. CASE start_streaming
  BY <1>12 DEF start_streaming, Return
<1>13. CASE start_streaming_failed
  BY <1>13 DEF start_streaming_failed, Return
<1>14. CASE stop_streaming_signal
  BY <1>14 DEF stop_streaming_signal
<1>15. CASE stop_streaming_join
  BY <1>15 DEF stop_streaming_join
<1>16. CASE stop_streaming_drain
  BY <1>16 DEF stop_streaming_drain, vb2_buffer_done
<1>17. CASE queue_cancel
  BY <1>17 DEF queue_cancel, Return
<1>18. CASE fgt_check
  BY <1>18 DEF fgt_check
<1>19. CASE fgt_lock
  BY <1>19 DEF fgt_lock
<1>20. CASE fgt_take
  BY <1>20, ListOps, NoBufNotIndex DEF fgt_take, ListTypeOK
<1>21. CASE fgt_fill
  BY <1>21 DEF fgt_fill
<1>22. CASE fgt_done
  BY <1>22 DEF fgt_done, vb2_buffer_done
<1>23. CASE fgt_sleep
  BY <1>23 DEF fgt_sleep
<1>24. CASE UNCHANGED vars
  BY <1>24 DEF vars
<1> QED
  BY <1>1, <1>2, <1>3, <1>4, <1>5, <1>6, <1>7, <1>8, <1>9, <1>10, <1>11, <1>12,
     <1>13, <1>14, <1>15, <1>16, <1>17, <1>18, <1>19, <1>20, <1>21, <1>22, <1>23, <1>24
  DEF Next, Ioctl, IoctlStep, frame_generation_thread, Oopsed

(* Completing an ACTIVE buffer keeps vb2's lists and the hand-over list in *)
(* order.                                                                  *)
LEMMA CompleteKeeps ==
  ASSUME ListTypeOK, QueueTypeOK, QueueInv, TodoInv,
         NEW b \in Index, NEW r \in {"DONE", "ERROR"},
         vbstate[b] = "ACTIVE", vb2_buffer_done(b, r), start_streaming_called,
         UNCHANGED <<queued_list, todo, start_streaming_called>>,
         step' = step \/ step' = "cancel"
  PROVE  QueueInv' /\ TodoInv'
<1> USE DEF ListTypeOK, QueueTypeOK, VbState
<1>1. /\ done_list' = Append(done_list, b)
      /\ vbstate' = [vbstate EXCEPT ![b] = r]
      /\ vbstate'[b] = r
      /\ \A x \in Index : x # b => vbstate'[x] = vbstate[x]
  BY DEF vb2_buffer_done
<1>2. /\ Len(done_list) \in Nat
      /\ \A i \in 1 .. Len(done_list) : done_list[i] \in Index
      /\ \A i \in 1 .. Len(queued_list) : queued_list[i] \in Index
      /\ \A i \in 1 .. Len(todo) : todo[i] \in Index
      /\ Len(todo) \in Nat
  BY ListIndex
<1>3. /\ Len(done_list') = Len(done_list) + 1
      /\ \A i \in 1 .. Len(done_list) : done_list'[i] = done_list[i]
      /\ done_list'[Len(done_list) + 1] = b
  BY <1>1, ListIndex
<1>4. \A i \in 1 .. Len(done_list) : done_list[i] # b
  BY <1>2 DEF QueueInv
<1>5. \A i, j \in 1 .. Len(done_list') : done_list'[i] = done_list'[j] => i = j
  <2> TAKE i, j \in 1 .. Len(done_list')
  <2>1. CASE i # Len(done_list) + 1 /\ j # Len(done_list) + 1
    <3>1. i \in 1 .. Len(done_list) /\ j \in 1 .. Len(done_list)
      BY <1>2, <1>3, <2>1
    <3> QED
      BY <1>3, <3>1 DEF QueueInv
  <2>2. CASE i = Len(done_list) + 1 /\ j # Len(done_list) + 1
    <3>1. j \in 1 .. Len(done_list)
      BY <1>2, <1>3, <2>2
    <3> QED
      BY <1>3, <1>4, <2>2, <3>1
  <2>3. CASE i # Len(done_list) + 1 /\ j = Len(done_list) + 1
    <3>1. i \in 1 .. Len(done_list)
      BY <1>2, <1>3, <2>3
    <3> QED
      BY <1>3, <1>4, <2>3, <3>1
  <2> QED
    BY <2>1, <2>2, <2>3
<1>6. \A i \in 1 .. Len(done_list') : vbstate'[done_list'[i]] \in {"DONE", "ERROR"}
  BY <1>1, <1>2, <1>3, <1>4 DEF QueueInv
<1>7. \A i \in 1 .. Len(queued_list) : vbstate'[queued_list[i]] # "DEQUEUED"
  BY <1>1, <1>2 DEF QueueInv
<1>8. QueueInv'
  BY <1>5, <1>6, <1>7 DEF QueueInv
<1>9. TodoInv'
  BY <1>1, <1>2 DEF TodoInv
<1> QED
  BY <1>8, <1>9

(* A dequeued buffer leaves both lists; the driver has no part in it.      *)
LEMMA DequeueKeeps ==
  ASSUME ListTypeOK, QueueTypeOK, DeviceTypeOK, QueueInv, OwnInv, dqbuf_take,
         done_list # <<>>, step = "none", step' = "none", todo' = <<>>,
         UNCHANGED <<active, sbuf, start_streaming_called>>
  PROVE  QueueInv' /\ TodoInv' /\ OwnInv'
<1> USE DEF ListTypeOK, QueueTypeOK, DeviceTypeOK, VbState
<1> DEFINE b == Head(done_list)
<1>1. /\ Len(done_list) \in Nat /\ Len(done_list) >= 1
      /\ Len(queued_list) \in Nat
      /\ \A i \in 1 .. Len(done_list) : done_list[i] \in Index
      /\ \A i \in 1 .. Len(queued_list) : queued_list[i] \in Index
      /\ \A i \in 1 .. Len(active) : active[i] \in Index
  BY ListIndex
<1>2. b = done_list[1] /\ b \in Index
  BY <1>1, ListIndex
<1>3. /\ Len(done_list') = Len(done_list) - 1
      /\ \A i \in 1 .. Len(done_list) - 1 : done_list'[i] = done_list[i + 1]
  BY ListIndex DEF dqbuf_take
<1>4. /\ vbstate' = [vbstate EXCEPT ![b] = "DEQUEUED"]
      /\ \A x \in Index : x # b => vbstate'[x] = vbstate[x]
      /\ vbstate'[b] = "DEQUEUED"
  BY <1>2 DEF dqbuf_take
<1>5. PICK k \in 1 .. Len(queued_list) :
        queued_list[k] = b /\ queued_list' = RemoveAt(queued_list, k)
  BY ListIndex DEF dqbuf_take
<1>6. /\ Len(queued_list') = Len(queued_list) - 1
      /\ \A i \in 1 .. Len(queued_list) - 1 :
           queued_list'[i] = IF i < k THEN queued_list[i] ELSE queued_list[i + 1]
  BY <1>5, ListIndex
<1>7. vbstate[b] \in {"DONE", "ERROR"}
  BY <1>1, <1>2 DEF QueueInv
<1> HIDE DEF b
<1>8. \A i \in 1 .. Len(queued_list') :
        /\ queued_list'[i] # b
        /\ \E j \in 1 .. Len(queued_list) : queued_list'[i] = queued_list[j]
  BY <1>1, <1>5, <1>6 DEF QueueInv
<1>9. \A i, j \in 1 .. Len(queued_list') :
        queued_list'[i] = queued_list'[j] => i = j
  BY <1>1, <1>5, <1>6 DEF QueueInv
<1>10. ASSUME NEW i \in 1 .. Len(done_list')
      PROVE  /\ i + 1 \in 1 .. Len(done_list)
             /\ done_list'[i] = done_list[i + 1]
             /\ done_list'[i] # b
             /\ vbstate'[done_list'[i]] \in {"DONE", "ERROR"}
  <2>1. i \in 1 .. Len(done_list) - 1 /\ i + 1 \in 1 .. Len(done_list) /\ i + 1 # 1
    BY <1>1, <1>3
  <2>2. done_list'[i] = done_list[i + 1] /\ done_list[i + 1] \in Index
    BY <1>1, <1>3, <2>1
  <2>3. done_list[i + 1] # done_list[1]
    BY <1>1, <2>1 DEF QueueInv
  <2>4. vbstate[done_list[i + 1]] \in {"DONE", "ERROR"}
    BY <2>1 DEF QueueInv
  <2> QED
    BY <1>2, <1>4, <2>1, <2>2, <2>3, <2>4
<1>11. ASSUME NEW i \in 1 .. Len(done_list'), NEW j \in 1 .. Len(done_list'),
              done_list'[i] = done_list'[j]
       PROVE  i = j
  <2>1. i + 1 = j + 1
    BY <1>10, <1>11 DEF QueueInv
  <2> QED
    BY <1>1, <1>3, <2>1
<1>12. \A i \in 1 .. Len(queued_list') :
         \E j \in 1 .. Len(queued_list) :
           /\ queued_list'[i] = queued_list[j]
           /\ vbstate'[queued_list'[i]] = vbstate[queued_list[j]]
  BY <1>1, <1>4, <1>8
<1>13. QueueInv'
  <2>1. \A i \in 1 .. Len(queued_list') : vbstate'[queued_list'[i]] # "DEQUEUED"
    BY <1>12 DEF QueueInv
  <2>2. (~start_streaming_called' /\ ~HandingOver') =>
          \A i \in 1 .. Len(queued_list') : vbstate'[queued_list'[i]] = "QUEUED"
    BY <1>12 DEF QueueInv, HandingOver
  <2> QED
    BY <1>9, <1>10, <1>11, <2>1, <2>2 DEF QueueInv
<1>14. TodoInv'
  BY DEF TodoInv
<1>15. \A x \in Index : vbstate'[x] = "ACTIVE" <=> vbstate[x] = "ACTIVE"
  BY <1>2, <1>4, <1>7
<1>16. OwnInv'
  BY <1>1, <1>15, NoBufNotIndex DEF OwnInv, HandingOver
<1> QED
  BY <1>13, <1>14, <1>16

(* A step that leaves the lists and the buffers alone.                     *)
LEMMA QuietKeeps ==
  ASSUME QueueInv, TodoInv, OwnInv,
         UNCHANGED <<vbstate, queued_list, done_list, active, sbuf>>,
         \/ UNCHANGED <<todo, step, start_streaming_called>>
         \/ /\ step # "queuing" /\ step' \notin {"handover", "queuing"}
            /\ todo' = <<>> \/ (todo' = todo /\ step' # "starting")
            /\ (~start_streaming_called' /\ ~HandingOver')
                 => (~start_streaming_called /\ ~HandingOver)
            /\ step' = "cancel" => active = <<>>
  PROVE  QueueInv' /\ TodoInv' /\ OwnInv'
<1>1. CASE UNCHANGED <<todo, step, start_streaming_called>>
  <2>1. HandingOver' <=> HandingOver
    BY <1>1 DEF HandingOver
  <2>2. QueueInv'
    BY <1>1, <2>1 DEF QueueInv
  <2>3. TodoInv'
    BY <1>1 DEF TodoInv
  <2>4. OwnInv'
    BY <1>1, <2>1 DEF OwnInv
  <2> QED
    BY <2>2, <2>3, <2>4
<1>2. CASE ~UNCHANGED <<todo, step, start_streaming_called>>
  <2>1. QueueInv'
    BY <1>2 DEF QueueInv
  <2>2. TodoInv'
    <3>1. CASE todo' = <<>>
      BY <3>1 DEF TodoInv
    <3>2. CASE todo' = todo /\ step' # "starting"
      BY <1>2, <3>2 DEF TodoInv
    <3> QED
      BY <1>2, <3>1, <3>2
  <2>3. OwnInv'
    BY <1>2 DEF OwnInv
  <2> QED
    BY <2>1, <2>2, <2>3
<1> QED
  BY <1>1, <1>2

(* Every buffer back to user space: REQBUFS and the queue cancel.          *)
LEMMA ResetKeeps ==
  ASSUME vbstate' = [b \in Index |-> "DEQUEUED"],
         queued_list' = <<>>, done_list' = <<>>, active' = <<>>, todo' = <<>>,
         sbuf' = NoBuf, step' = "none"
  PROVE  QueueInv' /\ TodoInv' /\ OwnInv'
<1>1. QueueInv'
  BY DEF QueueInv
<1>2. TodoInv'
  BY DEF TodoInv
<1>3. OwnInv'
  BY NoBufNotIndex DEF OwnInv
<1> QED
  BY <1>1, <1>2, <1>3

(* A buffer user space owns joins queued_list, and perhaps the hand-over.  *)
LEMMA AddKeeps ==
  ASSUME ListTypeOK, QueueTypeOK, DeviceTypeOK, QueueInv, OwnInv,
         NEW b \in Index, vbstate[b] = "DEQUEUED", step = "none",
         vbstate' = [vbstate EXCEPT ![b] = "QUEUED"],
         queued_list' = Append(queued_list, b),
         UNCHANGED <<done_list, active, sbuf, start_streaming_called>>,
         \/ todo' = <<>> /\ step' = "none"
         \/ start_streaming_called /\ todo' = <<b>> /\ step' = "handover"
         \/ ~start_streaming_called /\ todo' = queued_list' /\ step' = "handover"
  PROVE  QueueInv' /\ TodoInv' /\ OwnInv'
<1>1. /\ vbstate'[b] = "QUEUED"
      /\ \A x \in Index : x # b => vbstate'[x] = vbstate[x]
  BY DEF QueueTypeOK
<1>2. /\ Len(queued_list) \in Nat
      /\ Len(queued_list') = Len(queued_list) + 1
      /\ \A i \in 1 .. Len(queued_list) : queued_list'[i] = queued_list[i]
      /\ queued_list'[Len(queued_list) + 1] = b
      /\ \A i \in 1 .. Len(queued_list) : queued_list[i] \in Index
  BY ListIndex DEF ListTypeOK
<1>3. /\ \A i \in 1 .. Len(done_list) : done_list[i] \in Index
      /\ \A i \in 1 .. Len(active) : active[i] \in Index
  BY ListIndex DEF ListTypeOK
<1>4. \A i \in 1 .. Len(queued_list) : queued_list[i] # b
  BY <1>2 DEF QueueInv
<1>5. \A i, j \in 1 .. Len(queued_list') :
        queued_list'[i] = queued_list'[j] => i = j
  BY <1>2, <1>4 DEF QueueInv
<1>6. ~start_streaming_called =>
        \A i \in 1 .. Len(queued_list') : vbstate'[queued_list'[i]] = "QUEUED"
  BY <1>1, <1>2, <1>4 DEF QueueInv, HandingOver
<1>7. \A i \in 1 .. Len(queued_list') : vbstate'[queued_list'[i]] # "DEQUEUED"
  BY <1>1, <1>2, <1>4 DEF QueueInv
<1>8. \A i \in 1 .. Len(done_list) : vbstate'[done_list[i]] \in {"DONE", "ERROR"}
  BY <1>1, <1>3 DEF QueueInv
<1>9. QueueInv'
  BY <1>5, <1>6, <1>7, <1>8 DEF QueueInv
<1>10. TodoInv'
  <2>1. CASE todo' = <<>>
    BY <2>1 DEF TodoInv
  <2>2. CASE todo' = <<b>> /\ step' = "handover"
    BY <1>1, <2>2 DEF TodoInv
  <2>3. CASE ~start_streaming_called /\ todo' = queued_list' /\ step' = "handover"
    BY <1>5, <1>6, <2>3 DEF TodoInv
  <2> QED
    BY <2>1, <2>2, <2>3
<1>11. OwnInv'
  <2>1. \A x \in Index : vbstate'[x] = "ACTIVE" <=> vbstate[x] = "ACTIVE"
    BY <1>1
  <2>2. sbuf # NoBuf => sbuf \in Index
    BY DEF DeviceTypeOK
  <2>3. ~start_streaming_called => active = <<>>
    BY DEF OwnInv, HandingOver
  <2>4. step' \in {"none", "handover"}
    OBVIOUS
  <2> QED
    BY <1>3, <2>1, <2>2, <2>3, <2>4 DEF OwnInv
<1> QED
  BY <1>9, <1>10, <1>11

(* vb2 makes the next buffer ACTIVE: it is on its way to buf_queue.        *)
LEMMA EnqueueKeeps ==
  ASSUME ListTypeOK, QueueTypeOK, DeviceTypeOK, QueueInv, TodoInv, OwnInv,
         step = "handover", step' = "queuing", todo # <<>>,
         vbstate' = [vbstate EXCEPT ![Head(todo)] = "ACTIVE"],
         UNCHANGED <<queued_list, done_list, active, sbuf, todo,
                     start_streaming_called>>
  PROVE  QueueInv' /\ TodoInv' /\ OwnInv'
<1>1. /\ Len(todo) \in Nat /\ Len(todo) >= 1
      /\ Head(todo) = todo[1]
      /\ \A i \in 1 .. Len(todo) : todo[i] \in Index
  BY ListIndex DEF ListTypeOK
<1>2. todo[1] \in Index /\ vbstate[todo[1]] = "QUEUED"
  BY <1>1 DEF TodoInv
<1>3. /\ vbstate'[todo[1]] = "ACTIVE"
      /\ \A x \in Index : x # todo[1] => vbstate'[x] = vbstate[x]
  BY <1>1, <1>2 DEF QueueTypeOK
<1>4. /\ \A i \in 1 .. Len(done_list) : done_list[i] \in Index
      /\ \A i \in 1 .. Len(active) : active[i] \in Index
      /\ \A i \in 1 .. Len(queued_list) : queued_list[i] \in Index
      /\ sbuf # NoBuf => sbuf \in Index
  BY ListIndex DEF ListTypeOK, DeviceTypeOK
<1>5. QueueInv'
  <2>1. \A i \in 1 .. Len(queued_list) : vbstate'[queued_list[i]] # "DEQUEUED"
    BY <1>3, <1>4 DEF QueueInv
  <2>2. \A i \in 1 .. Len(done_list) : vbstate'[done_list[i]] \in {"DONE", "ERROR"}
    BY <1>2, <1>3, <1>4 DEF QueueInv
  <2> QED
    BY <2>1, <2>2 DEF QueueInv, HandingOver
<1>6. TodoInv'
  <2>1. \A i \in 2 .. Len(todo) : i \in 1 .. Len(todo) /\ todo[i] # todo[1]
    BY <1>1 DEF TodoInv
  <2>2. \A i \in 2 .. Len(todo) : vbstate'[todo[i]] = "QUEUED"
    BY <1>1, <1>3, <2>1 DEF TodoInv
  <2> QED
    BY <2>2 DEF TodoInv
<1>7. OwnInv'
  <2>1. \A i \in 1 .. Len(active) :
          vbstate'[active[i]] = "ACTIVE" /\ active[i] # todo[1]
    BY <1>2, <1>3, <1>4 DEF OwnInv
  <2>2. sbuf # NoBuf => vbstate'[sbuf] = "ACTIVE"
    BY <1>3, <1>4 DEF OwnInv
  <2>3. todo[1] # sbuf
    BY <1>2, NoBufNotIndex DEF OwnInv
  <2>4. \A b \in Index : vbstate'[b] = "ACTIVE" =>
          (\E i \in 1 .. Len(active) : active[i] = b) \/ sbuf = b \/ todo[1] = b
    BY <1>3 DEF OwnInv
  <2> QED
    BY <1>3, <2>1, <2>2, <2>3, <2>4 DEF OwnInv, HandingOver
<1> QED
  BY <1>5, <1>6, <1>7

(* buf_queue links the arriving buffer.                                    *)
LEMMA LinkKeeps ==
  ASSUME ListTypeOK, QueueTypeOK, DeviceTypeOK, QueueInv, TodoInv, OwnInv,
         step = "queuing", step' = "handover", todo # <<>>,
         active' = Append(active, Head(todo)), todo' = Tail(todo),
         UNCHANGED <<vbstate, queued_list, done_list, sbuf,
                     start_streaming_called>>
  PROVE  QueueInv' /\ TodoInv' /\ OwnInv'
<1>1. /\ Len(todo) \in Nat /\ Len(todo) >= 1
      /\ Head(todo) = todo[1]
      /\ todo[1] \in Index
      /\ Len(todo') = Len(todo) - 1
      /\ \A i \in 1 .. Len(todo) - 1 : todo'[i] = todo[i + 1]
  <2>1. /\ Len(todo) \in Nat /\ Len(todo) >= 1
        /\ \A i \in 1 .. Len(todo) : todo[i] \in Index
    BY ListIndex DEF ListTypeOK
  <2> QED
    BY <2>1, ListIndex DEF ListTypeOK
<1>2. /\ Len(active) \in Nat
      /\ Len(active') = Len(active) + 1
      /\ \A i \in 1 .. Len(active) : active'[i] = active[i]
      /\ active'[Len(active) + 1] = todo[1]
  BY <1>1, ListIndex DEF ListTypeOK
<1>3. QueueInv'
  BY DEF QueueInv, HandingOver
<1>4. \A i \in 1 .. Len(todo') : i + 1 \in 2 .. Len(todo) /\ todo'[i] = todo[i + 1]
  BY <1>1
<1>5. ASSUME NEW i \in 1 .. Len(todo'), NEW j \in 1 .. Len(todo'),
             todo'[i] = todo'[j]
      PROVE  i = j
  <2>1. i + 1 \in 1 .. Len(todo) /\ j + 1 \in 1 .. Len(todo)
    BY <1>1
  <2>2. i + 1 = j + 1
    BY <1>4, <1>5, <2>1 DEF TodoInv
  <2> QED
    BY <1>1, <2>2
<1>6. TodoInv'
  <2>1. \A i \in 1 .. Len(todo') : vbstate[todo'[i]] = "QUEUED"
    BY <1>4 DEF TodoInv
  <2> QED
    BY <1>5, <2>1 DEF TodoInv
<1>7. OwnInv'
  <2>1. \A i, j \in 1 .. Len(active') : active'[i] = active'[j] => i = j
    BY <1>2 DEF OwnInv
  <2>2. \A i \in 1 .. Len(active') :
          vbstate[active'[i]] = "ACTIVE" /\ active'[i] # sbuf
    BY <1>2 DEF OwnInv
  <2>3. ASSUME NEW b \in Index, vbstate[b] = "ACTIVE", sbuf # b
        PROVE  \E i \in 1 .. Len(active') : active'[i] = b
    <3>1. CASE \E i \in 1 .. Len(active) : active[i] = b
      BY <1>2, <3>1
    <3>2. CASE todo[1] = b
      <4>1. Len(active) + 1 \in 1 .. Len(active')
        BY <1>2
      <4> QED
        BY <1>2, <3>2, <4>1
    <3> QED
      BY <2>3, <3>1, <3>2 DEF OwnInv
  <2> QED
    BY <2>1, <2>2, <2>3 DEF OwnInv, HandingOver
<1> QED
  BY <1>3, <1>6, <1>7

(* Completing the head of dmaq->active while the list is drained.          *)
LEMMA DrainKeeps ==
  ASSUME ListTypeOK, QueueTypeOK, DeviceTypeOK, QueueInv, TodoInv, OwnInv,
         active # <<>>, step = "draining", step' = "draining",
         start_streaming_called, vb2_buffer_done(Head(active), "ERROR"),
         active' = Tail(active),
         UNCHANGED <<sbuf, queued_list, todo, start_streaming_called>>
  PROVE  QueueInv' /\ TodoInv' /\ OwnInv'
<1>1. /\ Len(active) \in Nat /\ Len(active) >= 1
      /\ Head(active) = active[1]
      /\ Len(active') = Len(active) - 1
      /\ \A i \in 1 .. Len(active) - 1 : active'[i] = active[i + 1]
      /\ \A i \in 1 .. Len(active) : active[i] \in Index
  BY ListIndex DEF ListTypeOK
<1>2. active[1] \in Index /\ vbstate[active[1]] = "ACTIVE" /\ active[1] # sbuf
  BY <1>1 DEF OwnInv
<1>3. QueueInv' /\ TodoInv'
  BY <1>1, <1>2, CompleteKeeps
<1>4. /\ vbstate'[active[1]] = "ERROR"
      /\ \A x \in Index : x # active[1] => vbstate'[x] = vbstate[x]
  BY <1>1, <1>2 DEF QueueTypeOK, vb2_buffer_done
<1>5. ASSUME NEW i \in 1 .. Len(active')
      PROVE  /\ i + 1 \in 1 .. Len(active)
             /\ active'[i] = active[i + 1]
             /\ active'[i] # active[1]
  <2>1. i + 1 \in 1 .. Len(active) /\ active'[i] = active[i + 1] /\ i + 1 # 1
    BY <1>1
  <2> QED
    BY <1>1, <2>1 DEF OwnInv
<1>6. ASSUME NEW i \in 1 .. Len(active'), NEW j \in 1 .. Len(active'),
             active'[i] = active'[j]
      PROVE  i = j
  <2>1. i + 1 = j + 1
    BY <1>5, <1>6 DEF OwnInv
  <2> QED
    BY <1>1, <2>1
<1>7. \A i \in 1 .. Len(active') : vbstate'[active'[i]] = "ACTIVE" /\ active'[i] # sbuf
  BY <1>1, <1>4, <1>5 DEF OwnInv
<1>8. sbuf # NoBuf => vbstate'[sbuf] = "ACTIVE"
  BY <1>2, <1>4 DEF OwnInv, DeviceTypeOK
<1>9. ASSUME NEW b \in Index, vbstate'[b] = "ACTIVE", sbuf # b
      PROVE  \E i \in 1 .. Len(active') : active'[i] = b
  <2>1. b # active[1] /\ vbstate[b] = "ACTIVE"
    BY <1>4, <1>9
  <2>2. PICK k \in 1 .. Len(active) : active[k] = b
    BY <1>9, <2>1 DEF OwnInv
  <2>3. k # 1
    BY <2>1, <2>2
  <2>4. k - 1 \in 1 .. Len(active') /\ (k - 1) + 1 = k
    BY <1>1, <2>3
  <2>5. active'[k - 1] = b
    BY <1>5, <2>2, <2>4
  <2> QED
    BY <2>4, <2>5
<1>10. OwnInv'
  BY <1>6, <1>7, <1>8, <1>9 DEF OwnInv
<1> QED
  BY <1>3, <1>10

(* The thread takes the head of dmaq->active in its hand.                  *)
LEMMA TakeKeeps ==
  ASSUME ListTypeOK, DeviceTypeOK, QueueInv, TodoInv, OwnInv,
         active # <<>>, sbuf = NoBuf, start_streaming_called, step # "cancel",
         sbuf' = Head(active), active' = Tail(active),
         UNCHANGED <<vbstate, queued_list, done_list, todo, step,
                     start_streaming_called>>
  PROVE  QueueInv' /\ TodoInv' /\ OwnInv'
<1>1. /\ Len(active) \in Nat /\ Len(active) >= 1
      /\ Head(active) = active[1]
      /\ Len(active') = Len(active) - 1
      /\ \A i \in 1 .. Len(active) - 1 : active'[i] = active[i + 1]
      /\ \A i \in 1 .. Len(active) : active[i] \in Index
  BY ListIndex DEF ListTypeOK
<1>2. QueueInv'
  BY DEF QueueInv, HandingOver
<1>3. TodoInv'
  BY DEF TodoInv
<1>4. ASSUME NEW i \in 1 .. Len(active')
      PROVE  /\ i + 1 \in 1 .. Len(active)
             /\ active'[i] = active[i + 1]
             /\ active'[i] # active[1]
  <2>1. i + 1 \in 1 .. Len(active) /\ active'[i] = active[i + 1] /\ i + 1 # 1
    BY <1>1
  <2> QED
    BY <1>1, <2>1 DEF OwnInv
<1>5. ASSUME NEW i \in 1 .. Len(active'), NEW j \in 1 .. Len(active'),
             active'[i] = active'[j]
      PROVE  i = j
  <2>1. i + 1 = j + 1
    BY <1>4, <1>5 DEF OwnInv
  <2> QED
    BY <1>1, <2>1
<1>6. \A i \in 1 .. Len(active') :
        /\ vbstate[active'[i]] = "ACTIVE"
        /\ active'[i] # sbuf'
        /\ step = "queuing" => active'[i] # todo[1]
  BY <1>1, <1>4 DEF OwnInv
<1>7. /\ vbstate[sbuf'] = "ACTIVE"
      /\ step = "queuing" => vbstate[todo[1]] = "ACTIVE" /\ todo[1] # sbuf'
  BY <1>1 DEF OwnInv
<1>8. ASSUME NEW b \in Index, vbstate[b] = "ACTIVE", sbuf' # b,
             ~(step = "queuing" /\ todo[1] = b)
      PROVE  \E i \in 1 .. Len(active') : active'[i] = b
  <2>1. PICK k \in 1 .. Len(active) : active[k] = b
    BY <1>8, NoBufNotIndex DEF OwnInv
  <2>2. k # 1
    BY <1>1, <1>8, <2>1
  <2>3. k - 1 \in 1 .. Len(active') /\ (k - 1) + 1 = k
    BY <1>1, <2>2
  <2>4. active'[k - 1] = b
    BY <1>4, <2>1, <2>3
  <2> QED
    BY <2>3, <2>4
<1>9. OwnInv'
  BY <1>5, <1>6, <1>7, <1>8 DEF OwnInv
<1> QED
  BY <1>2, <1>3, <1>9

(* The thread completes the buffer in its hand.                            *)
LEMMA FinishKeeps ==
  ASSUME ListTypeOK, QueueTypeOK, ControlInv, QueueInv, TodoInv, OwnInv,
         sbuf \in Index, sbuf' = NoBuf, vb2_buffer_done(sbuf, "DONE"),
         start_streaming_called,
         UNCHANGED <<queued_list, active, todo, step, start_streaming_called>>
  PROVE  QueueInv' /\ TodoInv' /\ OwnInv'
<1>1. vbstate[sbuf] = "ACTIVE"
  BY NoBufNotIndex DEF OwnInv
<1>2. QueueInv' /\ TodoInv'
  BY <1>1, CompleteKeeps
<1>3. /\ vbstate'[sbuf] = "DONE"
      /\ \A x \in Index : x # sbuf => vbstate'[x] = vbstate[x]
  BY <1>1 DEF QueueTypeOK, vb2_buffer_done
<1>4. /\ \A i \in 1 .. Len(active) : active[i] \in Index
      /\ step = "queuing" => todo[1] \in Index
  <2>1. todo # <<>> => 1 \in 1 .. Len(todo)
    BY ListIndex DEF ListTypeOK
  <2> QED
    BY <2>1, ListIndex DEF ListTypeOK, ControlInv
<1>5. \A i \in 1 .. Len(active) : vbstate'[active[i]] = "ACTIVE" /\ active[i] # NoBuf
  BY <1>3, <1>4, NoBufNotIndex DEF OwnInv
<1>6. step = "queuing" => vbstate'[todo[1]] = "ACTIVE" /\ todo[1] # NoBuf
  BY <1>3, <1>4, NoBufNotIndex DEF OwnInv
<1>7. \A b \in Index : vbstate'[b] = "ACTIVE" =>
        \/ \E i \in 1 .. Len(active) : active[i] = b
        \/ step = "queuing" /\ todo[1] = b
  BY <1>3 DEF OwnInv
<1>8. OwnInv'
  BY <1>5, <1>6, <1>7 DEF OwnInv, HandingOver
<1> QED
  BY <1>2, <1>8

(* A failed start is remembered.                                           *)
LEMMA FailedForever == [Next]_vars /\ start_failed => start_failed'
  BY DEF Next, Ioctl, IoctlStep, frame_generation_thread, Oopsed, REQBUFS, QBUF,
         STREAMON, DQBUF, dqbuf_wakeup, dqbuf_interrupted, STREAMOFF,
         vb2_fop_release, enqueue_in_driver, buf_queue, handover_done,
         start_streaming, start_streaming_failed, stop_streaming_signal,
         stop_streaming_join, stop_streaming_drain, queue_cancel, fgt_check,
         fgt_lock, fgt_take, fgt_fill, fgt_done, fgt_sleep, vars, faultVars

(* Outside an ioctl of a queue that is not started, dmaq->active is empty. *)
LEMMA IdleEmpty ==
  ASSUME OwnInv, ControlInv, mutex = Nobody, ~start_streaming_called
  PROVE  active = <<>>
  BY DEF OwnInv, ControlInv, HandingOver

(* Until a start fails, every operation keeps vb2's lists, the hand-over   *)
(* list and the driver's three places for a buffer in agreement.           *)
LEMMA OwnershipStep ==
  Inv /\ [Next]_vars /\ ~start_failed' => QueueInv' /\ TodoInv' /\ OwnInv'
<1> DEFINE Goal == QueueInv' /\ TodoInv' /\ OwnInv'
<1> SUFFICES ASSUME ListTypeOK, QueueTypeOK, DeviceTypeOK, IoctlTypeOK,
                    FaultTypeOK, ControlInv, ThreadInv,
                    QueueInv, TodoInv, OwnInv, ~start_failed', [Next]_vars
             PROVE  Goal
  BY FailedForever DEF Inv, TypeOK
<1> HIDE DEF Goal
<1> USE DEF queueVars, threadVars, ioctlVars, faultVars
<1>1. ASSUME NEW c \in Callers, NEW n \in 0 .. MaxBuffers, REQBUFS(c, n)
      PROVE  Goal
  <2>1. /\ mutex = Nobody /\ step = "none" /\ step' = "none" /\ todo' = <<>>
        /\ UNCHANGED <<active, sbuf>>
    BY <1>1 DEF REQBUFS, Enter, Return, ControlInv
  <2>2. CASE streaming
    <3>1. UNCHANGED queueVars
      BY <1>1, <2>2 DEF REQBUFS
    <3> QED
      BY <2>1, <3>1, QuietKeeps DEF Goal, HandingOver
  <2>3. CASE ~streaming
    <3>1. active = <<>> /\ sbuf = NoBuf
      BY <2>1, <2>3, IdleEmpty DEF ControlInv, ThreadInv
    <3>2. /\ vbstate' = [b \in Index |-> "DEQUEUED"]
          /\ queued_list' = <<>> /\ done_list' = <<>>
      BY <1>1, <2>3 DEF REQBUFS
    <3> QED
      BY <2>1, <3>1, <3>2, ResetKeeps DEF Goal
  <2> QED
    BY <2>2, <2>3
<1>2. ASSUME NEW c \in Callers, NEW b \in Index, QBUF(c, b)
      PROVE  Goal
  <2>1. /\ step = "none"
        /\ UNCHANGED <<done_list, active, sbuf, start_streaming_called>>
    BY <1>2 DEF QBUF, Enter, ControlInv
  <2>2. CASE b < num_buffers /\ vbstate[b] = "DEQUEUED" /\ buf_prepare_ok
    <3>1. /\ vbstate' = [vbstate EXCEPT ![b] = "QUEUED"]
          /\ queued_list' = Append(queued_list, b)
      BY <1>2, <2>2 DEF QBUF
    <3>2. \/ todo' = <<>> /\ step' = "none"
          \/ start_streaming_called /\ todo' = <<b>> /\ step' = "handover"
          \/ /\ ~start_streaming_called
             /\ todo' = Append(queued_list, b)
             /\ step' = "handover"
      BY <1>2, <2>2 DEF QBUF, Return, Continue
    <3> QED
      BY <1>2, <2>1, <2>2, <3>1, <3>2, AddKeeps DEF Goal
  <2>3. CASE ~(b < num_buffers /\ vbstate[b] = "DEQUEUED" /\ buf_prepare_ok)
    <3>1. UNCHANGED <<vbstate, queued_list>> /\ todo' = <<>> /\ step' = "none"
      BY <1>2, <2>3 DEF QBUF, Return
    <3> QED
      BY <2>1, <3>1, QuietKeeps DEF Goal, HandingOver
  <2> QED
    BY <2>2, <2>3
<1>3. ASSUME NEW c \in Callers, STREAMON(c)
      PROVE  Goal
  <2>1. /\ step = "none"
        /\ UNCHANGED <<vbstate, queued_list, done_list, active, sbuf,
                       start_streaming_called>>
    BY <1>3 DEF STREAMON, Enter, ControlInv
  <2>2. CASE ~streaming /\ num_buffers >= 1 /\ queued_list # <<>>
    <3>1. step' = "handover" /\ todo' = queued_list
      BY <1>3, <2>2 DEF STREAMON, Continue
    <3>2. ~start_streaming_called
      BY <2>2 DEF ControlInv
    <3>3. QueueInv'
      BY <2>1, <3>1 DEF QueueInv, HandingOver
    <3>4. TodoInv'
      BY <2>1, <3>1, <3>2 DEF TodoInv, QueueInv, HandingOver
    <3>5. OwnInv'
      BY <2>1, <3>1 DEF OwnInv, HandingOver
    <3> QED
      BY <3>3, <3>4, <3>5 DEF Goal
  <2>3. CASE ~(~streaming /\ num_buffers >= 1 /\ queued_list # <<>>)
    <3>1. step' = "none" /\ todo' = <<>>
      BY <1>3, <2>3 DEF STREAMON, Return
    <3> QED
      BY <2>1, <3>1, QuietKeeps DEF Goal, HandingOver
  <2> QED
    BY <2>2, <2>3
<1>4. ASSUME NEW c \in Callers, NEW nb \in BOOLEAN, DQBUF(c, nb)
      PROVE  Goal
  <2>1. step = "none" /\ step' = "none"
    BY <1>4 DEF DQBUF, Enter, Return, ControlInv
  <2>2. UNCHANGED <<active, sbuf, start_streaming_called>>
    BY <1>4 DEF DQBUF
  <2>3. CASE done_list # <<>> /\ dqbuf_take /\ todo' = <<>>
    BY <2>1, <2>2, <2>3, DequeueKeeps DEF Goal
  <2>4. CASE /\ UNCHANGED <<vbstate, queued_list, done_list>>
             /\ todo' = <<>> \/ UNCHANGED todo
    BY <2>1, <2>2, <2>4, QuietKeeps DEF Goal, HandingOver
  <2> QED
    BY <1>4, <2>3, <2>4 DEF DQBUF, Return
<1>5. ASSUME NEW c \in Callers, dqbuf_wakeup(c)
      PROVE  Goal
  <2>1. step = "none" /\ step' = "none" /\ todo' = <<>>
    BY <1>5 DEF dqbuf_wakeup, Return, ControlInv
  <2>2. UNCHANGED <<active, sbuf, start_streaming_called>>
    BY <1>5 DEF dqbuf_wakeup
  <2>3. CASE done_list # <<>> /\ dqbuf_take
    BY <2>1, <2>2, <2>3, DequeueKeeps DEF Goal
  <2>4. CASE UNCHANGED <<vbstate, queued_list, done_list>>
    BY <2>1, <2>2, <2>4, QuietKeeps DEF Goal, HandingOver
  <2> QED
    BY <1>5, <2>3, <2>4 DEF dqbuf_wakeup
<1>6. ASSUME NEW c \in Callers, dqbuf_interrupted(c)
      PROVE  Goal
  <2>1. step = "none"
    BY <1>6 DEF dqbuf_interrupted, ControlInv
  <2> QED
    BY <1>6, <2>1, QuietKeeps DEF Goal, dqbuf_interrupted, Return, HandingOver
<1>7. ASSUME NEW c \in Callers, STREAMOFF(c) \/ vb2_fop_release(c)
      PROVE  Goal
  <2>1. /\ mutex = Nobody /\ step = "none" /\ todo' = <<>>
        /\ UNCHANGED <<vbstate, queued_list, done_list, active, sbuf,
                       start_streaming_called>>
    BY <1>7 DEF STREAMOFF, vb2_fop_release, Enter, Continue, ControlInv
  <2>2. \/ start_streaming_called /\ step' = "stopping"
        \/ ~start_streaming_called /\ step' = "cancel"
    BY <1>7 DEF STREAMOFF, vb2_fop_release, Continue
  <2>3. step' = "cancel" => active = <<>>
    BY <2>1, <2>2, IdleEmpty
  <2> QED
    BY <2>1, <2>2, <2>3, QuietKeeps DEF Goal, HandingOver
<1>8. CASE enqueue_in_driver
  BY <1>8, EnqueueKeeps DEF Goal, enqueue_in_driver
<1>9. CASE buf_queue
  <2>1. /\ step = "queuing" /\ todo # <<>>
        /\ UNCHANGED <<vbstate, queued_list, done_list, sbuf,
                       start_streaming_called>>
    BY <1>9 DEF buf_queue, ControlInv
  <2>2. CASE UNCHANGED <<active, todo, step>>
    BY <2>1, <2>2, QuietKeeps DEF Goal
  <2>3. CASE /\ active' = Append(active, Head(todo))
             /\ todo' = Tail(todo) /\ step' = "handover"
    BY <2>1, <2>3, LinkKeeps DEF Goal
  <2> QED
    BY <1>9, <2>2, <2>3 DEF buf_queue
<1>10. CASE handover_done
  <2>1. /\ step = "handover" /\ todo = <<>> /\ todo' = <<>>
        /\ UNCHANGED <<vbstate, queued_list, done_list, active, sbuf,
                       start_streaming_called>>
    BY <1>10 DEF handover_done, Return
  <2>2. \/ start_streaming_called /\ step' = "none"
        \/ step' = "starting"
    BY <1>10 DEF handover_done, Return
  <2> QED
    BY <2>1, <2>2, QuietKeeps DEF Goal, HandingOver
<1>11. CASE start_streaming
  <2>1. sbuf = NoBuf
    BY <1>11 DEF start_streaming, ControlInv, ThreadInv
  <2>2. /\ step = "starting" /\ step' = "none" /\ todo' = <<>>
        /\ sbuf' = NoBuf /\ start_streaming_called'
        /\ UNCHANGED <<vbstate, queued_list, done_list, active>>
    BY <1>11 DEF start_streaming, Return
  <2> QED
    BY <2>1, <2>2, QuietKeeps DEF Goal
<1>12. CASE start_streaming_failed
  BY <1>12 DEF start_streaming_failed
<1>13. CASE stop_streaming_signal
  <2>1. /\ step = "stopping" /\ step' \in {"stopping", "joining", "draining"}
        /\ UNCHANGED <<vbstate, queued_list, done_list, active, sbuf, todo,
                       start_streaming_called>>
    BY <1>13 DEF stop_streaming_signal
  <2> QED
    BY <2>1, QuietKeeps DEF Goal, HandingOver
<1>14. CASE stop_streaming_join
  BY <1>14, QuietKeeps DEF Goal, stop_streaming_join, HandingOver
<1>15. CASE stop_streaming_drain
  <2>1. /\ step = "draining" /\ start_streaming_called
        /\ UNCHANGED <<queued_list, todo, start_streaming_called, sbuf>>
    BY <1>15 DEF stop_streaming_drain, ControlInv
  <2>2. CASE active = <<>>
    <3>1. step' = "cancel" /\ UNCHANGED <<active, vbstate, done_list>>
      BY <1>15, <2>2 DEF stop_streaming_drain
    <3> QED
      BY <2>1, <2>2, <3>1, QuietKeeps DEF Goal, HandingOver
  <2>3. CASE active # <<>>
    <3>1. /\ active' = Tail(active) /\ step' = "draining"
          /\ vb2_buffer_done(Head(active), "ERROR")
      BY <1>15, <2>1, <2>3 DEF stop_streaming_drain
    <3> QED
      BY <2>1, <2>3, <3>1, DrainKeeps DEF Goal
  <2> QED
    BY <2>2, <2>3
<1>16. CASE queue_cancel
  <2>1. active = <<>>
    BY <1>16 DEF queue_cancel, OwnInv
  <2> QED
    BY <1>16, <2>1, ResetKeeps DEF Goal, queue_cancel, Return
<1>17. CASE fgt_check \/ fgt_lock \/ fgt_fill \/ fgt_sleep \/ UNCHANGED vars
  <2>1. UNCHANGED <<vbstate, queued_list, done_list, active, sbuf, todo, step,
                    start_streaming_called>>
    BY <1>17 DEF fgt_check, fgt_lock, fgt_fill, fgt_sleep, vars
  <2> QED
    BY <2>1, QuietKeeps DEF Goal
<1>18. CASE fgt_take
  <2>1. /\ sbuf = NoBuf /\ start_streaming_called /\ step # "cancel"
        /\ UNCHANGED <<vbstate, queued_list, done_list, todo, step,
                       start_streaming_called>>
    BY <1>18 DEF fgt_take, ThreadInv, ThreadRunning
  <2>2. CASE UNCHANGED <<sbuf, active>>
    BY <2>1, <2>2, QuietKeeps DEF Goal
  <2>3. CASE active # <<>> /\ sbuf' = Head(active) /\ active' = Tail(active)
    BY <2>1, <2>3, TakeKeeps DEF Goal
  <2> QED
    BY <1>18, <2>2, <2>3 DEF fgt_take
<1>19. CASE fgt_done
  <2>1. sbuf \in Index /\ start_streaming_called
    BY <1>19 DEF fgt_done, ThreadInv, DeviceTypeOK
  <2> QED
    BY <1>19, <2>1, FinishKeeps DEF Goal, fgt_done
<1> QED
  BY <1>1, <1>2, <1>3, <1>4, <1>5, <1>6, <1>7, <1>8, <1>9, <1>10, <1>11, <1>12,
     <1>13, <1>14, <1>15, <1>16, <1>17, <1>18, <1>19
  DEF Next, Ioctl, IoctlStep, frame_generation_thread, Oopsed

-----------------------------------------------------------------------------
(* The theorems.                                                           *)

(* The inductive invariant holds once v4l2_init has returned.              *)
LEMMA InvInit == Init => Inv
<1> SUFFICES ASSUME Init
             PROVE  Inv
  OBVIOUS
<1> USE DEF Init, v4l2_init_device
<1>1. TypeOK
  BY TypeInit
<1>2. ControlInv
  BY DEF ControlInv
<1>3. ThreadInv
  BY DEF ThreadInv, ThreadRunning
<1>4. QueueInv
  BY DEF QueueInv
<1>5. TodoInv
  BY DEF TodoInv
<1>6. OwnInv
  BY DEF OwnInv
<1> QED
  BY <1>1, <1>2, <1>3, <1>4, <1>5, <1>6 DEF Inv

(* Every operation of callers, vb2, driver and thread preserves it.        *)
LEMMA InvStep == Inv /\ [Next]_vars => Inv'
  BY TypeStep, ControlStep, ThreadStep, OwnershipStep DEF Inv

(* The inductive invariant the other theorems rest on: types, agreement of *)
(* the ioctl in progress with the mutex, of the thread with dmaq->kthread  *)
(* and slock, and of the buffer states with the lists they are on.         *)
THEOREM Invariant == Spec => []Inv
  BY InvInit, InvStep, PTL DEF Spec

(* Every variable keeps its type in every reachable state, for any number  *)
(* of callers and buffers and any injected failures.                       *)
THEOREM TypeCorrect == Spec => []TypeOK
<1>1. Inv => TypeOK
  BY DEF Inv
<1> QED
  BY <1>1, Invariant, PTL

(* Until a start_streaming fails, the driver's three places for a buffer   *)
(* (dmaq->active, the thread's hand, the argument of buf_queue) are        *)
(* disjoint and hold exactly the ACTIVE buffers.                           *)
THEOREM OwnershipHolds == Spec => []BufferOwnership
<1>1. ASSUME Inv
      PROVE  BufferOwnership
  <2> SUFFICES ASSUME ~start_failed
               PROVE  /\ IsInjective(active)
                      /\ {b \in Index : vbstate[b] = "ACTIVE"}
                           = Range(active) \cup InHand \cup Arriving
                      /\ Range(active) \cap (InHand \cup Arriving) = {}
                      /\ InHand \cap Arriving = {}
    BY DEF BufferOwnership
  <2>1. OwnInv /\ ListTypeOK /\ DeviceTypeOK /\ ControlInv
    BY <1>1 DEF Inv, TypeOK
  <2>2. /\ DOMAIN active = 1 .. Len(active)
        /\ \A i \in 1 .. Len(active) : active[i] \in Index
        /\ Range(active) = {active[i] : i \in 1 .. Len(active)}
    BY <2>1, ListIndex DEF ListTypeOK, Range
  <2>3. /\ InHand = IF sbuf = NoBuf THEN {} ELSE {sbuf}
        /\ sbuf # NoBuf => sbuf \in Index
    BY <2>1 DEF InHand, DeviceTypeOK
  <2>4. /\ Arriving = IF step = "queuing" THEN {todo[1]} ELSE {}
        /\ step = "queuing" => todo[1] \in Index
    <3>1. ASSUME step = "queuing"
          PROVE  Head(todo) = todo[1] /\ todo[1] \in Index
      <4>1. todo \in Seq(Index) /\ todo # <<>>
        BY <2>1, <3>1 DEF ListTypeOK, ControlInv
      <4>2. Head(todo) = todo[1] /\ 1 \in 1 .. Len(todo)
        BY <4>1, ListIndex
      <4> QED
        BY <4>1, <4>2, ListIndex
    <3> QED
      BY <3>1 DEF Arriving
  <2>5. IsInjective(active)
    BY <2>1, <2>2 DEF OwnInv, IsInjective
  <2>6. ASSUME NEW b \in Index, vbstate[b] = "ACTIVE"
        PROVE  b \in Range(active) \cup InHand \cup Arriving
    <3>1. b # NoBuf
      BY NoBufNotIndex
    <3> QED
      BY <2>1, <2>2, <2>3, <2>4, <2>6, <3>1 DEF OwnInv
  <2>7. ASSUME NEW b \in Range(active) \cup InHand \cup Arriving
        PROVE  b \in Index /\ vbstate[b] = "ACTIVE"
    BY <2>1, <2>2, <2>3, <2>4 DEF OwnInv
  <2>8. Range(active) \cap (InHand \cup Arriving) = {}
    BY <2>1, <2>2, <2>3, <2>4 DEF OwnInv
  <2>9. InHand \cap Arriving = {}
    BY <2>1, <2>3, <2>4 DEF OwnInv
  <2> QED
    BY <2>5, <2>6, <2>7, <2>8, <2>9
<1> QED
  BY <1>1, Invariant, PTL

(* stop_streaming's walk of dmaq->active, which takes no lock, never       *)
(* overlaps the thread's use of the list.                                  *)
THEOREM DrainIsExclusive == Spec => []DrainExclusive
<1>1. Inv => DrainExclusive
  BY DEF Inv, TypeOK, DeviceTypeOK, ThreadInv, DrainExclusive, ThreadRunning
<1> QED
  BY <1>1, Invariant, PTL

(* A running thread is always the one dmaq->kthread names, and             *)
(* stop_streaming always finds it there.                                   *)
THEOREM ThreadIsAccounted == Spec => []ThreadAccounted
<1>1. Inv => ThreadAccounted
  BY DEF Inv, ControlInv, ThreadInv, ThreadAccounted, ThreadRunning
<1> QED
  BY <1>1, Invariant, PTL

(* When stop_streaming returns to vb2, the driver owns no buffer, unless   *)
(* the thread returned with one in its hand or a start failed before.      *)
THEOREM NothingLeaks == Spec => []NoLeak
<1>1. ASSUME Inv
      PROVE  NoLeak
  <2> SUFFICES ASSUME step = "cancel", tpc # "failed", ~start_failed,
                      NEW b \in Index, vbstate[b] = "ACTIVE"
               PROVE  FALSE
    BY DEF NoLeak
  <2>1. OwnInv /\ ThreadInv
    BY <1>1 DEF Inv
  <2>2. sbuf = NoBuf
    BY <2>1 DEF ThreadInv, ThreadRunning
  <2>3. active = <<>> /\ Len(active) = 0
    BY <2>1 DEF OwnInv
  <2>4. \E i \in 1 .. Len(active) : active[i] = b
    BY <2>1, <2>2, NoBufNotIndex DEF OwnInv
  <2> QED
    BY <2>3, <2>4
<1> QED
  BY <1>1, Invariant, PTL

(* No operation reaches an undefined kernel state in a way OopsExplained   *)
(* does not name.                                                          *)
LEMMA OopsStep == Inv /\ OopsExplained /\ [Next]_vars => OopsExplained'
<1> SUFFICES ASSUME ListTypeOK, DeviceTypeOK, ControlInv, ThreadInv,
                    ~start_failed => TodoInv /\ OwnInv,
                    OopsExplained, [Next]_vars
             PROVE  OopsExplained'
  BY DEF Inv, TypeOK
<1>1. start_failed => start_failed'
  BY FailedForever
<1>2. CASE UNCHANGED vars
  BY <1>2 DEF vars, threadVars, faultVars, OopsExplained
<1>3. CASE oops = "none" /\ oops' = "none" /\ (dangling' => dangling)
  BY <1>1, <1>3 DEF OopsExplained
<1>4. ASSUME NEW c \in Callers, NEW n \in 0 .. MaxBuffers, REQBUFS(c, n),
             oops = "none"
      PROVE  OopsExplained'
  <2>1. mutex = Nobody /\ oops' = "none"
    BY <1>4 DEF REQBUFS, Enter
  <2>2. CASE streaming
    BY <1>3, <1>4, <2>1, <2>2 DEF REQBUFS
  <2>3. CASE ~streaming
    <3>1. ~start_failed => active = <<>>
      BY <2>1, <2>3, IdleEmpty DEF ControlInv
    <3>2. dangling' => dangling \/ active # <<>>
      BY <1>4, <2>3 DEF REQBUFS
    <3> QED
      BY <1>1, <2>1, <3>1, <3>2 DEF OopsExplained
  <2> QED
    BY <2>2, <2>3
<1>5. CASE buf_queue /\ oops = "none"
  <2>1. CASE oops' = "none"
    BY <1>3, <1>5, <2>1 DEF buf_queue
  <2>2. CASE oops' # "none"
    <3>1. /\ oops' = "list_add" /\ UNCHANGED <<start_failed, dangling>>
          /\ dangling \/ Head(todo) \in Range(active)
          /\ step = "queuing"
      BY <1>5, <2>2 DEF buf_queue
    <3>2. ASSUME ~start_failed
          PROVE  Head(todo) \notin Range(active)
      <4>1. Head(todo) = todo[1] /\ DOMAIN active = 1 .. Len(active)
        BY <3>1, ListIndex DEF ListTypeOK, ControlInv
      <4> QED
        BY <3>1, <3>2, <4>1 DEF OwnInv, Range
    <3> QED
      BY <3>1, <3>2 DEF OopsExplained
  <2> QED
    BY <2>1, <2>2
<1>6. CASE stop_streaming_signal /\ oops = "none"
  <2>1. kthread = "task"
    BY <1>6 DEF stop_streaming_signal, ControlInv, ThreadInv
  <2>2. /\ UNCHANGED <<tpc, kthread, start_failed, dangling>>
        /\ oops' = "none" \/ (oops' = "kthread_stop" /\ tpc \in ThreadDead)
    BY <1>6, <2>1 DEF stop_streaming_signal
  <2> QED
    BY <1>6, <2>1, <2>2 DEF OopsExplained
<1>7. CASE queue_cancel /\ oops = "none"
  <2>1. ~start_failed => active = <<>>
    BY <1>7 DEF queue_cancel, OwnInv
  <2>2. oops' = "none" /\ (dangling' => dangling \/ active # <<>>)
    BY <1>7 DEF queue_cancel
  <2> QED
    BY <1>1, <2>1, <2>2 DEF OopsExplained
<1>8. CASE start_streaming_failed /\ oops = "none"
  BY <1>3, <1>8 DEF start_streaming_failed
<1>9. ASSUME UNCHANGED faultVars, oops = "none"
      PROVE  OopsExplained'
  BY <1>3, <1>9 DEF faultVars
<1> QED
  BY <1>2, <1>4, <1>5, <1>6, <1>7, <1>8, <1>9
  DEF Next, Ioctl, IoctlStep, frame_generation_thread, Oopsed, QBUF, STREAMON,
      DQBUF, dqbuf_wakeup, dqbuf_interrupted, STREAMOFF, vb2_fop_release,
      enqueue_in_driver, handover_done, start_streaming, stop_streaming_join,
      stop_streaming_drain, fgt_check, fgt_lock, fgt_take, fgt_fill, fgt_done,
      fgt_sleep

(* The list is corrupted only after a failed start, and kthread_stop goes  *)
(* wrong only on a thread that returned by itself.                         *)
THEOREM OopsesAreExplained == Spec => []OopsExplained
<1>1. Init => OopsExplained
  BY DEF Init, v4l2_init_device, OopsExplained
<1> QED
  BY <1>1, OopsStep, Invariant, PTL DEF Spec

-----------------------------------------------------------------------------
(* Nothing is forgotten: every buffer that is not user space's is on the   *)
(* list its state says.  A program on the driver rests on this.            *)

CompleteInv ==
  /\ \A b \in Index : vbstate[b] # "DEQUEUED" =>
       b < num_buffers /\ \E k \in 1 .. Len(queued_list) : queued_list[k] = b
  /\ \A b \in Index : vbstate[b] \in {"DONE", "ERROR"} =>
       \E k \in 1 .. Len(done_list) : done_list[k] = b
  /\ start_streaming_called \/ HandingOver =>
       \A b \in Index : vbstate[b] = "QUEUED" =>
         step \in {"handover", "queuing"} /\ \E k \in 1 .. Len(todo) : todo[k] = b
  /\ step = "handover" /\ ~start_streaming_called => todo # <<>> \/ active # <<>>
  /\ step = "starting" => active # <<>>

(* Appending keeps what is on a list.                                      *)
LEMMA AppendKeeps ==
  ASSUME NEW s \in Seq(Index), NEW b \in Index
  PROVE  /\ \E k \in 1 .. Len(Append(s, b)) : Append(s, b)[k] = b
         /\ \A x : (\E k \in 1 .. Len(s) : s[k] = x)
                     => \E k \in 1 .. Len(Append(s, b)) : Append(s, b)[k] = x
         /\ Append(s, b) # <<>>
<1>1. /\ Len(s) \in Nat /\ Len(Append(s, b)) = Len(s) + 1
      /\ \A k \in 1 .. Len(s) : Append(s, b)[k] = s[k]
      /\ Append(s, b)[Len(s) + 1] = b
  BY ListIndex
<1>2. Append(s, b) # <<>>
  BY AppendProperties
<1> QED
  BY <1>1, <1>2

(* All but the head is on the tail.                                        *)
LEMMA TailKeeps ==
  ASSUME NEW s \in Seq(Index), s # <<>>, NEW x, x # Head(s),
         \E k \in 1 .. Len(s) : s[k] = x
  PROVE  \E k \in 1 .. Len(Tail(s)) : Tail(s)[k] = x
<1>1. /\ Len(s) \in Nat /\ Len(s) >= 1 /\ Head(s) = s[1] /\ Len(Tail(s)) = Len(s) - 1
      /\ \A k \in 1 .. Len(s) - 1 : Tail(s)[k] = s[k + 1]
  BY ListIndex
<1>2. PICK k \in 1 .. Len(s) : s[k] = x
  OBVIOUS
<1>3. k - 1 \in 1 .. Len(s) - 1 /\ (k - 1) + 1 = k
  BY <1>1, <1>2
<1> QED
  BY <1>1, <1>2, <1>3

(* All but the node deleted stays.                                         *)
LEMMA RemoveAtKeeps ==
  ASSUME NEW s \in Seq(Index), NEW n \in 1 .. Len(s), NEW x, x # s[n],
         \E k \in 1 .. Len(s) : s[k] = x
  PROVE  \E k \in 1 .. Len(RemoveAt(s, n)) : RemoveAt(s, n)[k] = x
<1>1. /\ Len(s) \in Nat /\ Len(RemoveAt(s, n)) = Len(s) - 1
      /\ \A k \in 1 .. Len(s) - 1 :
           RemoveAt(s, n)[k] = IF k < n THEN s[k] ELSE s[k + 1]
  BY ListIndex
<1>2. PICK k \in 1 .. Len(s) : s[k] = x
  OBVIOUS
<1>3. CASE k < n
  <2>1. k \in 1 .. Len(s) - 1
    BY <1>1, <1>3
  <2> QED
    BY <1>1, <1>2, <1>3, <2>1
<1>4. CASE k > n
  <2>1. k - 1 \in 1 .. Len(s) - 1 /\ ~(k - 1 < n) /\ (k - 1) + 1 = k
    BY <1>1, <1>4
  <2> QED
    BY <1>1, <1>2, <2>1
<1>5. k < n \/ k > n
  BY <1>1, <1>2
<1> QED
  BY <1>3, <1>4, <1>5

(* A step that leaves lists and buffers alone.                             *)
LEMMA QuietComplete ==
  ASSUME CompleteInv, UNCHANGED <<vbstate, queued_list, done_list, num_buffers>>,
         \/ UNCHANGED <<todo, step, start_streaming_called, active>>
         \/ /\ step' \notin {"handover", "queuing", "starting"}
            /\ start_streaming_called' => start_streaming_called
            /\ step \notin {"handover", "queuing"}
  PROVE  CompleteInv'
<1>1. CASE UNCHANGED <<todo, step, start_streaming_called, active>>
  BY <1>1 DEF CompleteInv, HandingOver
<1>2. CASE /\ step' \notin {"handover", "queuing", "starting"}
           /\ start_streaming_called' => start_streaming_called
           /\ step \notin {"handover", "queuing"}
  BY <1>2 DEF CompleteInv, HandingOver
<1> QED
  BY <1>1, <1>2

(* Every operation keeps the lists complete, until a start fails.          *)
LEMMA ListsStayComplete ==
  ASSUME Inv, CompleteInv, ~start_failed, ~start_failed', [Next]_vars
  PROVE  CompleteInv'
<1> USE DEF queueVars, threadVars, ioctlVars, faultVars
<1>0. /\ ListTypeOK /\ QueueTypeOK /\ DeviceTypeOK /\ IoctlTypeOK
      /\ ControlInv /\ ThreadInv /\ QueueInv /\ TodoInv /\ OwnInv
  BY DEF Inv, TypeOK
<1>1. ASSUME NEW c \in Callers, NEW n \in 0 .. MaxBuffers, REQBUFS(c, n) PROVE  CompleteInv'
  <2>1. step = "none" /\ step' = "none" /\ UNCHANGED <<active, start_streaming_called>>
    BY <1>0, <1>1 DEF REQBUFS, Enter, Return, ControlInv
  <2>2. CASE streaming
    BY <1>1, <2>1, <2>2, QuietComplete DEF REQBUFS
  <2>3. CASE ~streaming
    BY <1>1, <2>1, <2>3 DEF REQBUFS, CompleteInv
  <2> QED
    BY <2>2, <2>3
<1>2. ASSUME NEW c \in Callers, NEW b \in Index, QBUF(c, b) PROVE  CompleteInv'
  <2>1. /\ step = "none"
        /\ UNCHANGED <<num_buffers, done_list, active, start_streaming_called>>
    BY <1>0, <1>2 DEF QBUF, Enter, ControlInv
  <2>2. CASE b < num_buffers /\ vbstate[b] = "DEQUEUED" /\ buf_prepare_ok
    <3>1. /\ vbstate' = [vbstate EXCEPT ![b] = "QUEUED"]
          /\ queued_list' = Append(queued_list, b)
      BY <1>2, <2>2 DEF QBUF
    <3>2. vbstate'[b] = "QUEUED" /\ \A x \in Index : x # b => vbstate'[x] = vbstate[x]
      BY <1>0, <3>1 DEF QueueTypeOK
    <3>3. /\ \E k \in 1 .. Len(queued_list') : queued_list'[k] = b
          /\ \A x : (\E k \in 1 .. Len(queued_list) : queued_list[k] = x)
                      => \E k \in 1 .. Len(queued_list') : queued_list'[k] = x
          /\ queued_list' # <<>>
      <4>1. queued_list \in Seq(Index)
        BY <1>0 DEF ListTypeOK
      <4> DEFINE t == Append(queued_list, b)
      <4>2. /\ \E k \in 1 .. Len(t) : t[k] = b
            /\ \A x : (\E k \in 1 .. Len(queued_list) : queued_list[k] = x)
                        => \E k \in 1 .. Len(t) : t[k] = x
            /\ t # <<>>
        BY <4>1, AppendKeeps
      <4>3. queued_list' = t
        BY <3>1
      <4> HIDE DEF t
      <4> QED
        BY <4>2, <4>3
    <3>4. \A x \in Index : vbstate'[x] # "DEQUEUED" =>
            x < num_buffers' /\ \E k \in 1 .. Len(queued_list') : queued_list'[k] = x
      BY <2>1, <2>2, <3>2, <3>3 DEF CompleteInv
    <3>5. \A x \in Index : vbstate'[x] \in {"DONE", "ERROR"} =>
            \E k \in 1 .. Len(done_list') : done_list'[k] = x
      BY <2>1, <3>2 DEF CompleteInv
    <3>6. CASE step' = "handover"
      <4>1. \A x \in Index : vbstate'[x] = "QUEUED" =>
              \E k \in 1 .. Len(todo') : todo'[k] = x
        <5>1. CASE start_streaming_called
          <6>1. todo' = <<b>>
            BY <1>2, <2>2, <3>6, <5>1 DEF QBUF, Continue, Return
          <6>2. Len(todo') = 1 /\ todo'[1] = b
            BY <6>1
          <6>3. \A x \in Index : vbstate'[x] = "QUEUED" => x = b
            BY <2>1, <3>2, <5>1 DEF CompleteInv
          <6> QED
            BY <6>2, <6>3
        <5>2. CASE ~start_streaming_called
          <6>1. todo' = queued_list'
            BY <1>2, <2>2, <3>1, <3>6, <5>2 DEF QBUF, Continue, Return
          <6> QED
            BY <3>4, <6>1
        <5> QED
          BY <5>1, <5>2
      <4>2. ~start_streaming_called => todo' # <<>>
        BY <1>2, <2>2, <3>1, <3>3, <3>6 DEF QBUF, Continue, Return
      <4> QED
        BY <2>1, <3>4, <3>5, <3>6, <4>1, <4>2 DEF CompleteInv
    <3>7. CASE step' # "handover"
      <4>1. step' = "none" /\ ~streaming /\ ~start_streaming_called
        BY <1>0, <1>2, <2>2, <3>7 DEF QBUF, Continue, Return, ControlInv
      <4> QED
        BY <2>1, <3>4, <3>5, <4>1 DEF CompleteInv, HandingOver
    <3> QED
      BY <3>6, <3>7
  <2>3. CASE ~(b < num_buffers /\ vbstate[b] = "DEQUEUED" /\ buf_prepare_ok)
    BY <1>2, <2>1, <2>3, QuietComplete DEF QBUF, Return
  <2> QED
    BY <2>2, <2>3
<1>3. ASSUME NEW c \in Callers, STREAMON(c) PROVE  CompleteInv'
  <2>1. /\ step = "none"
        /\ UNCHANGED <<num_buffers, vbstate, queued_list, done_list, active,
                       start_streaming_called>>
    BY <1>0, <1>3 DEF STREAMON, Enter, ControlInv
  <2>2. CASE ~streaming /\ num_buffers >= 1 /\ queued_list # <<>>
    <3>1. step' = "handover" /\ todo' = queued_list
      BY <1>3, <2>2 DEF STREAMON, Continue
    <3> QED
      BY <2>1, <2>2, <3>1 DEF CompleteInv
  <2>3. CASE ~(~streaming /\ num_buffers >= 1 /\ queued_list # <<>>)
    BY <1>3, <2>1, <2>3, QuietComplete DEF STREAMON, Return
  <2> QED
    BY <2>2, <2>3
<1>4. ASSUME dqbuf_take, done_list # <<>>, step = "none", step' = "none",
             UNCHANGED <<num_buffers, start_streaming_called>>
      PROVE  CompleteInv'
  <2> DEFINE b == Head(done_list)
  <2>1. b \in Index /\ done_list \in Seq(Index) /\ queued_list \in Seq(Index)
    BY <1>0, <1>4, ListOps DEF ListTypeOK
  <2>2. PICK n \in DOMAIN queued_list :
          queued_list[n] = b /\ queued_list' = RemoveAt(queued_list, n)
    BY <1>4 DEF dqbuf_take
  <2>3. n \in 1 .. Len(queued_list)
    BY <2>1, <2>2, ListIndex
  <2>4. done_list' = Tail(done_list) /\ vbstate' = [vbstate EXCEPT ![b] = "DEQUEUED"]
    BY <1>4 DEF dqbuf_take
  <2>5. vbstate'[b] = "DEQUEUED" /\ \A x \in Index : x # b => vbstate'[x] = vbstate[x]
    BY <1>0, <2>1, <2>4 DEF QueueTypeOK
  <2>6. ASSUME NEW x \in Index, vbstate'[x] # "DEQUEUED"
        PROVE  x < num_buffers' /\ \E k \in 1 .. Len(queued_list') : queued_list'[k] = x
    <3>1. x # b /\ vbstate[x] # "DEQUEUED"
      BY <2>5, <2>6
    <3>2. x < num_buffers /\ \E k \in 1 .. Len(queued_list) : queued_list[k] = x
      BY <3>1 DEF CompleteInv
    <3> HIDE DEF b
    <3> QED
      BY <1>4, <2>1, <2>2, <2>3, <3>1, <3>2, RemoveAtKeeps
  <2>7. ASSUME NEW x \in Index, vbstate'[x] \in {"DONE", "ERROR"}
        PROVE  \E k \in 1 .. Len(done_list') : done_list'[k] = x
    <3>1. x # b /\ vbstate[x] \in {"DONE", "ERROR"}
      BY <2>5, <2>7
    <3>2. \E k \in 1 .. Len(done_list) : done_list[k] = x
      BY <3>1 DEF CompleteInv
    <3> QED
      BY <1>4, <2>1, <2>4, <3>1, <3>2, TailKeeps
  <2>8. \A x \in Index : vbstate'[x] = "QUEUED" => vbstate[x] = "QUEUED"
    BY <2>5
  <2> QED
    BY <1>4, <2>6, <2>7, <2>8 DEF CompleteInv, HandingOver
<1>5. ASSUME NEW c \in Callers, NEW nonblocking \in BOOLEAN, DQBUF(c, nonblocking)
      PROVE  CompleteInv'
  <2>1. /\ step = "none" /\ step' = "none"
        /\ UNCHANGED <<num_buffers, start_streaming_called, active>>
    BY <1>0, <1>5 DEF DQBUF, Enter, Return, ControlInv
  <2>2. CASE streaming /\ done_list # <<>>
    BY <1>4, <1>5, <2>1, <2>2 DEF DQBUF
  <2>3. CASE ~(streaming /\ done_list # <<>>)
    BY <1>5, <2>1, <2>3, QuietComplete DEF DQBUF
  <2> QED
    BY <2>2, <2>3
<1>6. ASSUME NEW c \in Callers, dqbuf_wakeup(c) PROVE  CompleteInv'
  <2>1. /\ step = "none" /\ step' = "none"
        /\ UNCHANGED <<num_buffers, start_streaming_called, active>>
    BY <1>0, <1>6 DEF dqbuf_wakeup, Return, ControlInv
  <2>2. CASE streaming
    BY <1>4, <1>6, <2>1, <2>2 DEF dqbuf_wakeup
  <2>3. CASE ~streaming
    BY <1>6, <2>1, <2>3, QuietComplete DEF dqbuf_wakeup
  <2> QED
    BY <2>2, <2>3
<1>7. ASSUME NEW c \in Callers,
             dqbuf_interrupted(c) \/ STREAMOFF(c) \/ vb2_fop_release(c)
      PROVE  CompleteInv'
  <2>1. /\ step = "none" /\ step' \in {"none", "stopping", "cancel"}
        /\ UNCHANGED <<num_buffers, vbstate, queued_list, done_list, active,
                       start_streaming_called>>
    BY <1>0, <1>7
    DEF dqbuf_interrupted, STREAMOFF, vb2_fop_release, Enter, Return, Continue, ControlInv
  <2> QED
    BY <2>1, QuietComplete
<1>8. CASE enqueue_in_driver
  <2>1. Head(todo) \in Index
    BY <1>0, <1>8, ListOps DEF enqueue_in_driver, ListTypeOK
  <2>2. /\ vbstate'[Head(todo)] = "ACTIVE"
        /\ \A x \in Index : x # Head(todo) => vbstate'[x] = vbstate[x]
    BY <1>0, <1>8, <2>1 DEF enqueue_in_driver, QueueTypeOK
  <2>3. vbstate[Head(todo)] = "QUEUED"
    <3>1. Head(todo) = todo[1] /\ Len(todo) \in Nat /\ Len(todo) >= 1
      BY <1>0, <1>8, ListIndex DEF enqueue_in_driver, ListTypeOK
    <3> QED
      BY <1>0, <1>8, <3>1 DEF enqueue_in_driver, TodoInv
  <2>4. step = "handover" /\ step' = "queuing" /\ UNCHANGED
          <<num_buffers, queued_list, done_list, todo, active, start_streaming_called>>
    BY <1>8 DEF enqueue_in_driver
  <2> QED
    BY <2>1, <2>2, <2>3, <2>4 DEF CompleteInv, HandingOver
<1>9. CASE buf_queue
  <2>1. /\ step = "queuing" /\ todo # <<>> /\ todo \in Seq(Index)
        /\ UNCHANGED <<num_buffers, vbstate, queued_list, done_list, start_streaming_called>>
    BY <1>0, <1>9 DEF buf_queue, ControlInv, ListTypeOK
  <2>2. CASE UNCHANGED <<active, todo, step>>
    BY <2>1, <2>2, QuietComplete
  <2>3. CASE active' = Append(active, Head(todo)) /\ todo' = Tail(todo) /\ step' = "handover"
    <3>1. Head(todo) \in Index /\ Head(todo) = todo[1]
      BY <2>1, ListOps, ListIndex
    <3>2. active' # <<>>
      BY <1>0, <2>3, <3>1, AppendKeeps DEF ListTypeOK
    <3>3. ASSUME NEW x \in Index, vbstate[x] = "QUEUED"
          PROVE  \E k \in 1 .. Len(todo') : todo'[k] = x
      <4>1. x # Head(todo)
        BY <1>0, <2>1, <3>1, <3>3 DEF OwnInv
      <4>2. \E k \in 1 .. Len(todo) : todo[k] = x
        BY <2>1, <3>3 DEF CompleteInv, HandingOver
      <4> QED
        BY <2>1, <2>3, <4>1, <4>2, TailKeeps
    <3> QED
      BY <2>1, <2>3, <3>2, <3>3 DEF CompleteInv
  <2> QED
    BY <1>9, <2>2, <2>3 DEF buf_queue
<1>10. CASE handover_done
  <2>1. /\ step = "handover" /\ todo = <<>> /\ step' \in {"none", "starting"}
        /\ step' = "starting" <=> ~start_streaming_called
        /\ UNCHANGED <<num_buffers, vbstate, queued_list, done_list, active,
                       start_streaming_called>>
    BY <1>0, <1>10 DEF handover_done, Return, QueueTypeOK
  <2>2. \A b \in Index : vbstate[b] # "QUEUED"
    <3>1. ~\E k \in 1 .. Len(todo) : TRUE
      BY <2>1
    <3> QED
      BY <2>1, <3>1 DEF CompleteInv, HandingOver
  <2> QED
    BY <2>1, <2>2 DEF CompleteInv, HandingOver
<1>11. CASE start_streaming
  <2>1. \A b \in Index : vbstate[b] # "QUEUED"
    BY <1>11 DEF start_streaming, CompleteInv, HandingOver
  <2> QED
    BY <1>11, <2>1 DEF start_streaming, Return, CompleteInv, HandingOver
<1>12. CASE start_streaming_failed
  BY <1>12 DEF start_streaming_failed
<1>13. CASE stop_streaming_signal \/ stop_streaming_join
  <2>1. /\ step \in {"stopping", "joining"} /\ step' \in {"stopping", "joining", "draining"}
        /\ UNCHANGED <<num_buffers, vbstate, queued_list, done_list, active, todo,
                       start_streaming_called>>
    BY <1>13 DEF stop_streaming_signal, stop_streaming_join
  <2> QED
    BY <2>1, QuietComplete
<1>14. ASSUME NEW b \in Index, NEW r \in {"DONE", "ERROR"}, vb2_buffer_done(b, r),
              UNCHANGED <<num_buffers, queued_list, todo, step, start_streaming_called>>,
              step \in {"handover", "starting"} => UNCHANGED active \/ start_streaming_called,
              step # "starting" \/ UNCHANGED active
       PROVE  CompleteInv'
  <2>1. CASE vbstate[b] # "ACTIVE"
    <3>1. UNCHANGED <<vbstate, done_list>>
      BY <1>14, <2>1 DEF vb2_buffer_done
    <3> QED
      BY <1>14, <3>1 DEF CompleteInv, HandingOver
  <2>2. CASE vbstate[b] = "ACTIVE"
    <3>1. vbstate' = [vbstate EXCEPT ![b] = r] /\ done_list' = Append(done_list, b)
      BY <1>14, <2>2 DEF vb2_buffer_done
    <3>2. vbstate'[b] = r /\ \A x \in Index : x # b => vbstate'[x] = vbstate[x]
      BY <1>0, <3>1 DEF QueueTypeOK
    <3>3. /\ \E k \in 1 .. Len(done_list') : done_list'[k] = b
          /\ \A x : (\E k \in 1 .. Len(done_list) : done_list[k] = x)
                      => \E k \in 1 .. Len(done_list') : done_list'[k] = x
      <4>1. done_list \in Seq(Index)
        BY <1>0 DEF ListTypeOK
      <4> DEFINE t == Append(done_list, b)
      <4>2. /\ \E k \in 1 .. Len(t) : t[k] = b
            /\ \A x : (\E k \in 1 .. Len(done_list) : done_list[k] = x)
                        => \E k \in 1 .. Len(t) : t[k] = x
            /\ t # <<>>
        BY <4>1, AppendKeeps
      <4>3. done_list' = t
        BY <3>1
      <4> HIDE DEF t
      <4> QED
        BY <4>2, <4>3
    <3>4. \A x \in Index : vbstate'[x] # "DEQUEUED" =>
            x < num_buffers /\ \E k \in 1 .. Len(queued_list) : queued_list[k] = x
      BY <2>2, <3>2 DEF CompleteInv
    <3>5. \A x \in Index : vbstate'[x] \in {"DONE", "ERROR"} =>
            \E k \in 1 .. Len(done_list') : done_list'[k] = x
      BY <3>2, <3>3 DEF CompleteInv
    <3>6. \A x \in Index : vbstate'[x] = "QUEUED" => vbstate[x] = "QUEUED"
      BY <3>2
    <3> QED
      BY <1>14, <3>4, <3>5, <3>6 DEF CompleteInv, HandingOver
  <2> QED
    BY <2>1, <2>2
<1>15. CASE stop_streaming_drain
  <2>1. CASE active = <<>>
    BY <1>15, <2>1, QuietComplete DEF stop_streaming_drain
  <2>2. CASE active # <<>>
    <3>1. Head(active) \in Index
      BY <1>0, <2>2, ListOps DEF ListTypeOK
    <3> QED
      BY <1>14, <1>15, <2>2, <3>1 DEF stop_streaming_drain
  <2> QED
    BY <2>1, <2>2
<1>16. CASE queue_cancel
  BY <1>16 DEF queue_cancel, Return, CompleteInv, HandingOver
<1>17. CASE fgt_check \/ fgt_lock \/ fgt_fill \/ fgt_sleep
  BY <1>17, QuietComplete DEF fgt_check, fgt_lock, fgt_fill, fgt_sleep
<1>18. CASE fgt_take
  <2>1. start_streaming_called /\ step # "starting"
    BY <1>0, <1>18 DEF fgt_take, ThreadInv, ControlInv
  <2>2. UNCHANGED <<num_buffers, vbstate, queued_list, done_list, todo, step,
                    start_streaming_called>>
    BY <1>18 DEF fgt_take
  <2> QED
    BY <2>1, <2>2 DEF CompleteInv, HandingOver
<1>19. CASE fgt_done
  <2>1. sbuf \in Index
    BY <1>0, <1>19 DEF fgt_done, ThreadInv, DeviceTypeOK
  <2> QED
    BY <1>14, <1>19, <2>1 DEF fgt_done
<1>20. CASE UNCHANGED vars
  BY <1>20, QuietComplete DEF vars
<1> QED
  BY <1>1, <1>2, <1>3, <1>5, <1>6, <1>7, <1>8, <1>9, <1>10, <1>11, <1>12, <1>13,
     <1>15, <1>16, <1>17, <1>18, <1>19, <1>20
  DEF Next, Ioctl, IoctlStep, frame_generation_thread, Oopsed

(* v4l2_init leaves the lists empty and every buffer with user space.      *)
LEMMA ListsStartComplete == Init => CompleteInv
  BY DEF Init, v4l2_init_device, CompleteInv, HandingOver

=============================================================================
