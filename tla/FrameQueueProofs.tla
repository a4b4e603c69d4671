-------------------------- MODULE FrameQueueProofs --------------------------
(***************************************************************************)
(* With no injected failure the driver is a FIFO: FakeVid implements       *)
(* FrameQueue, for any set of callers and any number of buffers.           *)
(*                                                                         *)
(* The order of the buffers is kept in four places: what is done, what the *)
(* thread has in its hand, dmaq->active, and what an ioctl has yet to hand *)
(* over.  FifoInv says that these, one after the other, are queued_list;   *)
(* every step of the driver moves a buffer from the front of one place to  *)
(* the end of the next.                                                    *)
(***************************************************************************)
EXTENDS FakeVidProofs

-----------------------------------------------------------------------------
(* Lemmas on sequences of buffers.                                         *)

(* The laws of concatenation.                                              *)
LEMMA ConcatLaws ==
  /\ \A s \in Seq(Index) : <<>> \o s = s /\ s \o <<>> = s
  /\ \A s, t \in Seq(Index) : s \o t \in Seq(Index)
  /\ \A s, t, u \in Seq(Index) : (s \o t) \o u = s \o (t \o u)
  /\ \A s \in Seq(Index), b \in Index : Append(s, b) = s \o <<b>>
<1>1. \A s \in Seq(Index) : <<>> \o s = s /\ s \o <<>> = s
  BY ConcatEmptySeq
<1>2. \A s, t \in Seq(Index) : s \o t \in Seq(Index)
  BY ConcatProperties
<1>3. \A s, t, u \in Seq(Index) : (s \o t) \o u = s \o (t \o u)
  BY ConcatAssociative
<1>4. \A s \in Seq(Index), b \in Index : Append(s, b) = s \o <<b>>
  BY AppendIsConcat
<1> QED
  BY <1>1, <1>2, <1>3, <1>4

(* A sequence with a first element, and what its head and tail are.        *)
LEMMA FirstElement ==
  ASSUME NEW b \in Index, NEW r \in Seq(Index)
  PROVE  /\ <<b>> \o r # <<>>
         /\ Head(<<b>> \o r) = b
         /\ Tail(<<b>> \o r) = r
<1> DEFINE s == <<b>> \o r
<1>1. /\ <<b>> \in Seq(Index) /\ Len(<<b>>) = 1 /\ <<b>>[1] = b
      /\ Len(r) \in Nat
  BY ListOps, LenProperties
<1>2. /\ s \in Seq(Index) /\ Len(s) = 1 + Len(r)
      /\ \A k \in 1 .. 1 + Len(r) : s[k] = IF k <= 1 THEN <<b>>[k] ELSE r[k - 1]
  BY <1>1, ConcatProperties
<1> HIDE DEF s
<1>3. s # <<>>
  BY <1>1, <1>2, EmptySeq
<1>4. /\ Head(s) = s[1] /\ Len(Tail(s)) = Len(s) - 1 /\ Tail(s) \in Seq(Index)
      /\ \A k \in 1 .. Len(s) - 1 : Tail(s)[k] = s[k + 1]
  BY <1>2, <1>3, ListIndex, ListOps
<1>5. Head(s) = b
  BY <1>1, <1>2, <1>4
<1>6. Len(Tail(s)) = Len(r) /\ \A k \in 1 .. Len(Tail(s)) : Tail(s)[k] = r[k]
  <2>1. Len(Tail(s)) = Len(r)
    BY <1>1, <1>2, <1>4
  <2>2. ASSUME NEW k \in 1 .. Len(r) PROVE  Tail(s)[k] = r[k]
    <3>1. k + 1 \in 1 .. 1 + Len(r) /\ ~(k + 1 <= 1) /\ (k + 1) - 1 = k /\ k \in 1 .. Len(s) - 1
      BY <1>1, <1>2
    <3> QED
      BY <1>2, <1>4, <3>1
  <2> QED
    BY <2>1, <2>2
<1>7. Tail(s) = r
  BY <1>4, <1>6, SeqEqual
<1> QED
  BY <1>3, <1>5, <1>7 DEF s

(* A list that is not empty is its head and its tail.                      *)
LEMMA Unfold ==
  ASSUME NEW s \in Seq(Index), s # <<>>
  PROVE  Head(s) \in Index /\ Tail(s) \in Seq(Index) /\ s = <<Head(s)>> \o Tail(s)
<1>1. Head(s) \in Index /\ Tail(s) \in Seq(Index) /\ <<Head(s)>> \in Seq(Index)
  BY ListOps
<1>2. /\ Len(s) \in Nat /\ Len(s) >= 1 /\ Head(s) = s[1] /\ Len(Tail(s)) = Len(s) - 1
      /\ \A k \in 1 .. Len(s) - 1 : Tail(s)[k] = s[k + 1]
  BY ListIndex
<1>3. /\ <<Head(s)>> \o Tail(s) \in Seq(Index)
      /\ Len(<<Head(s)>> \o Tail(s)) = 1 + Len(Tail(s))
      /\ \A k \in 1 .. 1 + Len(Tail(s)) :
           (<<Head(s)>> \o Tail(s))[k] =
             IF k <= 1 THEN <<Head(s)>>[k] ELSE Tail(s)[k - 1]
  <2>1. Len(<<Head(s)>>) = 1
    OBVIOUS
  <2> QED
    BY <1>1, <2>1, ConcatProperties
<1> DEFINE t == <<Head(s)>> \o Tail(s)
<1>4. t \in Seq(Index) /\ Len(t) = Len(s)
  BY <1>2, <1>3
<1>5. ASSUME NEW k \in 1 .. Len(s) PROVE  s[k] = t[k]
  <2>1. CASE k = 1
    BY <1>2, <1>3, <2>1
  <2>2. CASE k # 1
    <3>1. k \in 1 .. 1 + Len(Tail(s)) /\ ~(k <= 1) /\ k - 1 \in 1 .. Len(s) - 1
          /\ (k - 1) + 1 = k
      BY <1>2, <2>2
    <3> QED
      BY <1>2, <1>3, <3>1
  <2> QED
    BY <2>1, <2>2
<1> HIDE DEF t
<1>6. s = t
  BY <1>4, <1>5, SeqEqual
<1> QED
  BY <1>1, <1>6 DEF t

(* Appending to three sequences is appending to the last of them.          *)
LEMMA AppendToRest ==
  ASSUME NEW d \in Seq(Index), NEW h \in Seq(Index), NEW a \in Seq(Index), NEW b \in Index
  PROVE  Append(d \o (h \o a), b) = d \o (h \o (a \o <<b>>))
<1>1. h \o a \in Seq(Index) /\ d \o (h \o a) \in Seq(Index) /\ <<b>> \in Seq(Index)
  BY ConcatLaws, ListOps
<1>2. Append(d \o (h \o a), b) = (d \o (h \o a)) \o <<b>>
  BY <1>1, ConcatLaws
<1>3. (d \o (h \o a)) \o <<b>> = d \o ((h \o a) \o <<b>>)
  BY <1>1, ConcatAssociative
<1>4. (h \o a) \o <<b>> = h \o (a \o <<b>>)
  BY <1>1, ConcatAssociative
<1> QED
  BY <1>2, <1>3, <1>4

(* Moving the head of one sequence to the end of the one before it.        *)
LEMMA MoveHead ==
  ASSUME NEW a \in Seq(Index), NEW t \in Seq(Index), t # <<>>
  PROVE  Append(a, Head(t)) \o Tail(t) = a \o t
<1>1. /\ Head(t) \in Index /\ Tail(t) \in Seq(Index) /\ t = <<Head(t)>> \o Tail(t)
      /\ <<Head(t)>> \in Seq(Index)
  BY Unfold, ListOps
<1>2. Append(a, Head(t)) = a \o <<Head(t)>>
  BY <1>1, ConcatLaws
<1>3. (a \o <<Head(t)>>) \o Tail(t) = a \o (<<Head(t)>> \o Tail(t))
  BY <1>1, ConcatAssociative
<1> QED
  BY <1>1, <1>2, <1>3

(* What comes after the first d of a sequence.                             *)
LEMMA Suffix ==
  ASSUME NEW d \in Seq(Index), NEW r \in Seq(Index)
  PROVE  SubSeq(d \o r, Len(d) + 1, Len(d \o r)) = r
<1> DEFINE s == d \o r
<1>1. /\ s \in Seq(Index) /\ Len(s) = Len(d) + Len(r) /\ Len(d) \in Nat /\ Len(r) \in Nat
      /\ \A k \in 1 .. Len(d) + Len(r) : s[k] = IF k <= Len(d) THEN d[k] ELSE r[k - Len(d)]
  BY ConcatProperties, LenProperties
<1> HIDE DEF s
<1>2. \A k \in Len(d) + 1 .. Len(s) : s[k] \in Index
  <2>1. \A k \in 1 .. Len(s) : s[k] \in Index
    BY <1>1, ListIndex
  <2> QED
    BY <1>1, <2>1
<1> DEFINE m == Len(d) + 1
           n == Len(s)
           p == SubSeq(s, m, n)
<1>3. m \in Int /\ n \in Int
  BY <1>1
<1>4. /\ p \in Seq(Index)
      /\ Len(p) = IF m <= n THEN n - m + 1 ELSE 0
      /\ \A k \in 1 .. n - m + 1 : p[k] = s[m + k - 1]
  <2> HIDE DEF m, n
  <2>1. \A k \in m .. n : s[k] \in Index
    BY <1>2 DEF m, n
  <2> QED
    BY <1>3, <2>1, SubSeqProperties
<1> HIDE DEF p
<1>5. Len(p) = Len(r) /\ n - m + 1 = Len(r)
  BY <1>1, <1>4
<1>6. ASSUME NEW k \in 1 .. Len(r) PROVE  p[k] = r[k]
  <2>1. /\ m + k - 1 = Len(d) + k /\ Len(d) + k \in 1 .. Len(d) + Len(r)
        /\ ~(Len(d) + k <= Len(d)) /\ (Len(d) + k) - Len(d) = k
    BY <1>1
  <2>2. p[k] = s[m + k - 1]
    BY <1>4, <1>5
  <2>3. s[Len(d) + k] = r[k]
    BY <1>1, <2>1
  <2> QED
    BY <2>1, <2>2, <2>3
<1>7. p = r
  BY <1>4, <1>5, <1>6, SeqEqual
<1> QED
  BY <1>7 DEF p, s

(* Deleting the first node.                                                *)
LEMMA DeleteHead ==
  ASSUME NEW s \in Seq(Index), s # <<>>
  PROVE  RemoveAt(s, 1) = Tail(s)
<1>1. /\ Len(s) \in Nat /\ Len(s) >= 1 /\ Len(Tail(s)) = Len(s) - 1
      /\ \A k \in 1 .. Len(s) - 1 : Tail(s)[k] = s[k + 1]
  BY ListIndex
<1>2. 1 \in 1 .. Len(s)
  BY <1>1
<1>3. PICK r \in Seq(Index) :
        /\ r = RemoveAt(s, 1) /\ Len(r) = Len(s) - 1
        /\ \A k \in 1 .. Len(s) - 1 : r[k] = IF k < 1 THEN s[k] ELSE s[k + 1]
  BY <1>2, RemoveAtProperties
<1>4. PICK t \in Seq(Index) : t = Tail(s)
  BY ListOps
<1>5. Len(r) = Len(t) /\ \A k \in 1 .. Len(r) : r[k] = t[k]
  <2>1. Len(t) = Len(s) - 1 /\ \A k \in 1 .. Len(s) - 1 : t[k] = s[k + 1]
    BY <1>1, <1>4
  <2>2. \A k \in 1 .. Len(s) - 1 : ~(k < 1)
    BY <1>1
  <2>3. \A k \in 1 .. Len(s) - 1 : r[k] = s[k + 1]
    BY <1>3, <2>2
  <2> QED
    BY <1>3, <2>1, <2>3
<1>6. r = t
  BY <1>5, SeqEqual
<1> QED
  BY <1>3, <1>4, <1>6

-----------------------------------------------------------------------------
(* The places of a queued buffer, in the order it passes through them.     *)

Hand == IF sbuf = NoBuf THEN <<>> ELSE <<sbuf>>

Started == start_streaming_called \/ step = "starting"

Handing ==
  IF step \in {"handover", "queuing"} THEN todo
  ELSE IF Started THEN <<>> ELSE queued_list

Rest == Hand \o (active \o Handing)

Pending == SubSeq(queued_list, Len(done_list) + 1, Len(queued_list))

(* Without failures a buffer is done only on a started queue, and the      *)
(* places, one after the other, are queued_list.                           *)
FifoInv ==
  /\ ~start_failed /\ tpc # "failed"
  /\ ~start_streaming_called => done_list = <<>>
  /\ queued_list = done_list \o Rest

(* What the driver has not completed is a sequence of buffers.             *)
LEMMA RestType ==
  ASSUME TypeOK
  PROVE  /\ Hand \in Seq(Index) /\ active \in Seq(Index) /\ Handing \in Seq(Index)
         /\ Rest \in Seq(Index) /\ done_list \in Seq(Index) /\ queued_list \in Seq(Index)
<1>1. active \in Seq(Index) /\ done_list \in Seq(Index) /\ queued_list \in Seq(Index)
  BY DEF TypeOK, ListTypeOK
<1>2. Hand \in Seq(Index)
  BY ListOps DEF Hand, TypeOK, DeviceTypeOK
<1>3. Handing \in Seq(Index)
  BY ListOps DEF Handing, TypeOK, ListTypeOK
<1>4. Rest \in Seq(Index)
  BY <1>1, <1>2, <1>3, ConcatLaws DEF Rest
<1> QED
  BY <1>1, <1>2, <1>3, <1>4

(* It is what FrameQueue calls pending.                                    *)
LEMMA PendingIsRest == TypeOK /\ queued_list = done_list \o Rest => Pending = Rest
  BY RestType, Suffix DEF Pending

(* The same after a step.                                                  *)
LEMMA PendingIsRestNext == (TypeOK /\ queued_list = done_list \o Rest => Pending = Rest)'
  BY PendingIsRest, PTL

-----------------------------------------------------------------------------
(* The steps of FrameQueue, as the driver's lists take them.               *)

InOrder == queued_list = done_list \o Rest

(* Nothing is queued, completed or taken.                                  *)
LEMMA QuietStep ==
  ASSUME InOrder, Rest' = Rest, UNCHANGED <<queued_list, done_list>>
  PROVE  InOrder' /\ UNCHANGED <<Pending, done_list>>
  BY DEF InOrder, Pending

(* A buffer that is not queued is.                                         *)
LEMMA QueueStep ==
  ASSUME TypeOK, InOrder, NEW b \in Index, UNCHANGED done_list,
         queued_list' = Append(queued_list, b),
         \A k \in 1 .. Len(queued_list) : queued_list[k] # b
  PROVE  FQ!Queue(b)
<1>1. /\ Rest \in Seq(Index) /\ done_list \in Seq(Index) /\ queued_list \in Seq(Index)
      /\ Len(Rest) \in Nat /\ Len(done_list) \in Nat
  BY RestType, LenProperties
<1>2. Pending = Rest
  BY PendingIsRest DEF InOrder
<1>3. Append(Rest, b) \in Seq(Index) /\ Append(Rest, b) = Rest \o <<b>>
  BY <1>1, ListOps, ConcatLaws
<1>4. queued_list' = done_list \o Append(Rest, b)
  <2>1. queued_list' = (done_list \o Rest) \o <<b>>
    BY <1>1, ConcatLaws DEF InOrder
  <2>2. <<b>> \in Seq(Index)
    BY ListOps
  <2> QED
    BY <1>1, <1>3, <2>1, <2>2, ConcatLaws
<1>5. Pending' = Append(Rest, b)
  BY <1>1, <1>3, <1>4, Suffix DEF Pending
<1>6. /\ Len(queued_list) = Len(done_list) + Len(Rest)
      /\ \A k \in 1 .. Len(done_list) + Len(Rest) :
           queued_list[k] = IF k <= Len(done_list) THEN done_list[k]
                            ELSE Rest[k - Len(done_list)]
  BY <1>1, ConcatProperties DEF InOrder
<1>7. \A k \in 1 .. Len(done_list) : done_list[k] # b
  <2> SUFFICES ASSUME NEW k \in 1 .. Len(done_list) PROVE  done_list[k] # b
    OBVIOUS
  <2>1. k \in 1 .. Len(done_list) + Len(Rest) /\ k <= Len(done_list)
    BY <1>1
  <2> QED
    BY <1>6, <2>1
<1>8. \A k \in 1 .. Len(Rest) : Rest[k] # b
  <2> SUFFICES ASSUME NEW k \in 1 .. Len(Rest) PROVE  Rest[k] # b
    OBVIOUS
  <2>1. /\ Len(done_list) + k \in 1 .. Len(done_list) + Len(Rest)
        /\ ~(Len(done_list) + k <= Len(done_list))
        /\ (Len(done_list) + k) - Len(done_list) = k
    BY <1>1
  <2> QED
    BY <1>6, <2>1
<1>9. b \notin FQ!ToSet(Rest) /\ b \notin FQ!ToSet(done_list)
  <2>1. DOMAIN Rest = 1 .. Len(Rest) /\ DOMAIN done_list = 1 .. Len(done_list)
    BY <1>1, LenProperties
  <2> QED
    BY <1>7, <1>8, <2>1 DEF FQ!ToSet
<1>10. b \notin FQ!ToSet(Pending) \cup FQ!ToSet(done_list)
  BY <1>2, <1>9
<1>11. Pending' = Append(Pending, b)
  BY <1>2, <1>5
<1> QED
  BY <1>10, <1>11 DEF FQ!Queue, Pending

(* The oldest buffer the driver has is completed.                          *)
LEMMA CompleteStep ==
  ASSUME TypeOK, TypeOK', InOrder, NEW b \in Index, UNCHANGED queued_list,
         done_list' = Append(done_list, b), Rest = <<b>> \o Rest', Rest' \in Seq(Index)
  PROVE  InOrder' /\ FQ!Complete
<1>1. Rest \in Seq(Index) /\ done_list \in Seq(Index) /\ <<b>> \in Seq(Index)
  BY RestType, ListOps
<1>2. done_list' = done_list \o <<b>>
  BY <1>1, ConcatLaws
<1>3. InOrder'
  BY <1>1, <1>2, ConcatLaws DEF InOrder
<1>4. Pending = Rest /\ Pending' = Rest'
  BY <1>3, PendingIsRest, PendingIsRestNext DEF InOrder
<1>5. Rest # <<>> /\ Head(Rest) = b /\ Tail(Rest) = Rest'
  BY FirstElement
<1>6. Pending # <<>> /\ Pending' = Tail(Pending) /\ done_list' = Append(done_list, Head(Pending))
  BY <1>4, <1>5
<1> QED
  BY <1>3, <1>6 DEF FQ!Complete, Pending

(* The oldest completed buffer is dequeued: as queued_list is in order, it *)
(* is the first node there.                                                *)
LEMMA TakeStep ==
  ASSUME TypeOK, TypeOK', InOrder, QueueInv, dqbuf_take, done_list # <<>>, Rest' = Rest
  PROVE  InOrder' /\ FQ!Take
<1>1. Rest \in Seq(Index) /\ done_list \in Seq(Index) /\ queued_list \in Seq(Index)
  BY RestType
<1> DEFINE b == Head(done_list)
           t == Tail(done_list)
<1>2. b \in Index /\ t \in Seq(Index) /\ done_list = <<b>> \o t /\ <<b>> \in Seq(Index)
  BY <1>1, Unfold, ListOps
<1>3. queued_list = <<b>> \o (t \o Rest) /\ t \o Rest \in Seq(Index)
  <2> HIDE DEF b, t
  <2> QED
    BY <1>1, <1>2, ConcatLaws DEF InOrder
<1>4. queued_list # <<>> /\ Head(queued_list) = b /\ Tail(queued_list) = t \o Rest
  <2> HIDE DEF b, t
  <2> QED
    BY <1>2, <1>3, FirstElement
<1>5. /\ queued_list[1] = b /\ DOMAIN queued_list = 1 .. Len(queued_list)
      /\ 1 \in 1 .. Len(queued_list)
  BY <1>1, <1>4, ListIndex
<1>6. PICK k \in DOMAIN queued_list :
        queued_list[k] = b /\ queued_list' = RemoveAt(queued_list, k)
  BY DEF dqbuf_take
<1>7. k = 1
  BY <1>5, <1>6 DEF QueueInv
<1>8. queued_list' = t \o Rest
  BY <1>1, <1>4, <1>6, <1>7, DeleteHead
<1>9. done_list' = t
  BY DEF dqbuf_take
<1>10. InOrder'
  BY <1>8, <1>9 DEF InOrder
<1>11. Pending = Rest /\ Pending' = Rest
  BY <1>10, PendingIsRest, PendingIsRestNext DEF InOrder
<1> QED
  BY <1>9, <1>10, <1>11 DEF FQ!Take, Pending

(* Every list is emptied.                                                  *)
LEMMA ResetStep ==
  ASSUME queued_list' = <<>>, done_list' = <<>>, active' = <<>>, sbuf' = NoBuf,
         step' = "none"
  PROVE  InOrder' /\ FQ!Reset
<1>1. Hand' = <<>> /\ Handing' = <<>>
  BY DEF Hand, Handing
<1>2. <<>> \in Seq(Index) /\ \A s \in Seq(Index) : <<>> \o s = s
  BY ListOps, ConcatLaws
<1>3. Rest' = <<>>
  BY <1>1, <1>2 DEF Rest
<1>4. InOrder'
  BY <1>2, <1>3 DEF InOrder
<1>5. Pending' = <<>>
  <2>1. done_list' \o Rest' = <<>>
    BY <1>2, <1>3
  <2> QED
    BY <1>2, <2>1, Suffix DEF Pending
<1> QED
  BY <1>4, <1>5 DEF FQ!Reset, Pending

-----------------------------------------------------------------------------
(* Every step of the driver keeps the order, and is a step of FrameQueue   *)
(* or changes nothing that FrameQueue sees.                                *)

(* Without faults nothing fails.                                           *)
LEMMA NoFailure ==
  Faults = {} /\ ~start_failed /\ tpc # "failed" /\ [Next]_vars
    => ~start_failed' /\ tpc' # "failed"
<1> SUFFICES ASSUME Faults = {}, ~start_failed, tpc # "failed", [Next]_vars
             PROVE  ~start_failed' /\ tpc' # "failed"
  OBVIOUS
<1>1. ~start_failed'
  BY DEF Next, Ioctl, IoctlStep, frame_generation_thread, Oopsed, REQBUFS, QBUF,
      STREAMON, DQBUF, dqbuf_wakeup, dqbuf_interrupted, STREAMOFF,
      vb2_fop_release, enqueue_in_driver, buf_queue, handover_done,
      start_streaming, start_streaming_failed, stop_streaming_signal,
      stop_streaming_join, stop_streaming_drain, queue_cancel, fgt_check,
      fgt_lock, fgt_take, fgt_fill, fgt_done, fgt_sleep, vars, faultVars, threadVars
<1>2. tpc' # "failed"
  BY DEF Next, Ioctl, IoctlStep, frame_generation_thread, Oopsed, REQBUFS, QBUF,
      STREAMON, DQBUF, dqbuf_wakeup, dqbuf_interrupted, STREAMOFF,
      vb2_fop_release, enqueue_in_driver, buf_queue, handover_done,
      start_streaming, start_streaming_failed, stop_streaming_signal,
      stop_streaming_join, stop_streaming_drain, queue_cancel, fgt_check,
      fgt_lock, fgt_take, fgt_fill, fgt_done, fgt_sleep, vars, faultVars, threadVars
<1> QED
  BY <1>1, <1>2

Move ==
  /\ InOrder'
  /\ FQ!Next \/ UNCHANGED <<Pending, done_list>>
  /\ ~start_streaming_called' => done_list' = <<>>

(* One case per action of the driver.                                      *)
LEMMA FifoStep ==
  ASSUME Faults = {}, Inv, Inv', FifoInv, [Next]_vars
  PROVE  FifoInv' /\ Move
<1>0. ~start_failed' /\ tpc' # "failed"
  BY NoFailure DEF FifoInv
<1> SUFFICES Move
  BY <1>0 DEF FifoInv, Move, InOrder
<1> USE DEF queueVars, threadVars, ioctlVars, faultVars
<1>1. /\ TypeOK /\ TypeOK' /\ ControlInv /\ ThreadInv /\ QueueInv /\ TodoInv /\ OwnInv
      /\ InOrder /\ tpc # "failed" /\ (~start_streaming_called => done_list = <<>>)
  BY DEF Inv, FifoInv, InOrder
<1>2. /\ \A b \in Index : FQ!Queue(b) => FQ!Next
      /\ FQ!Complete \/ FQ!Take \/ FQ!Reset => FQ!Next
  BY DEF FQ!Next
<1>3. /\ Hand \in Seq(Index) /\ active \in Seq(Index) /\ Handing \in Seq(Index)
      /\ Rest \in Seq(Index) /\ done_list \in Seq(Index) /\ queued_list \in Seq(Index)
      /\ todo \in Seq(Index)
  BY <1>1, RestType DEF TypeOK, ListTypeOK
<1>4. ASSUME UNCHANGED <<queued_list, done_list, start_streaming_called>>, Rest' = Rest
      PROVE  Move
  BY <1>1, <1>4, QuietStep DEF Move
<1>5. ASSUME UNCHANGED <<queued_list, done_list, start_streaming_called, sbuf, active>>,
             Handing' = Handing
      PROVE  Move
  BY <1>4, <1>5 DEF Rest, Hand
(* Outside an ioctl of a queue that is not started, all places but the     *)
(* last are empty.                                                         *)
<1>6. ASSUME step = "none", ~start_streaming_called
      PROVE  active = <<>> /\ sbuf = NoBuf /\ done_list = <<>>
  BY <1>1, <1>6 DEF ThreadInv, OwnInv, HandingOver
<1>7. ASSUME NEW c \in Callers, NEW n \in 0 .. MaxBuffers, REQBUFS(c, n) PROVE  Move
  <2>1. step = "none" /\ step' = "none" /\ UNCHANGED <<active, sbuf>>
    BY <1>1, <1>7 DEF REQBUFS, Enter, Return, ControlInv
  <2>2. CASE streaming
    BY <1>5, <1>7, <2>1, <2>2 DEF REQBUFS, Handing, Started
  <2>3. CASE ~streaming
    <3>1. queued_list' = <<>> /\ done_list' = <<>>
      BY <1>7, <2>3 DEF REQBUFS
    <3>2. active' = <<>> /\ sbuf' = NoBuf
      BY <1>1, <1>6, <2>1, <2>3 DEF ControlInv
    <3> QED
      BY <1>2, <2>1, <3>1, <3>2, ResetStep DEF Move
  <2> QED
    BY <2>2, <2>3
<1>8. ASSUME NEW c \in Callers, NEW b \in Index, QBUF(c, b) PROVE  Move
  <2>1. step = "none" /\ UNCHANGED <<done_list, active, sbuf, start_streaming_called>>
    BY <1>1, <1>8 DEF QBUF, Enter, ControlInv
  <2>2. CASE b < num_buffers /\ vbstate[b] = "DEQUEUED" /\ buf_prepare_ok
    <3>1. queued_list' = Append(queued_list, b)
      BY <1>8, <2>2 DEF QBUF
    <3>2. \A k \in 1 .. Len(queued_list) : queued_list[k] # b
      BY <1>1, <2>2 DEF QueueInv
    <3>3. FQ!Next
      BY <1>1, <1>2, <2>1, <3>1, <3>2, QueueStep
    <3>4. InOrder'
      <4>1. CASE start_streaming_called
        <5>1. todo' = <<b>> /\ step' = "handover"
          BY <1>1, <1>8, <2>2, <4>1 DEF QBUF, Continue, ControlInv
        <5>2. Handing = <<>> /\ Handing' = <<b>> /\ Hand' = Hand
          BY <2>1, <4>1, <5>1 DEF Handing, Hand, Started
        <5>3. Rest = Hand \o active /\ Rest' = Hand \o (active \o <<b>>)
          BY <1>3, <2>1, <5>2, ConcatLaws DEF Rest
        <5>4. queued_list' = done_list \o (Hand \o (active \o <<b>>))
          <6>1. queued_list' = Append(done_list \o (Hand \o active), b)
            BY <1>1, <3>1, <5>3 DEF InOrder
          <6>2. Append(done_list \o (Hand \o active), b)
                  = done_list \o (Hand \o (active \o <<b>>))
            <7>1. done_list \in Seq(Index) /\ Hand \in Seq(Index) /\ active \in Seq(Index)
              BY <1>3
            <7> QED
              BY <7>1, AppendToRest, Zenon
          <6> QED
            BY <6>1, <6>2
        <5> QED
          BY <2>1, <5>3, <5>4 DEF InOrder
      <4>2. CASE ~start_streaming_called
        <5>1. Handing' = queued_list'
          BY <1>8, <2>1, <2>2, <3>1, <4>2 DEF QBUF, Continue, Return, Handing, Started
        <5>2. Hand' = <<>> /\ active' = <<>> /\ done_list' = <<>>
          BY <1>6, <2>1, <4>2 DEF Hand
        <5>3. queued_list' \in Seq(Index)
          BY <1>3, <3>1, ListOps
        <5> QED
          BY <5>1, <5>2, <5>3, ConcatLaws DEF InOrder, Rest
      <4> QED
        BY <4>1, <4>2
    <3> QED
      BY <1>1, <2>1, <3>3, <3>4 DEF Move
  <2>3. CASE ~(b < num_buffers /\ vbstate[b] = "DEQUEUED" /\ buf_prepare_ok)
    <3>1. UNCHANGED queued_list /\ step' = "none"
      BY <1>8, <2>3 DEF QBUF, Return
    <3> QED
      BY <1>5, <2>1, <3>1 DEF Handing, Started
  <2> QED
    BY <2>2, <2>3
<1>9. ASSUME NEW c \in Callers, STREAMON(c) PROVE  Move
  <2>1. /\ step = "none"
        /\ UNCHANGED <<queued_list, done_list, active, sbuf, start_streaming_called>>
    BY <1>1, <1>9 DEF STREAMON, Enter, ControlInv
  <2>2. Handing' = Handing
    BY <1>1, <1>9, <2>1 DEF STREAMON, Continue, Return, Handing, Started, ControlInv
  <2> QED
    BY <1>5, <2>1, <2>2
<1>10. ASSUME dqbuf_take, done_list # <<>>, step = "none", step' = "none",
              UNCHANGED <<active, sbuf, start_streaming_called>>
       PROVE  Move
  <2>1. start_streaming_called
    BY <1>1, <1>10
  <2>2. Rest' = Rest
    BY <1>10, <2>1 DEF Rest, Hand, Handing, Started
  <2> QED
    BY <1>1, <1>2, <1>10, <2>1, <2>2, TakeStep DEF Move
<1>11. ASSUME NEW c \in Callers, NEW nonblocking \in BOOLEAN, DQBUF(c, nonblocking)
       PROVE  Move
  <2>1. /\ step = "none" /\ UNCHANGED <<active, sbuf, start_streaming_called>>
        /\ step' = "none"
    BY <1>1, <1>11 DEF DQBUF, Enter, Return, ControlInv
  <2>2. CASE streaming /\ done_list # <<>>
    BY <1>10, <1>11, <2>1, <2>2 DEF DQBUF
  <2>3. CASE ~(streaming /\ done_list # <<>>)
    <3>1. UNCHANGED <<queued_list, done_list>>
      BY <1>11, <2>3 DEF DQBUF
    <3> QED
      BY <1>5, <2>1, <3>1 DEF Handing, Started
  <2> QED
    BY <2>2, <2>3
<1>12. ASSUME NEW c \in Callers, dqbuf_wakeup(c) PROVE  Move
  <2>1. /\ step = "none" /\ UNCHANGED <<active, sbuf, start_streaming_called>>
        /\ step' = "none"
    BY <1>1, <1>12 DEF dqbuf_wakeup, Return, ControlInv
  <2>2. CASE streaming
    BY <1>10, <1>12, <2>1, <2>2 DEF dqbuf_wakeup
  <2>3. CASE ~streaming
    <3>1. UNCHANGED <<queued_list, done_list>>
      BY <1>12, <2>3 DEF dqbuf_wakeup
    <3> QED
      BY <1>5, <2>1, <3>1 DEF Handing, Started
  <2> QED
    BY <2>2, <2>3
<1>13. ASSUME NEW c \in Callers,
              dqbuf_interrupted(c) \/ STREAMOFF(c) \/ vb2_fop_release(c)
       PROVE  Move
  <2>1. /\ step = "none" /\ step' \in {"none", "stopping", "cancel"}
        /\ UNCHANGED <<queued_list, done_list, active, sbuf, start_streaming_called>>
    BY <1>1, <1>13
    DEF dqbuf_interrupted, STREAMOFF, vb2_fop_release, Enter, Return, Continue, ControlInv
  <2> QED
    BY <1>5, <2>1 DEF Handing, Started
<1>14. CASE enqueue_in_driver
  BY <1>5, <1>14 DEF enqueue_in_driver, Handing
<1>15. CASE buf_queue
  <2>1. CASE UNCHANGED <<active, todo, step>>
    BY <1>5, <1>15, <2>1 DEF buf_queue, Handing, Started
  <2>2. CASE active' = Append(active, Head(todo)) /\ todo' = Tail(todo) /\ step' = "handover"
    <3>1. todo # <<>>
      BY <1>1, <1>15 DEF buf_queue, ControlInv
    <3>2. active \o todo = active' \o todo'
      BY <1>3, <2>2, <3>1, MoveHead
    <3>3. Handing = todo /\ Handing' = todo' /\ Hand' = Hand
      BY <1>15, <2>2 DEF buf_queue, Handing, Hand
    <3>4. Rest' = Rest
      BY <3>2, <3>3 DEF Rest
    <3> QED
      BY <1>4, <1>15, <3>4 DEF buf_queue
  <2> QED
    BY <1>15, <2>1, <2>2 DEF buf_queue
<1>16. CASE handover_done
  <2>1. Handing = <<>> /\ Handing' = <<>>
    BY <1>16 DEF handover_done, Return, Handing, Started
  <2> QED
    BY <1>5, <1>16, <2>1 DEF handover_done
<1>17. CASE start_streaming
  <2>1. sbuf = NoBuf /\ ~start_streaming_called
    BY <1>1, <1>17 DEF start_streaming, ControlInv, ThreadInv
  <2>2. Rest' = Rest
    BY <1>17, <2>1 DEF start_streaming, Return, Rest, Hand, Handing, Started
  <2> QED
    BY <1>1, <1>17, <2>2, QuietStep DEF start_streaming, Move
<1>18. CASE start_streaming_failed
  BY <1>18 DEF start_streaming_failed
<1>19. CASE stop_streaming_signal \/ stop_streaming_join
  <2>1. start_streaming_called /\ step \in {"stopping", "joining"}
        /\ step' \in {"stopping", "joining", "draining"}
    BY <1>1, <1>19 DEF stop_streaming_signal, stop_streaming_join, ControlInv
  <2> QED
    BY <1>5, <1>19, <2>1 DEF stop_streaming_signal, stop_streaming_join, Handing, Started
<1>20. CASE stop_streaming_drain
  <2>1. start_streaming_called /\ sbuf = NoBuf
    BY <1>1, <1>20 DEF stop_streaming_drain, ControlInv, ThreadInv, ThreadRunning
  <2>2. CASE active = <<>>
    BY <1>5, <1>20, <2>1, <2>2 DEF stop_streaming_drain, Handing, Started
  <2>3. CASE active # <<>>
    <3> DEFINE b == Head(active)
    <3>1. /\ b \in Index /\ Tail(active) \in Seq(Index) /\ active = <<b>> \o Tail(active)
          /\ <<b>> \in Seq(Index)
      BY <1>3, <2>3, Unfold, ListOps
    <3>2. vbstate[b] = "ACTIVE"
      <4>1. b = active[1] /\ Len(active) \in Nat /\ Len(active) >= 1
        BY <1>3, <2>3, ListIndex
      <4> QED
        BY <1>1, <4>1 DEF OwnInv
    <3>3. /\ done_list' = Append(done_list, b) /\ active' = Tail(active)
          /\ UNCHANGED <<queued_list, sbuf, start_streaming_called, step>>
          /\ step = "draining"
      BY <1>20, <2>3, <3>2 DEF stop_streaming_drain, vb2_buffer_done
    <3>4. Hand = <<>> /\ Hand' = <<>> /\ Handing = <<>> /\ Handing' = <<>>
      BY <2>1, <3>3 DEF Hand, Handing, Started
    <3>5. Rest = active /\ Rest' = Tail(active)
      BY <1>3, <3>1, <3>3, <3>4, ConcatLaws DEF Rest
    <3>6. Rest = <<b>> \o Rest' /\ Rest' \in Seq(Index)
      BY <3>1, <3>5
    <3> HIDE DEF b
    <3> QED
      BY <1>1, <1>2, <2>1, <3>1, <3>3, <3>6, CompleteStep DEF Move
  <2> QED
    BY <2>2, <2>3
<1>21. CASE queue_cancel
  <2>1. active' = <<>>
    BY <1>1, <1>21 DEF queue_cancel, OwnInv
  <2> QED
    BY <1>2, <1>21, <2>1, ResetStep DEF queue_cancel, Return, Move
<1>22. CASE fgt_check \/ fgt_lock \/ fgt_fill \/ fgt_sleep
  BY <1>5, <1>22 DEF fgt_check, fgt_lock, fgt_fill, fgt_sleep, Handing, Started
<1>23. CASE fgt_take
  <2>1. sbuf = NoBuf
    BY <1>1, <1>23 DEF fgt_take, ThreadInv
  <2>2. CASE active = <<>>
    BY <1>5, <1>23, <2>2 DEF fgt_take, Handing, Started
  <2>3. CASE active # <<>>
    <3>1. /\ Head(active) \in Index /\ Tail(active) \in Seq(Index)
          /\ active = <<Head(active)>> \o Tail(active) /\ <<Head(active)>> \in Seq(Index)
      BY <1>3, <2>3, Unfold, ListOps
    <3>2. /\ Hand = <<>> /\ Hand' = <<Head(active)>> /\ active' = Tail(active)
          /\ Handing' = Handing
      BY <1>23, <2>1, <2>3, <3>1, NoBufNotIndex DEF fgt_take, Hand, Handing, Started
    <3>3. Rest = active \o Handing
      BY <1>3, <3>2, ConcatLaws DEF Rest
    <3>4. (<<Head(active)>> \o Tail(active)) \o Handing
            = <<Head(active)>> \o (Tail(active) \o Handing)
      BY <1>3, <3>1, ConcatLaws
    <3>5. Rest' = Rest
      BY <3>1, <3>2, <3>3, <3>4 DEF Rest
    <3> QED
      BY <1>4, <1>23, <3>5 DEF fgt_take
  <2> QED
    BY <2>2, <2>3
<1>24. CASE fgt_done
  <2>1. /\ sbuf \in Index /\ vbstate[sbuf] = "ACTIVE" /\ start_streaming_called
    BY <1>1, <1>24 DEF fgt_done, ThreadInv, OwnInv, TypeOK, DeviceTypeOK
  <2>2. /\ done_list' = Append(done_list, sbuf) /\ sbuf' = NoBuf
        /\ UNCHANGED <<queued_list, active, todo, step, start_streaming_called>>
    BY <1>24, <2>1 DEF fgt_done, vb2_buffer_done
  <2>3. Hand = <<sbuf>> /\ Hand' = <<>> /\ Handing' = Handing
    BY <2>1, <2>2, NoBufNotIndex DEF Hand, Handing, Started
  <2>4. Rest' = active \o Handing /\ Rest' \in Seq(Index)
    BY <1>3, <2>2, <2>3, ConcatLaws DEF Rest
  <2>5. Rest = <<sbuf>> \o Rest'
    BY <2>3, <2>4 DEF Rest
  <2> QED
    BY <1>1, <1>2, <2>1, <2>2, <2>4, <2>5, CompleteStep DEF Move
<1>25. CASE UNCHANGED vars
  BY <1>5, <1>25 DEF vars, Handing, Started
<1> QED
  BY <1>7, <1>8, <1>9, <1>11, <1>12, <1>13, <1>14, <1>15, <1>16, <1>17, <1>18, <1>19,
     <1>20, <1>21, <1>22, <1>23, <1>24, <1>25
  DEF Next, Ioctl, IoctlStep, frame_generation_thread, Oopsed

(* v4l2_init leaves both queues empty.                                     *)
LEMMA FifoInit == Init => FifoInv /\ FQ!Init
<1> SUFFICES ASSUME Init PROVE  FifoInv /\ FQ!Init
  OBVIOUS
<1> USE DEF Init, v4l2_init_device
<1>1. <<>> \in Seq(Index) /\ <<>> \o <<>> = <<>>
  BY ListOps, ConcatLaws
<1>2. Rest = <<>>
  BY <1>1 DEF Rest, Hand, Handing, Started
<1>3. FifoInv
  BY <1>1, <1>2 DEF FifoInv
<1>4. Pending = <<>>
  BY <1>1, <1>2, Suffix DEF Pending
<1> QED
  BY <1>3, <1>4 DEF FQ!Init, Pending

(* With no injected failure every behaviour of the driver is one of        *)
(* FrameQueue: buffers are completed and dequeued in the order they were   *)
(* queued, each once, through the thread, the drain of stop_streaming and  *)
(* every interleaving of callers (vid4linux.c:85-88, 186, 215-218).        *)
THEOREM DriverIsFifo == Faults = {} => (Spec => ImplementsFrameQueue)
<1> SUFFICES ASSUME Faults = {} PROVE  Spec => ImplementsFrameQueue
  OBVIOUS
<1>1. Inv /\ Inv' /\ FifoInv /\ [Next]_vars => FifoInv' /\ [FQ!Next]_<<Pending, done_list>>
  BY FifoStep DEF Move
<1>2. Spec => []Inv
  BY Invariant
<1>3. Spec => []FifoInv
  BY <1>1, <1>2, FifoInit, PTL DEF Spec
<1>4. Spec => FQ!Init
  BY FifoInit DEF Spec
<1>5. Spec => [][FQ!Next]_<<Pending, done_list>>
  BY <1>1, <1>2, <1>3, PTL DEF Spec
<1> QED
  BY <1>4, <1>5 DEF ImplementsFrameQueue, FQ!Spec, Pending

=============================================================================
